---------------------------- MODULE StreamProofs ----------------------------
(***************************************************************************)
(* Proofs about Stream, for any number of writers, chunks and places in    *)
(* the buffer, and about AgentStream, which composes it with the goroutine *)
(* of RunStream.  The stream keeps its contract because a writer that has  *)
(* lost a chunk never writes again: a chunk is lost only to a context that *)
(* is done, and Write looks at the context first.                          *)
(***************************************************************************)
EXTENDS AgentStream, SequenceTheorems, FiniteSetTheorems, TLAPS

-----------------------------------------------------------------------------
(* The sequences of chunks                                                 *)

MaxIndex == MaxChunks * Cardinality(Writers)

LEMMA MaxIndexNat == MaxIndex \in Nat
<1>1. Cardinality(Writers) \in Nat
  BY StreamAssumption, FS_CardinalityType
<1> QED
  BY <1>1, StreamAssumption DEF MaxIndex

LEMMA PairsCounted ==
  /\ IsFiniteSet(Writers \X (1..MaxChunks))
  /\ Cardinality(Writers \X (1..MaxChunks)) = MaxIndex
<1>1. IsFiniteSet(Writers) /\ Cardinality(Writers) \in Nat
  BY StreamAssumption, FS_CardinalityType
<1>2. MaxChunks \in Nat /\ IsFiniteSet(1..MaxChunks)
  BY StreamAssumption, FS_Interval
<1>3. Cardinality(1..MaxChunks) = MaxChunks
  BY <1>2, FS_Interval
<1>4. /\ IsFiniteSet(Writers \X (1..MaxChunks))
      /\ Cardinality(Writers \X (1..MaxChunks))
           = Cardinality(Writers) * Cardinality(1..MaxChunks)
  BY <1>1, <1>2, FS_Product
<1>5. \A m, n \in Nat : m * n = n * m
  OBVIOUS
<1> QED
  BY <1>1, <1>2, <1>3, <1>4, <1>5 DEF MaxIndex

LEMMA RangeAppend ==
  ASSUME NEW S, NEW s \in Seq(S), NEW e \in S
  PROVE  Range(Append(s, e)) = Range(s) \cup {e}
<1>1. /\ DOMAIN Append(s, e) = 1..Len(s) + 1 /\ DOMAIN s = 1..Len(s)
      /\ Len(s) \in Nat
      /\ \A i \in 1..Len(s) : Append(s, e)[i] = s[i]
      /\ Append(s, e)[Len(s) + 1] = e
  BY AppendProperties, LenProperties
<1>2. DOMAIN Append(s, e) = DOMAIN s \cup {Len(s) + 1}
  BY <1>1
<1> QED
  BY <1>1, <1>2 DEF Range

(* How many chunks of w a sequence has.                                    *)
Count(s, w) == Cardinality({i \in DOMAIN s : s[i].by = w})

LEMMA CountNat ==
  ASSUME NEW s \in Seq(Chunk), NEW w
  PROVE  /\ IsFiniteSet({i \in DOMAIN s : s[i].by = w})
         /\ Count(s, w) \in Nat
<1>1. DOMAIN s = 1..Len(s) /\ Len(s) \in Nat
  BY LenProperties
<1>2. IsFiniteSet(DOMAIN s)
  BY <1>1, FS_Interval
<1>3. IsFiniteSet({i \in DOMAIN s : s[i].by = w})
  BY <1>2, FS_Subset
<1> QED
  BY <1>3, FS_CardinalityType DEF Count

LEMMA CountAppend ==
  ASSUME NEW s \in Seq(Chunk), NEW c \in Chunk, NEW w
  PROVE  Count(Append(s, c), w) =
           IF c.by = w THEN Count(s, w) + 1 ELSE Count(s, w)
<1> DEFINE I == {i \in DOMAIN s : s[i].by = w}
           J == {i \in DOMAIN Append(s, c) : Append(s, c)[i].by = w}
<1>1. /\ DOMAIN Append(s, c) = 1..Len(s) + 1 /\ DOMAIN s = 1..Len(s)
      /\ Len(s) \in Nat
      /\ \A i \in 1..Len(s) : Append(s, c)[i] = s[i]
      /\ Append(s, c)[Len(s) + 1] = c
  BY AppendProperties, LenProperties
<1>2. J = IF c.by = w THEN I \cup {Len(s) + 1} ELSE I
  BY <1>1
<1>3. Len(s) + 1 \notin I
  BY <1>1
<1>4. IsFiniteSet(I)
  BY CountNat
<1> HIDE DEF I, J
<1>5. Cardinality(I \cup {Len(s) + 1}) = Cardinality(I) + 1
  BY <1>3, <1>4, FS_AddElement
<1> QED
  BY <1>2, <1>5 DEF Count, I, J

LEMMA MoveHead ==
  ASSUME NEW S, NEW s \in Seq(S), NEW t \in Seq(S), t # <<>>
  PROVE  Append(s, Head(t)) \o Tail(t) = s \o t
<1>1. Head(t) \in S /\ Tail(t) \in Seq(S)
  BY HeadTailProperties
<1>2. t = <<Head(t)>> \o Tail(t)
  BY <1>1
<1>3. Append(s, Head(t)) = s \o <<Head(t)>> /\ <<Head(t)>> \in Seq(S)
  BY <1>1, AppendIsConcat
<1> QED
  BY <1>1, <1>2, <1>3, ConcatAssociative

LEMMA PutLast ==
  ASSUME NEW S, NEW s \in Seq(S), NEW t \in Seq(S), NEW e \in S
  PROVE  s \o Append(t, e) = Append(s \o t, e)
<1>1. Append(t, e) = t \o <<e>> /\ <<e>> \in Seq(S) /\ s \o t \in Seq(S)
  BY AppendIsConcat, ConcatProperties
<1>2. Append(s \o t, e) = (s \o t) \o <<e>>
  BY <1>1, AppendIsConcat
<1> QED
  BY <1>1, <1>2, ConcatAssociative
-----------------------------------------------------------------------------
(* Types, and the counter                                                  *)

(* A writer in a Write has its last chunk in hand.                         *)
InHand == \A w \in Writers :
  InWrite(w) => /\ cur[w] \in Chunk /\ cur[w].by = w
                /\ cur[w].n = written[w] /\ written[w] >= 1

Typed ==
  /\ TypeOK
  /\ cur \in [Writers -> Chunk \cup {NoChunk}]
  /\ InHand

(* The chunks that have had their turn at the counter: each of them added  *)
(* one to it or, by a race, nothing.                                       *)
Counted == {c \in Writers \X (1..MaxChunks) :
  /\ c[2] <= written[c[1]]
  /\ ~(pc[c[1]] \in {"numbering", "storing"} /\ c[2] = written[c[1]])}

Numbered ==
  /\ chunkIdx <= Cardinality(Counted)
  /\ \A w \in Writers : InWrite(w) => cur[w].index <= Cardinality(Counted)

LEMMA CountedFinite ==
  /\ IsFiniteSet(Counted)
  /\ Cardinality(Counted) \in Nat /\ Cardinality(Counted) <= MaxIndex
<1> DEFINE All == Writers \X (1..MaxChunks)
<1>1. IsFiniteSet(1..MaxChunks) /\ Cardinality(1..MaxChunks) = MaxChunks
  BY StreamAssumption, FS_Interval
<1>2. IsFiniteSet(All) /\ Cardinality(All) = Cardinality(Writers) * MaxChunks
  BY <1>1, StreamAssumption, FS_Product
<1>3. Cardinality(Writers) \in Nat
  BY StreamAssumption, FS_CardinalityType
<1>4. Cardinality(All) = MaxIndex
  BY <1>2, <1>3, StreamAssumption DEF MaxIndex
<1>5. Counted \in SUBSET All
  BY DEF Counted
<1> HIDE DEF All
<1>6. IsFiniteSet(Counted) /\ Cardinality(Counted) <= Cardinality(All)
  BY <1>2, <1>5, FS_Subset
<1> QED
  BY <1>4, <1>6, FS_CardinalityType

(* A step that leaves the counter, and who is at it, alone.                *)
LEMMA CountedSame ==
  ASSUME Numbered, UNCHANGED <<chunkIdx, cur, written>>,
         \A w \in Writers :
           /\ pc'[w] \in {"numbering", "storing"}
                <=> pc[w] \in {"numbering", "storing"}
           /\ InWrite(w)' => InWrite(w)
  PROVE  Numbered'
<1>1. Counted' = Counted
  BY DEF Counted
<1> QED
  BY <1>1 DEF Numbered

LEMMA TypedFields ==
  ASSUME Typed
  PROVE  /\ chunkIdx \in 0..MaxIndex /\ chunkIdx \in Nat
         /\ pc \in [Writers -> PCs] /\ written \in [Writers -> 0..MaxChunks]
         /\ chunks \in Seq(Chunk) /\ received \in Seq(Chunk)
         /\ \A w \in Writers : InWrite(w) =>
              /\ cur[w].index \in 0..MaxIndex
              /\ cur[w] = [by |-> w, n |-> written[w], kind |-> cur[w].kind,
                           index |-> cur[w].index]
         /\ \A w \in Writers : InWrite(w) => cur[w].index \in Nat
<1>1. chunkIdx \in 0..MaxIndex
  BY DEF Typed, TypeOK, MaxIndex
<1>2. \A w \in Writers : InWrite(w) =>
        /\ cur[w].index \in 0..MaxIndex
        /\ cur[w] = [by |-> w, n |-> written[w], kind |-> cur[w].kind,
                     index |-> cur[w].index]
  BY DEF Typed, InHand, Chunk, MaxIndex
<1> QED
  BY <1>1, <1>2, MaxIndexNat DEF Typed, TypeOK

(* The chunk a Write begins with.                                          *)
LEMMA BeginTyped ==
  ASSUME Typed, Numbered, NEW w \in Writers, NEW kind \in AllKinds,
         WriteBegin(w, kind)
  PROVE  Typed' /\ Numbered'
<1> DEFINE c == [by |-> w, n |-> written[w] + 1, kind |-> kind, index |-> 0]
<1>1. /\ written[w] \in 0..MaxChunks /\ written[w] < MaxChunks
      /\ written' = [written EXCEPT ![w] = @ + 1]
      /\ pc[w] = "ready" /\ pc' = [pc EXCEPT ![w] = "numbering"]
      /\ cur' = [cur EXCEPT ![w] = c]
      /\ UNCHANGED <<chanVars, chunkIdx, handled, producer, clientVars>>
  BY DEF WriteBegin, Submit, Goto, Typed, TypeOK
<1>2. written[w] + 1 \in 1..MaxChunks
  BY <1>1, StreamAssumption
<1>3. c \in Chunk
  BY <1>2, MaxIndexNat DEF Chunk, MaxIndex
<1>4. Typed'
  <2>1. cur' \in [Writers -> Chunk \cup {NoChunk}]
    BY <1>1, <1>3 DEF Typed
  <2>2. InHand'
    BY <1>1, <1>2, <1>3 DEF Typed, TypeOK, InHand, InWrite, PCs
  <2>3. pc' \in [Writers -> PCs] /\ written' \in [Writers -> 0..MaxChunks]
    BY <1>1, <1>2 DEF Typed, TypeOK, PCs
  <2> QED
    BY <1>1, <2>1, <2>2, <2>3 DEF Typed, TypeOK, chanVars, clientVars
<1>5. Counted' = Counted
  <2>1. \A x \in Writers : x # w => written'[x] = written[x] /\ pc'[x] = pc[x]
    BY <1>1 DEF Typed, TypeOK
  <2>2. written'[w] = written[w] + 1 /\ pc'[w] = "numbering"
    BY <1>1 DEF Typed, TypeOK
  <2>3. \A n \in 1..MaxChunks :
          n <= written[w] <=> n <= written[w] + 1 /\ n # written[w] + 1
    BY <1>1
  <2> QED
    BY <1>1, <2>1, <2>2, <2>3 DEF Counted
<1>6. Numbered'
  <2>1. cur'[w].index = 0
    BY <1>1 DEF Typed
  <2>2. \A x \in Writers : x # w => /\ cur'[x] = cur[x]
                                   /\ InWrite(x)' = InWrite(x)
    BY <1>1 DEF Typed, TypeOK, InWrite
  <2> QED
    BY <1>1, <1>5, <2>1, <2>2, CountedFinite DEF Numbered
<1> QED
  BY <1>4, <1>6
LEMMA RefusedTyped ==
  ASSUME Typed, Numbered, NEW w \in Writers, WriteRefused(w)
  PROVE  Typed' /\ Numbered'
<1>1. /\ written[w] \in 0..MaxChunks /\ written[w] < MaxChunks
      /\ written' = [written EXCEPT ![w] = @ + 1] /\ pc[w] = "ready"
      /\ UNCHANGED <<pc, cur, chanVars, chunkIdx, handled, producer,
                     clientVars>>
  BY DEF WriteRefused, Submit, Typed, TypeOK
<1>2. written[w] + 1 \in 1..MaxChunks
  BY <1>1, StreamAssumption
<1>3. Typed'
  BY <1>1, <1>2 DEF Typed, TypeOK, InHand, InWrite, chanVars, clientVars
<1>4. Counted \subseteq Counted'
  <2>1. /\ \A x \in Writers : x # w => written'[x] = written[x]
        /\ written'[w] = written[w] + 1 /\ pc' = pc
    BY <1>1 DEF Typed, TypeOK
  <2>2. \A n \in 1..MaxChunks : n <= written[w] => n <= written[w] + 1
    BY <1>1
  <2> QED
    BY <1>1, <2>1, <2>2 DEF Counted
<1>5. /\ Cardinality(Counted) <= Cardinality(Counted')
      /\ Cardinality(Counted) \in Nat /\ Cardinality(Counted') \in Nat
  <2>1. IsFiniteSet(Counted')
    <3>1. Counted' \in SUBSET (Writers \X (1..MaxChunks))
      BY DEF Counted
    <3>2. IsFiniteSet(1..MaxChunks)
      BY StreamAssumption, FS_Interval
    <3> QED
      BY <3>1, <3>2, StreamAssumption, FS_Product, FS_Subset
  <2> QED
    BY <1>4, <2>1, CountedFinite, FS_Subset, FS_CardinalityType
<1>6. Numbered'
  <2>1. \A x \in Writers : InWrite(x) => cur[x].index \in Nat
    BY TypedFields
  <2> QED
    BY <1>1, <1>5, <2>1, TypedFields DEF Numbered, InWrite
<1> QED
  BY <1>3, <1>6

LEMMA ReadTyped ==
  ASSUME Typed, Numbered, NEW w \in Writers, ReadIndex(w)
  PROVE  Typed' /\ Numbered'
<1>1. /\ pc[w] = "numbering" /\ pc' = [pc EXCEPT ![w] = "storing"]
      /\ cur' = [cur EXCEPT ![w].index = chunkIdx]
      /\ UNCHANGED <<chanVars, chunkIdx, handled, written, producer,
                     clientVars>>
  BY DEF ReadIndex, Goto
<1>2. InWrite(w) /\ InWrite(w)'
  BY <1>1 DEF InWrite, Typed, TypeOK
<1>3. cur'[w] = [by |-> w, n |-> written[w], kind |-> cur[w].kind,
                 index |-> chunkIdx]
  <2>1. cur[w] = [by |-> w, n |-> written[w], kind |-> cur[w].kind,
                  index |-> cur[w].index]
    BY <1>2, TypedFields
  <2>2. cur'[w] = [cur[w] EXCEPT !.index = chunkIdx]
    BY <1>1 DEF Typed
  <2> QED
    BY <2>1, <2>2
<1>4. cur'[w] \in Chunk
  BY <1>2, <1>3, TypedFields DEF Typed, InHand, Chunk, MaxIndex
<1>5. Typed'
  <2>1. cur' \in [Writers -> Chunk \cup {NoChunk}]
    BY <1>1, <1>4 DEF Typed
  <2>2. InHand'
    BY <1>1, <1>2, <1>3, <1>4 DEF Typed, TypeOK, InHand, InWrite, PCs
  <2>3. pc' \in [Writers -> PCs]
    BY <1>1 DEF Typed, TypeOK, PCs
  <2> QED
    BY <1>1, <2>1, <2>2, <2>3 DEF Typed, TypeOK, chanVars, clientVars
<1>6. Counted' = Counted
  <2>1. \A x \in Writers : pc'[x] \in {"numbering", "storing"}
                             <=> pc[x] \in {"numbering", "storing"}
    BY <1>1 DEF Typed, TypeOK
  <2> QED
    BY <1>1, <2>1 DEF Counted
<1>7. Numbered'
  <2>1. \A x \in Writers : x # w => /\ cur'[x] = cur[x]
                                   /\ InWrite(x)' = InWrite(x)
    BY <1>1 DEF Typed, TypeOK, InWrite
  <2> QED
    BY <1>1, <1>3, <1>6, <2>1 DEF Numbered
<1> QED
  BY <1>5, <1>7

(* Two writers may store the same number; neither stores one that is more  *)
(* than the chunks that had their turn.                                    *)
LEMMA StoreTyped ==
  ASSUME Typed, Numbered, NEW w \in Writers, StoreIndex(w)
  PROVE  Typed' /\ Numbered'
<1>1. PICK v \in {cur[w].index, chunkIdx} :
        /\ chunkIdx' = v + 1 /\ pc[w] = "storing"
        /\ pc' = [pc EXCEPT ![w] = IF HasHandler THEN "handling"
                                   ELSE "sending"]
        /\ UNCHANGED <<chanVars, cur, handled, written, producer, clientVars>>
  BY DEF StoreIndex, Goto
<1>2. /\ InWrite(w) /\ v \in 0..MaxIndex /\ v <= Cardinality(Counted)
      /\ written[w] \in 1..MaxChunks
  BY <1>1, TypedFields DEF InWrite, Numbered, Typed, InHand, Chunk, TypeOK
<1>3. Counted' = Counted \cup {<<w, written[w]>>}
  <2>1. \A x \in Writers : x # w => pc'[x] = pc[x]
    BY <1>1 DEF Typed, TypeOK
  <2>2. pc'[w] \notin {"numbering", "storing"}
    BY <1>1 DEF Typed, TypeOK
  <2>3. \A n \in 1..MaxChunks :
          n <= written[w] => n < written[w] \/ n = written[w]
    BY <1>2
  <2>4. ASSUME NEW x \in Writers, NEW n \in 1..MaxChunks
        PROVE  <<x, n>> \in Counted'
                 <=> <<x, n>> \in Counted \/ <<x, n>> = <<w, written[w]>>
    BY <1>1, <1>2, <2>1, <2>2, <2>3 DEF Counted
  <2>5. /\ Counted \subseteq Writers \X (1..MaxChunks)
        /\ Counted' \subseteq Writers \X (1..MaxChunks)
    BY DEF Counted
  <2> QED
    BY <1>2, <2>4, <2>5
<1>4. <<w, written[w]>> \notin Counted
  BY <1>1 DEF Counted
<1>5. Cardinality(Counted') = Cardinality(Counted) + 1
  BY <1>3, <1>4, CountedFinite, FS_AddElement
<1>6. Cardinality(Counted') <= MaxIndex
  <2>1. Counted' \in SUBSET (Writers \X (1..MaxChunks))
    BY DEF Counted
  <2>2. /\ IsFiniteSet(Writers \X (1..MaxChunks))
        /\ Cardinality(Writers \X (1..MaxChunks)) = MaxIndex
    BY PairsCounted
  <2> QED
    BY <2>1, <2>2, FS_Subset
<1>7. chunkIdx' \in 0..MaxIndex
  BY <1>1, <1>2, <1>5, <1>6, CountedFinite, MaxIndexNat
<1>8. Typed'
  BY <1>1, <1>7 DEF Typed, TypeOK, InHand, InWrite, PCs, MaxIndex, chanVars,
     clientVars
<1>9. Numbered'
  <2>1. \A x \in Writers : InWrite(x)' => InWrite(x) /\ cur'[x] = cur[x]
    BY <1>1 DEF InWrite, Typed, TypeOK
  <2>2. \A x \in Writers : InWrite(x) => cur[x].index \in Nat
    BY TypedFields
  <2> QED
    BY <1>1, <1>2, <1>5, <2>1, <2>2, CountedFinite DEF Numbered
<1> QED
  BY <1>8, <1>9

(* Every other step leaves the counter alone.                              *)
LEMMA WriteTyped ==
  ASSUME Typed, Numbered, NEW w \in Writers, Write(w)
  PROVE  Typed' /\ Numbered'
<1>1. CASE HandlerAccepts(w)
  <2>1. /\ pc[w] = "handling" /\ pc' = [pc EXCEPT ![w] = "sending"]
        /\ UNCHANGED <<chanVars, chunkIdx, cur, written, producer, clientVars>>
        /\ handled' = Append(handled, cur[w])
    BY <1>1 DEF HandlerAccepts, CallHandler, Goto
  <2>2. cur[w] \in Chunk
    BY <2>1 DEF Typed, InHand, InWrite
  <2>3. handled' \in Seq(Chunk)
    BY <2>1, <2>2 DEF Typed, TypeOK
  <2>4. Typed'
    BY <2>1, <2>3 DEF Typed, TypeOK, InHand, InWrite, PCs, chanVars, clientVars
  <2> QED
    BY <2>1, <2>4, CountedSame DEF Typed, TypeOK, InWrite
<1>2. CASE HandlerStops(w)
  <2>1. /\ pc[w] = "handling" /\ pc' = [pc EXCEPT ![w] = "ready"]
        /\ UNCHANGED <<chunks, closed, result, err, chunkIdx, cur, written,
                       producer, clientVars>>
        /\ handled' = Append(handled, cur[w])
        /\ ctxDone' = TRUE /\ cancelled' = TRUE
    BY <1>2 DEF HandlerStops, DoCancel, CallHandler, Goto
  <2>2. cur[w] \in Chunk
    BY <2>1 DEF Typed, InHand, InWrite
  <2>3. handled' \in Seq(Chunk)
    BY <2>1, <2>2 DEF Typed, TypeOK
  <2>4. Typed'
    BY <2>1, <2>3 DEF Typed, TypeOK, InHand, InWrite, PCs, clientVars
  <2> QED
    BY <2>1, <2>4, CountedSame DEF Typed, TypeOK, InWrite
<1>3. CASE Send(w)
  <2>1. /\ pc[w] = "sending" /\ pc' = [pc EXCEPT ![w] = "ready"]
        /\ UNCHANGED <<closed, ctxDone, cancelled, result, err, chunkIdx, cur,
                       handled, written, producer, clientVars>>
        /\ Len(chunks) < BufferSize /\ chunks' = Append(chunks, cur[w])
    BY <1>3 DEF Send, Room, Goto
  <2>2. cur[w] \in Chunk
    BY <2>1 DEF Typed, InHand, InWrite
  <2>3. chunks' \in Seq(Chunk) /\ Len(chunks') <= BufferSize
    BY <2>1, <2>2, StreamAssumption, AppendProperties, LenProperties
       DEF Typed, TypeOK
  <2>4. Typed'
    BY <2>1, <2>3 DEF Typed, TypeOK, InHand, InWrite, PCs, clientVars
  <2> QED
    BY <2>1, <2>4, CountedSame DEF Typed, TypeOK, InWrite
<1>4. CASE SendCancelled(w)
  <2>1. /\ pc[w] = "sending" /\ pc' = [pc EXCEPT ![w] = "ready"]
        /\ UNCHANGED <<chanVars, chunkIdx, cur, handled, written, producer,
                       clientVars>>
    BY <1>4 DEF SendCancelled, Goto
  <2>2. Typed'
    BY <2>1 DEF Typed, TypeOK, InHand, InWrite, PCs, chanVars, clientVars
  <2> QED
    BY <2>1, <2>2, CountedSame DEF Typed, TypeOK, InWrite
<1>5. ASSUME NEW kind \in Kinds, WriteBegin(w, kind) PROVE Typed' /\ Numbered'
  BY <1>5, BeginTyped, StreamAssumption
<1> QED
  BY <1>1, <1>2, <1>3, <1>4, <1>5, RefusedTyped, ReadTyped, StoreTyped
     DEF Write

(* The consumer, and whoever cancels or closes.                            *)
LEMMA ConsumeTyped ==
  ASSUME Typed, Numbered, Consume \/ BreakOut
  PROVE  Typed' /\ Numbered'
<1>1. UNCHANGED writeVars
  BY DEF Consume, Receive, SeeEnd, WaitReturns, BreakOut, ConsumerTo
<1>2. Numbered'
  BY <1>1, CountedSame DEF writeVars, InWrite
<1>3. CASE Receive
  <2>1. /\ Head(chunks) \in Chunk /\ chunks' \in Seq(Chunk)
        /\ Len(chunks') = Len(chunks) - 1 /\ Len(chunks) \in Nat
    BY <1>3, HeadTailProperties, LenProperties DEF Receive, Typed, TypeOK
  <2>2. received' \in Seq(Chunk)
    BY <1>3, <2>1 DEF Receive, Typed, TypeOK
  <2>3. Len(chunks') <= BufferSize
    BY <2>1, StreamAssumption DEF Typed, TypeOK
  <2> QED
    BY <1>2, <1>3, <2>1, <2>2, <2>3
       DEF Receive, Typed, TypeOK, InHand, InWrite, writeVars
<1>4. CASE SeeEnd \/ WaitReturns \/ BreakOut
  BY <1>2, <1>4 DEF SeeEnd, WaitReturns, BreakOut, ConsumerTo, chanVars,
     writeVars, Typed, TypeOK, InHand, InWrite
<1> QED
  BY <1>3, <1>4 DEF Consume

(* A step that writes no chunk and none of what a writer keeps.            *)
LEMMA RestTyped ==
  ASSUME Typed, Numbered,
         UNCHANGED <<chunks, chunkIdx, cur, handled, written, clientVars>>,
         {closed', ctxDone', cancelled'} \subseteq BOOLEAN,
         result' \in {"nil", "result"} /\ err' \in {"nil", "error"},
         producer' \in {"running", "returning", "gone"},
         pc' = pc \/ \E w \in Writers : pc[w] = "ready"
                                        /\ pc' = [pc EXCEPT ![w] = "stopped"]
  PROVE  Typed' /\ Numbered'
<1>1. /\ pc' \in [Writers -> PCs]
      /\ \A w \in Writers : /\ InWrite(w)' = InWrite(w)
                            /\ pc'[w] \in {"numbering", "storing"}
                                 <=> pc[w] \in {"numbering", "storing"}
  <2>1. CASE pc' = pc
    BY <2>1 DEF Typed, TypeOK, InWrite
  <2>2. ASSUME NEW v \in Writers, pc[v] = "ready",
               pc' = [pc EXCEPT ![v] = "stopped"]
        PROVE  /\ pc' \in [Writers -> PCs]
               /\ \A w \in Writers :
                    /\ InWrite(w)' = InWrite(w)
                    /\ pc'[w] \in {"numbering", "storing"}
                         <=> pc[w] \in {"numbering", "storing"}
    <3>1. pc' \in [Writers -> PCs]
      BY <2>2 DEF Typed, TypeOK, PCs
    <3>2. \A w \in Writers : w # v => pc'[w] = pc[w]
      BY <2>2 DEF Typed, TypeOK
    <3>3. pc'[v] = "stopped"
      BY <2>2 DEF Typed, TypeOK
    <3> QED
      BY <2>2, <3>1, <3>2, <3>3 DEF InWrite
  <2> QED
    BY <2>1, <2>2
<1>2. Numbered'
  BY <1>1, CountedSame
<1>3. Typed'
  BY <1>1 DEF Typed, TypeOK, InHand, clientVars
<1> QED
  BY <1>2, <1>3

LEMMA InitTyped == Init => Typed /\ Numbered
<1> SUFFICES ASSUME Init PROVE Typed /\ Numbered
  OBVIOUS
<1>1. chunkIdx \in 0..MaxIndex
  BY MaxIndexNat DEF Init
<1>2. Typed
  <2>1. Len(chunks) <= BufferSize
    BY StreamAssumption DEF Init
  <2>2. /\ cur \in [Writers -> Chunk \cup {NoChunk}]
        /\ pc \in [Writers -> PCs] /\ written \in [Writers -> 0..MaxChunks]
    BY StreamAssumption DEF Init, PCs
  <2>3. InHand
    BY DEF Init, InHand, InWrite
  <2>4. chunks \in Seq(Chunk) /\ received \in Seq(Chunk)
        /\ handled \in Seq(Chunk)
    BY DEF Init
  <2>5. /\ consumer \in {"ranging", "waiting", "returned"}
        /\ \A w \in Writers : cur[w] \in Chunk \cup {NoChunk}
    BY DEF Init
  <2> QED
    BY <1>1, <2>1, <2>2, <2>3, <2>4, <2>5 DEF Init, Typed, TypeOK, MaxIndex
<1>3. Numbered
  BY CountedFinite DEF Init, Numbered, InWrite
<1> QED
  BY <1>2, <1>3
-----------------------------------------------------------------------------
(* What is in the stream                                                   *)

Lost(w) == GotIn(w) < MadeBy(w)

(* Nothing is in the stream twice, a writer that has lost a chunk is never *)
(* in a Write again, and of one that has not every chunk is in the stream. *)
Flow == \A w \in Writers :
  /\ GotIn(w) <= MadeBy(w)
  /\ Lost(w) => ctxDone /\ cancelled /\ ~InWrite(w)
  /\ ~Lost(w) => \A n \in 1..MadeBy(w) :
       \E i \in DOMAIN InStream : InStream[i].by = w /\ InStream[i].n = n

(* The handler has seen what is in the stream and what is about to be.     *)
Shown == (HasHandler /\ ~cancelled) =>
  \A c : c \in Range(handled)
           <=> \/ c \in Range(InStream)
               \/ \E w \in Writers : pc[w] = "sending" /\ cur[w] = c

LEMMA StreamType ==
  ASSUME Typed
  PROVE  /\ InStream \in Seq(Chunk) /\ handled \in Seq(Chunk)
         /\ \A w \in Writers :
              /\ GotIn(w) \in Nat
              /\ written[w] \in 0..MaxChunks
              /\ InWrite(w) => MadeBy(w) = written[w] - 1
              /\ ~InWrite(w) => MadeBy(w) = written[w]
              /\ MadeBy(w) \in 0..MaxChunks
<1>1. InStream \in Seq(Chunk) /\ handled \in Seq(Chunk)
  BY ConcatProperties DEF InStream, Typed, TypeOK
<1>2. \A w \in Writers : GotIn(w) \in Nat
  BY <1>1, CountNat DEF GotIn, Count
<1>3. \A w \in Writers :
        /\ written[w] \in 0..MaxChunks
        /\ InWrite(w) => written[w] >= 1
  BY DEF Typed, TypeOK, InHand
<1> QED
  BY <1>1, <1>2, <1>3, StreamAssumption DEF MadeBy

LEMMA SendStream ==
  ASSUME Typed, NEW w \in Writers, Send(w)
  PROVE  /\ InStream' = Append(InStream, cur[w])
         /\ cur[w] \in Chunk /\ cur[w].by = w /\ cur[w].n = written[w]
<1>1. cur[w] \in Chunk /\ cur[w].by = w /\ cur[w].n = written[w]
  BY DEF Send, Typed, InHand, InWrite
<1>2. chunks' = Append(chunks, cur[w]) /\ received' = received
  BY DEF Send, clientVars
<1> QED
  BY <1>1, <1>2, PutLast DEF InStream, Typed, TypeOK

LEMMA ReceiveStream ==
  ASSUME Typed, Receive
  PROVE  InStream' = InStream
BY MoveHead DEF Receive, InStream, Typed, TypeOK

(* A step that puts nothing in the stream and leaves writer x alone.       *)
LEMMA OtherFlow ==
  ASSUME Flow, NEW x \in Writers, InStream' = InStream,
         written'[x] = written[x], InWrite(x)' = InWrite(x),
         ctxDone => ctxDone', cancelled => cancelled'
  PROVE  (/\ GotIn(x) <= MadeBy(x)
          /\ Lost(x) => ctxDone /\ cancelled /\ ~InWrite(x)
          /\ ~Lost(x) => \A n \in 1..MadeBy(x) :
               \E i \in DOMAIN InStream :
                 InStream[i].by = x /\ InStream[i].n = n)'
<1>1. GotIn(x)' = GotIn(x) /\ MadeBy(x)' = MadeBy(x)
  BY DEF GotIn, MadeBy
<1>2. Lost(x)' = Lost(x)
  BY <1>1 DEF Lost
<1> QED
  BY <1>1, <1>2 DEF Flow

(* A writer that loses a chunk.                                            *)
LEMMA LoseFlow ==
  ASSUME Typed, Typed', Flow, NEW w \in Writers, InStream' = InStream,
         MadeBy(w)' = MadeBy(w) + 1, ~InWrite(w)', ctxDone', cancelled',
         \A x \in Writers : x # w => /\ written'[x] = written[x]
                                     /\ InWrite(x)' = InWrite(x)
  PROVE  Flow'
<1>1. GotIn(w)' = GotIn(w) /\ GotIn(w) <= MadeBy(w)
  BY DEF GotIn, Flow
<1>2. GotIn(w) \in Nat /\ MadeBy(w) \in Nat
  BY StreamType
<1>3. GotIn(w)' <= MadeBy(w)' /\ Lost(w)'
  BY <1>1, <1>2 DEF Lost
<1> QED
  BY <1>3, OtherFlow DEF Flow

LEMMA SendFlow ==
  ASSUME Typed, Typed', Flow, NEW w \in Writers, Send(w)
  PROVE  Flow'
<1> DEFINE s == InStream
           k == cur[w]
<1>1. /\ InStream' = Append(s, k) /\ k \in Chunk /\ k.by = w
      /\ k.n = written[w] /\ s \in Seq(Chunk)
  BY SendStream, StreamType
<1>2. /\ pc[w] = "sending" /\ pc' = [pc EXCEPT ![w] = "ready"]
      /\ written' = written /\ ctxDone' = ctxDone /\ cancelled' = cancelled
  BY DEF Send, Goto
<1>3. \A x \in Writers :
        GotIn(x)' = IF x = w THEN GotIn(x) + 1 ELSE GotIn(x)
  <2> TAKE x \in Writers
  <2>1. GotIn(x) = Count(s, x) /\ GotIn(x)' = Count(InStream', x)
    BY DEF GotIn, Count
  <2>2. Count(Append(s, k), x) = IF x = w THEN Count(s, x) + 1
                                 ELSE Count(s, x)
    BY <1>1, CountAppend
  <2> QED
    BY <1>1, <2>1, <2>2
<1>4. /\ InWrite(w) /\ ~InWrite(w)'
      /\ \A x \in Writers : x # w => InWrite(x)' = InWrite(x)
  BY <1>2 DEF InWrite, Typed, TypeOK
<1>5. /\ MadeBy(w) = written[w] - 1 /\ MadeBy(w)' = written[w]
      /\ written[w] \in Nat /\ GotIn(w) \in Nat
  BY <1>2, <1>4, StreamType DEF MadeBy
<1>6. ~Lost(w) /\ GotIn(w) <= MadeBy(w)
  BY <1>4 DEF Flow
<1>7. ~Lost(w)' /\ GotIn(w)' <= MadeBy(w)'
  BY <1>3, <1>5, <1>6 DEF Lost
<1>8. /\ DOMAIN Append(s, k) = 1..Len(s) + 1 /\ DOMAIN s = 1..Len(s)
      /\ Len(s) \in Nat /\ Append(s, k)[Len(s) + 1] = k
      /\ \A i \in DOMAIN s :
           i \in DOMAIN Append(s, k) /\ Append(s, k)[i] = s[i]
  BY <1>1, AppendProperties, LenProperties
<1>9. ASSUME NEW n \in 1..MadeBy(w)'
      PROVE  \E i \in DOMAIN InStream' :
               InStream'[i].by = w /\ InStream'[i].n = n
  <2>1. CASE n = written[w]
    BY <1>1, <1>8, <2>1
  <2>2. CASE n # written[w]
    <3>1. n \in 1..MadeBy(w)
      BY <1>5, <2>2
    <3>2. PICK i \in DOMAIN s : s[i].by = w /\ s[i].n = n
      BY <1>6, <3>1 DEF Flow
    <3> QED
      BY <1>1, <1>8, <3>2
  <2> QED
    BY <2>1, <2>2
<1>10. ASSUME NEW x \in Writers, x # w
       PROVE  /\ GotIn(x)' <= MadeBy(x)'
              /\ Lost(x)' => ctxDone' /\ cancelled' /\ ~InWrite(x)'
              /\ ~Lost(x)' => \A n \in 1..MadeBy(x)' :
                   \E i \in DOMAIN InStream' :
                     InStream'[i].by = x /\ InStream'[i].n = n
  <2>1. GotIn(x)' = GotIn(x) /\ MadeBy(x)' = MadeBy(x)
    BY <1>2, <1>3, <1>4, <1>10 DEF MadeBy
  <2>2. Lost(x)' = Lost(x)
    BY <2>1 DEF Lost
  <2>3. ASSUME ~Lost(x), NEW n \in 1..MadeBy(x)
        PROVE  \E i \in DOMAIN InStream' :
                 InStream'[i].by = x /\ InStream'[i].n = n
    <3>1. PICK i \in DOMAIN s : s[i].by = x /\ s[i].n = n
      BY <2>3 DEF Flow
    <3> QED
      BY <1>1, <1>8, <3>1
  <2> QED
    BY <1>2, <1>4, <1>10, <2>1, <2>2, <2>3 DEF Flow
<1> HIDE DEF s, k
<1> QED
  BY <1>7, <1>9, <1>10 DEF Flow

(* The context of a stream that is not closed is done only when it was     *)
(* cancelled.                                                              *)
LEMMA WriteFlow ==
  ASSUME Typed, Typed', Flow, NEW w \in Writers, Write(w),
         ctxDone => cancelled
  PROVE  Flow'
<1> DEFINE Rest == \A x \in Writers : x # w => /\ written'[x] = written[x]
                                              /\ InWrite(x)' = InWrite(x)
<1>1. CASE \E kind \in Kinds : WriteBegin(w, kind)
  <2>1. /\ pc[w] = "ready" /\ pc' = [pc EXCEPT ![w] = "numbering"]
        /\ written' = [written EXCEPT ![w] = @ + 1] /\ ~ctxDone
        /\ UNCHANGED <<chanVars, clientVars>>
    BY <1>1 DEF WriteBegin, Submit, Goto, ContextAlive
  <2>2. Rest /\ ~InWrite(w) /\ InWrite(w)'
    BY <2>1 DEF InWrite, Typed, TypeOK
  <2>3. written[w] \in Nat /\ written'[w] = written[w] + 1
    BY <2>1 DEF Typed, TypeOK
  <2>4. MadeBy(w)' = MadeBy(w) /\ GotIn(w)' = GotIn(w) /\ InStream' = InStream
    BY <2>1, <2>2, <2>3 DEF MadeBy, GotIn, InStream, chanVars, clientVars
  <2>5. ~Lost(w) /\ ~Lost(w)'
    BY <2>1, <2>4 DEF Flow, Lost
  <2>6. ctxDone' = ctxDone /\ cancelled' = cancelled
    BY <2>1 DEF chanVars
  <2> QED
    BY <2>2, <2>4, <2>5, <2>6, OtherFlow DEF Flow
<1>2. CASE WriteRefused(w)
  <2>1. /\ pc[w] = "ready" /\ pc' = pc
        /\ written' = [written EXCEPT ![w] = @ + 1] /\ ctxDone
        /\ UNCHANGED <<chanVars, clientVars>>
    BY <1>2 DEF WriteRefused, Submit, ContextAlive
  <2>2. Rest /\ ~InWrite(w) /\ ~InWrite(w)'
    BY <2>1 DEF InWrite, Typed, TypeOK
  <2>3. written[w] \in Nat /\ written'[w] = written[w] + 1
    BY <2>1 DEF Typed, TypeOK
  <2>4. MadeBy(w)' = MadeBy(w) + 1 /\ InStream' = InStream
    BY <2>1, <2>2, <2>3 DEF MadeBy, InStream, chanVars, clientVars
  <2>5. ctxDone' /\ cancelled'
    BY <2>1 DEF chanVars
  <2> QED
    BY <2>2, <2>4, <2>5, LoseFlow
<1>3. CASE ReadIndex(w) \/ StoreIndex(w) \/ HandlerAccepts(w)
  <2>1. /\ InWrite(w) /\ InWrite(w)' /\ Rest
        /\ written' = written /\ UNCHANGED <<chanVars, clientVars>>
    BY <1>3 DEF ReadIndex, StoreIndex, HandlerAccepts, CallHandler, Goto,
       InWrite, Typed, TypeOK
  <2>2. InStream' = InStream /\ ctxDone' = ctxDone /\ cancelled' = cancelled
    BY <2>1 DEF InStream, chanVars, clientVars
  <2>3. \A x \in Writers : InWrite(x)' = InWrite(x)
    BY <2>1 DEF InWrite
  <2> QED
    BY <2>1, <2>2, <2>3, OtherFlow DEF Flow
<1>4. CASE HandlerStops(w) \/ SendCancelled(w)
  <2>1. /\ InWrite(w) /\ ~InWrite(w)' /\ Rest /\ written' = written
        /\ chunks' = chunks /\ received' = received /\ ctxDone' /\ cancelled'
    BY <1>4 DEF HandlerStops, SendCancelled, DoCancel, CallHandler, Goto,
       InWrite, Typed, TypeOK, chanVars, clientVars
  <2>2. MadeBy(w)' = MadeBy(w) + 1
    <3>1. written[w] \in Nat
      BY StreamType
    <3> QED
      BY <2>1, <3>1 DEF MadeBy
  <2> QED
    BY <2>1, <2>2, LoseFlow DEF InStream
<1>5. CASE Send(w)
  BY <1>5, SendFlow
<1> QED
  BY <1>1, <1>2, <1>3, <1>4, <1>5 DEF Write

(* The handler and the stream.                                             *)
LEMMA WriteShown ==
  ASSUME Typed, Shown, NEW w \in Writers, Write(w), ctxDone => cancelled
  PROVE  Shown'
<1> SUFFICES ASSUME HasHandler, ~cancelled' PROVE Shown'
  BY DEF Shown
<1> DEFINE In(c) == c \in Range(InStream)
           Next2(c) == \E x \in Writers : pc[x] = "sending" /\ cur[x] = c
<1>1. ~HandlerStops(w) /\ cancelled' = cancelled /\ ~SendCancelled(w)
  BY DEF HandlerStops, DoCancel, Write, WriteBegin, Submit, WriteRefused,
     ReadIndex, StoreIndex, HandlerAccepts, Send, SendCancelled, chanVars
<1>2. \A c : c \in Range(handled) <=> In(c) \/ Next2(c)
  BY <1>1 DEF Shown
<1>3. CASE Send(w)
  <2>1. /\ pc[w] = "sending" /\ pc' = [pc EXCEPT ![w] = "ready"]
        /\ cur' = cur /\ handled' = handled
    BY <1>3 DEF Send, Goto
  <2>2. Range(InStream') = Range(InStream) \cup {cur[w]}
    <3>1. InStream' = Append(InStream, cur[w]) /\ cur[w] \in Chunk
      BY <1>3, SendStream
    <3> QED
      BY <3>1, StreamType, RangeAppend
  <2>3. \A x \in Writers :
          pc[x] = "sending" <=> pc'[x] = "sending" \/ x = w
    BY <2>1 DEF Typed, TypeOK
  <2> QED
    BY <1>2, <2>1, <2>2, <2>3 DEF Shown
<1>4. CASE HandlerAccepts(w)
  <2>1. /\ pc[w] = "handling" /\ pc' = [pc EXCEPT ![w] = "sending"]
        /\ cur' = cur /\ handled' = Append(handled, cur[w])
        /\ InStream' = InStream
    BY <1>4 DEF HandlerAccepts, CallHandler, Goto, InStream, chanVars,
       clientVars
  <2>2. Range(handled') = Range(handled) \cup {cur[w]}
    <3>1. cur[w] \in Chunk
      BY <2>1 DEF Typed, InHand, InWrite
    <3> QED
      BY <2>1, <3>1, StreamType, RangeAppend
  <2>3. \A x \in Writers :
          pc'[x] = "sending" <=> pc[x] = "sending" \/ x = w
    BY <2>1 DEF Typed, TypeOK
  <2> QED
    BY <1>2, <2>1, <2>2, <2>3 DEF Shown
<1>5. CASE \/ \E kind \in Kinds : WriteBegin(w, kind)
           \/ WriteRefused(w) \/ ReadIndex(w) \/ StoreIndex(w)
  <2>1. handled' = handled /\ InStream' = InStream
    BY <1>5 DEF WriteBegin, Submit, WriteRefused, ReadIndex, StoreIndex,
       InStream, chanVars, clientVars
  <2>2. \A x \in Writers : /\ pc'[x] = "sending" <=> pc[x] = "sending"
                           /\ pc[x] = "sending" => cur'[x] = cur[x]
    BY <1>5 DEF WriteBegin, Submit, WriteRefused, ReadIndex, StoreIndex, Goto,
       Typed, TypeOK
  <2> QED
    BY <1>2, <2>1, <2>2 DEF Shown
<1> QED
  BY <1>1, <1>3, <1>4, <1>5 DEF Write

(* Steps that write no chunk; what they do to the context only adds.       *)
LEMMA RestFlow ==
  ASSUME Typed, Flow, Shown, InStream' = InStream,
         UNCHANGED <<cur, handled, written>>,
         ctxDone => ctxDone', cancelled => cancelled',
         \A w \in Writers : /\ InWrite(w)' = InWrite(w)
                            /\ pc'[w] = "sending" <=> pc[w] = "sending"
  PROVE  Flow' /\ Shown'
<1>1. Flow'
  BY OtherFlow DEF Flow
<1>2. Shown'
  BY DEF Shown
<1> QED
  BY <1>1, <1>2

LEMMA ConsumeFlow ==
  ASSUME Typed, Flow, Shown, Consume \/ BreakOut
  PROVE  Flow' /\ Shown'
<1>1. /\ UNCHANGED writeVars /\ ctxDone' = ctxDone /\ cancelled' = cancelled
      /\ InStream' = InStream
  <2>1. CASE Receive
    BY <2>1, ReceiveStream DEF Receive
  <2>2. CASE SeeEnd \/ WaitReturns \/ BreakOut
    BY <2>2 DEF SeeEnd, WaitReturns, BreakOut, ConsumerTo, chanVars, InStream
  <2> QED
    BY <2>1, <2>2 DEF Consume
<1> QED
  BY <1>1, RestFlow DEF writeVars, InWrite
-----------------------------------------------------------------------------
(* The end of the stream                                                   *)

(* The run closes when its writers have returned; only the close and a     *)
(* cancel end the context; Wait returns after the close.                   *)
Ended ==
  /\ producer # "running" => AllReturned
  /\ closed => producer # "running" /\ ctxDone
  /\ producer = "gone" => closed
  /\ ctxDone => cancelled \/ closed
  /\ consumer = "returned" => closed

SInv == Typed /\ Numbered /\ Flow /\ Shown /\ Ended

LEMMA CloseStep ==
  ASSUME Typed, closed => ctxDone, NEW e \in {"nil", "error"},
         CloseWithError(e)
  PROVE  /\ UNCHANGED <<chunks, cancelled, writeVars, clientVars>>
         /\ closed' = TRUE /\ ctxDone' = TRUE /\ err' \in {"nil", "error"}
BY DEF CloseWithError, Typed, TypeOK

LEMMA InitSInv == Init => SInv
<1> SUFFICES ASSUME Init PROVE SInv
  OBVIOUS
<1>1. Typed /\ Numbered
  BY InitTyped
<1>2. Ended
  BY StreamAssumption DEF Init, Ended
<1>3. InStream = <<>> /\ handled = <<>>
  BY DEF Init, InStream
<1>4. \A w \in Writers : GotIn(w) = 0 /\ MadeBy(w) = 0
  <2> TAKE w \in Writers
  <2>1. {i \in DOMAIN InStream : InStream[i].by = w} = {}
    BY <1>3
  <2>2. GotIn(w) = 0
    BY <2>1, FS_EmptySet DEF GotIn
  <2> QED
    BY <2>2 DEF MadeBy, InWrite, Init
<1>5. Flow
  BY <1>4 DEF Flow, Lost
<1>6. Shown
  BY <1>3 DEF Shown, Range, Init
<1> QED
  BY <1>1, <1>2, <1>5, <1>6 DEF SInv

LEMMA NextSInv == SInv /\ [Next]_vars => SInv'
<1> SUFFICES ASSUME SInv, [Next]_vars PROVE SInv'
  OBVIOUS
<1>0. Typed /\ Numbered /\ Flow /\ Shown /\ Ended
  BY DEF SInv
<1>1. ASSUME NEW w \in Writers, Write(w) PROVE SInv'
  <2>1. pc[w] # "stopped"
    BY <1>1 DEF Write, WriteBegin, WriteRefused, Submit, ReadIndex, StoreIndex,
       HandlerAccepts, HandlerStops, CallHandler, Send, SendCancelled
  <2>2. producer = "running" /\ ~closed /\ (ctxDone => cancelled)
    BY <1>0, <2>1 DEF Ended, AllReturned
  <2>3. Typed' /\ Numbered'
    BY <1>0, <1>1, WriteTyped
  <2>4. Flow' /\ Shown'
    BY <1>0, <1>1, <2>2, <2>3, WriteFlow, WriteShown
  <2>5. /\ UNCHANGED <<producer, closed, consumer>>
        /\ ctxDone' => cancelled'
    BY <1>1, <2>2 DEF Write, WriteBegin, WriteRefused, Submit, ReadIndex,
       StoreIndex, HandlerAccepts, HandlerStops, CallHandler, DoCancel, Send,
       SendCancelled, chanVars, clientVars
  <2>6. Ended'
    BY <1>0, <2>2, <2>5 DEF Ended
  <2> QED
    BY <2>3, <2>4, <2>6 DEF SInv
<1>2. ASSUME NEW w \in Writers, WriterReturns(w) PROVE SInv'
  <2>1. /\ pc[w] = "ready" /\ pc' = [pc EXCEPT ![w] = "stopped"]
        /\ UNCHANGED <<chanVars, chunkIdx, cur, handled, written, producer,
                       clientVars>>
    BY <1>2 DEF WriterReturns, Goto
  <2>2. Typed' /\ Numbered'
    BY <1>0, <2>1, RestTyped DEF chanVars, Typed, TypeOK
  <2>3. Flow' /\ Shown'
    BY <1>0, <2>1, RestFlow
       DEF InStream, InWrite, chanVars, clientVars, Typed, TypeOK
  <2>4. Ended'
    BY <1>0, <2>1 DEF Ended, AllReturned, chanVars, clientVars, Typed, TypeOK
  <2> QED
    BY <2>2, <2>3, <2>4 DEF SInv
<1>3. CASE Finish
  <2>1. /\ UNCHANGED <<chunks, cancelled, writeVars, clientVars>>
        /\ closed' \in BOOLEAN /\ ctxDone' \in BOOLEAN
        /\ closed' => ctxDone'
        /\ ctxDone' => ctxDone \/ closed'
        /\ ctxDone => ctxDone'
        /\ result' \in {"nil", "result"} /\ err' \in {"nil", "error"}
        /\ AllReturned
        /\ \/ producer' = "returning" /\ (closed => closed')
           \/ producer' = "gone" /\ closed'
    <3>1. CASE SetResult \/ RunGivesUp
      BY <1>0, <3>1 DEF SetResult, RunGivesUp, RunReturns, chanVars, Ended,
         Typed, TypeOK
    <3>2. CASE RunFails
      BY <1>0, <3>2, CloseStep DEF RunFails, RunReturns, Ended, Typed, TypeOK
    <3>3. CASE DeferredClose
      BY <1>0, <3>3, CloseStep DEF DeferredClose, Ended, Typed, TypeOK
    <3> QED
      BY <1>3, <3>1, <3>2, <3>3 DEF Finish
  <2>2. Typed' /\ Numbered'
    <3>1. /\ {closed', ctxDone', cancelled'} \subseteq BOOLEAN
          /\ producer' \in {"running", "returning", "gone"}
      BY <1>0, <2>1 DEF Typed, TypeOK
    <3>2. /\ UNCHANGED <<chunks, chunkIdx, cur, handled, written, clientVars>>
          /\ pc' = pc
      BY <2>1 DEF writeVars
    <3> QED
      BY <1>0, <2>1, <3>1, <3>2, RestTyped
  <2>3. Flow' /\ Shown'
    BY <1>0, <2>1, RestFlow DEF InStream, InWrite, writeVars, clientVars
  <2>4. AllReturned'
    BY <2>1 DEF AllReturned, writeVars
  <2>5. Ended'
    BY <1>0, <2>1, <2>4 DEF Ended, clientVars
  <2> QED
    BY <2>2, <2>3, <2>5 DEF SInv
<1>4. CASE Consume \/ BreakOut
  <2>1. Typed' /\ Numbered' /\ Flow' /\ Shown'
    BY <1>0, <1>4, ConsumeTyped, ConsumeFlow
  <2>2. /\ UNCHANGED <<producer, closed, ctxDone, cancelled, writeVars>>
        /\ consumer' = "returned" => consumer = "returned" \/ closed
    BY <1>4 DEF Consume, Receive, SeeEnd, WaitReturns, BreakOut, ConsumerTo,
       chanVars
  <2>3. Ended'
    BY <1>0, <2>2 DEF Ended, AllReturned, writeVars
  <2> QED
    BY <2>1, <2>3 DEF SInv
<1>5. CASE Cancel \/ TimeoutFires
  <2>1. /\ UNCHANGED <<chunks, closed, result, err, writeVars, producer,
                       clientVars>>
        /\ ctxDone' = TRUE /\ cancelled' = TRUE
    BY <1>5 DEF Cancel, TimeoutFires, DoCancel
  <2>2. Typed' /\ Numbered'
    BY <1>0, <2>1, RestTyped DEF writeVars, Typed, TypeOK
  <2>3. Flow' /\ Shown'
    BY <1>0, <2>1, RestFlow DEF InStream, InWrite, writeVars, clientVars
  <2>4. Ended'
    BY <1>0, <2>1 DEF Ended, AllReturned, writeVars, clientVars
  <2> QED
    BY <2>2, <2>3, <2>4 DEF SInv
<1>6. CASE UNCHANGED vars
  <2>1. Typed' /\ Numbered'
    BY <1>0, <1>6, RestTyped DEF vars, chanVars, writeVars, Typed, TypeOK
  <2>2. Flow' /\ Shown'
    BY <1>0, <1>6, RestFlow DEF vars, chanVars, writeVars, clientVars,
       InStream, InWrite
  <2>3. Ended'
    BY <1>0, <1>6 DEF vars, chanVars, writeVars, clientVars, Ended, AllReturned
  <2> QED
    BY <2>1, <2>2, <2>3 DEF SInv
<1> QED
  BY <1>1, <1>2, <1>3, <1>4, <1>5, <1>6 DEF Next, Terminated
-----------------------------------------------------------------------------
LEMMA Inductive == Spec => []SInv
BY InitSInv, NextSInv, PTL DEF Spec

(* Every variable of the stream keeps its type: the buffer never holds     *)
(* more than BufferSize chunks, and the counter, which two writers may     *)
(* store at one time, never passes the number of chunks they wrote.        *)
THEOREM StreamTypeCorrect == Spec => []TypeOK
<1>1. SInv => TypeOK
  BY DEF SInv, Typed
<1> QED
  BY <1>1, Inductive, PTL

(* A consumer that ranges to the end of a stream nobody cancelled has      *)
(* every chunk of every writer, and the handler saw exactly those.         *)
THEOREM StreamComplete == Spec => []Complete
<1>1. SInv => Complete
  <2> SUFFICES ASSUME SInv, consumer = "returned", chunks = <<>>, ~cancelled
               PROVE  /\ \A w \in Writers, n \in 1..MaxChunks :
                           n <= written[w] => \E i \in DOMAIN received :
                             received[i].by = w /\ received[i].n = n
                      /\ HasHandler => Range(handled) = Range(received)
    BY DEF Complete
  <2>1. \A w \in Writers : pc[w] = "stopped"
    BY DEF SInv, Ended, AllReturned
  <2>2. InStream = received
    BY ConcatEmptySeq DEF InStream, SInv, Typed, TypeOK
  <2>3. ASSUME NEW w \in Writers, NEW n \in 1..MaxChunks, n <= written[w]
        PROVE  \E i \in DOMAIN received :
                 received[i].by = w /\ received[i].n = n
    <3>1. MadeBy(w) = written[w] /\ written[w] \in Nat
      BY <2>1, StreamType DEF SInv, InWrite
    <3>2. ~Lost(w)
      BY DEF SInv, Flow
    <3>3. n \in 1..MadeBy(w)
      BY <2>3, <3>1
    <3> QED
      BY <2>2, <3>2, <3>3 DEF SInv, Flow
  <2>4. HasHandler => Range(handled) = Range(received)
    BY <2>1, <2>2 DEF SInv, Shown
  <2> QED
    BY <2>3, <2>4
<1> QED
  BY <1>1, Inductive, PTL
-----------------------------------------------------------------------------
(* The stream keeps its contract                                           *)

Id == Writers \X (1..MaxChunks)

LEMMA IdsSeq ==
  ASSUME NEW s \in Seq(Chunk)
  PROVE  /\ Ids(s) \in Seq(Id) /\ Len(Ids(s)) = Len(s) /\ Len(s) \in Nat
         /\ \A i \in 1..Len(s) : Ids(s)[i] = <<s[i].by, s[i].n>>
<1>1. /\ DOMAIN s = 1..Len(s) /\ Len(s) \in Nat
      /\ \A i \in 1..Len(s) : s[i] \in Chunk
  BY LenProperties
<1>2. \A i \in 1..Len(s) : <<s[i].by, s[i].n>> \in Id
  BY <1>1 DEF Chunk, Id
<1>3. Ids(s) \in [1..Len(s) -> Id]
  BY <1>1, <1>2 DEF Ids
<1>4. Ids(s) \in Seq(Id) /\ Len(Ids(s)) = Len(s)
  BY <1>1, <1>3
<1> QED
  BY <1>1, <1>4 DEF Ids

LEMMA IdsAppend ==
  ASSUME NEW s \in Seq(Chunk), NEW c \in Chunk
  PROVE  Ids(Append(s, c)) = Append(Ids(s), <<c.by, c.n>>)
<1>1. Append(s, c) \in Seq(Chunk) /\ <<c.by, c.n>> \in Id
  BY DEF Chunk, Id
<1>2. /\ Ids(s) \in Seq(Id) /\ Len(Ids(s)) = Len(s) /\ Len(s) \in Nat
      /\ \A i \in 1..Len(s) : Ids(s)[i] = <<s[i].by, s[i].n>>
  BY IdsSeq
<1>3. /\ Len(Append(s, c)) = Len(s) + 1
      /\ \A i \in 1..Len(s) : Append(s, c)[i] = s[i]
      /\ Append(s, c)[Len(s) + 1] = c
  BY AppendProperties
<1>4. /\ Ids(Append(s, c)) \in Seq(Id)
      /\ Len(Ids(Append(s, c))) = Len(s) + 1
      /\ \A i \in 1..Len(s) + 1 : Ids(Append(s, c))[i] =
           <<Append(s, c)[i].by, Append(s, c)[i].n>>
  BY <1>1, <1>3, IdsSeq
<1>5. /\ Append(Ids(s), <<c.by, c.n>>) \in Seq(Id)
      /\ Len(Append(Ids(s), <<c.by, c.n>>)) = Len(s) + 1
      /\ \A i \in 1..Len(s) : Append(Ids(s), <<c.by, c.n>>)[i] = Ids(s)[i]
      /\ Append(Ids(s), <<c.by, c.n>>)[Len(s) + 1] = <<c.by, c.n>>
  BY <1>1, <1>2, AppendProperties
<1>6. \A i \in 1..Len(s) + 1 :
        Ids(Append(s, c))[i] = Append(Ids(s), <<c.by, c.n>>)[i]
  <2> TAKE i \in 1..Len(s) + 1
  <2>1. CASE i = Len(s) + 1
    BY <1>2, <1>3, <1>4, <1>5, <2>1
  <2>2. CASE i # Len(s) + 1
    <3>1. i \in 1..Len(s)
      BY <1>2, <2>2
    <3> QED
      BY <1>2, <1>3, <1>4, <1>5, <3>1
  <2> QED
    BY <2>1, <2>2
<1> QED
  BY <1>4, <1>5, <1>6, SeqEqual

LEMMA IdsTail ==
  ASSUME NEW s \in Seq(Chunk), s # <<>>
  PROVE  /\ Ids(s) # <<>> /\ Head(Ids(s)) = <<Head(s).by, Head(s).n>>
         /\ Ids(Tail(s)) = Tail(Ids(s))
<1>1. /\ Ids(s) \in Seq(Id) /\ Len(Ids(s)) = Len(s) /\ Len(s) \in Nat
      /\ \A i \in 1..Len(s) : Ids(s)[i] = <<s[i].by, s[i].n>>
  BY IdsSeq
<1>2. Len(s) >= 1
  BY <1>1, EmptySeq
<1>3. Ids(s) # <<>>
  BY <1>1, <1>2, EmptySeq
<1>4. Head(Ids(s)) = <<Head(s).by, Head(s).n>>
  BY <1>1, <1>2
<1>5. /\ Tail(s) \in Seq(Chunk) /\ Len(Tail(s)) = Len(s) - 1
      /\ \A i \in 1..Len(Tail(s)) : Tail(s)[i] = s[i + 1]
  BY HeadTailProperties
<1>6. /\ Tail(Ids(s)) \in Seq(Id) /\ Len(Tail(Ids(s))) = Len(s) - 1
      /\ \A i \in 1..Len(s) - 1 : Tail(Ids(s))[i] = Ids(s)[i + 1]
  BY <1>1, <1>3, HeadTailProperties
<1>7. /\ Ids(Tail(s)) \in Seq(Id) /\ Len(Ids(Tail(s))) = Len(s) - 1
      /\ \A i \in 1..Len(s) - 1 :
           Ids(Tail(s))[i] = <<Tail(s)[i].by, Tail(s)[i].n>>
  BY <1>5, IdsSeq
<1>8. \A i \in 1..Len(s) - 1 : Ids(Tail(s))[i] = Tail(Ids(s))[i]
  <2> TAKE i \in 1..Len(s) - 1
  <2>1. i + 1 \in 1..Len(s) /\ i \in 1..Len(Tail(s))
    BY <1>1, <1>5
  <2>2. Tail(Ids(s))[i] = <<s[i + 1].by, s[i + 1].n>>
    BY <1>1, <1>6, <2>1
  <2>3. Ids(Tail(s))[i] = <<s[i + 1].by, s[i + 1].n>>
    BY <1>5, <1>7, <2>1
  <2> QED
    BY <2>2, <2>3
<1> QED
  BY <1>3, <1>4, <1>6, <1>7, <1>8, SeqEqual

Made == [w \in Writers |-> MadeBy(w)]
Cut == {w \in Writers : GotIn(w) < MadeBy(w)}
Outcome == IF closed THEN {<<result, err>>} ELSE {}
Told == IF consumer = "returned" THEN {<<result, err>>} ELSE {}
mapped == <<Made, Cut, Ids(chunks), Ids(received), cancelled, Outcome, Told>>

LEMMA MappedVars == Contract!vars = mapped /\ Contract!vars' = mapped'
BY DEF Contract!vars, mapped, Made, Cut, Outcome, Told

LEMMA MadeCutSame ==
  ASSUME InStream' = InStream,
         \A w \in Writers : MadeBy(w)' = MadeBy(w)
  PROVE  Made' = Made /\ Cut' = Cut
BY DEF Made, Cut, GotIn

(* A step that the contract does not see.                                  *)
LEMMA Unseen ==
  ASSUME InStream' = InStream, \A w \in Writers : MadeBy(w)' = MadeBy(w),
         UNCHANGED <<chunks, received, cancelled, closed, err>>,
         closed => result' = result,
         consumer = "returned" <=> consumer' = "returned",
         consumer = "returned" => closed
  PROVE  UNCHANGED mapped
<1>1. Made' = Made /\ Cut' = Cut
  BY MadeCutSame
<1>2. Ids(chunks)' = Ids(chunks) /\ Ids(received)' = Ids(received)
  BY DEF Ids
<1>3. Outcome' = Outcome /\ Told' = Told
  BY DEF Outcome, Told
<1> QED
  BY <1>1, <1>2, <1>3 DEF mapped

(* What a Write that ends does to what the contract calls made.            *)
LEMMA WriteEnds ==
  ASSUME Typed, Typed', NEW w \in Writers,
         \/ WriteRefused(w) \/ HandlerStops(w) \/ Send(w) \/ SendCancelled(w)
  PROVE  /\ Made' = [Made EXCEPT ![w] = @ + 1]
         /\ \A x \in Writers : x # w => MadeBy(x)' = MadeBy(x)
         /\ MadeBy(w)' = MadeBy(w) + 1
<1>1. /\ \A x \in Writers : x # w => /\ written'[x] = written[x]
                                     /\ pc'[x] = pc[x]
      /\ \/ written'[w] = written[w] + 1 /\ ~InWrite(w) /\ ~InWrite(w)'
         \/ written'[w] = written[w] /\ InWrite(w) /\ ~InWrite(w)'
  BY DEF WriteRefused, Submit, HandlerStops, CallHandler, Send, SendCancelled,
     Goto, InWrite, Typed, TypeOK
<1>2. written[w] \in Nat
  BY DEF Typed, TypeOK
<1>3. MadeBy(w)' = MadeBy(w) + 1
  BY <1>1, <1>2 DEF MadeBy
<1>4. \A x \in Writers : x # w => MadeBy(x)' = MadeBy(x)
  BY <1>1 DEF MadeBy, InWrite
<1> QED
  BY <1>3, <1>4 DEF Made

(* A chunk that does not get in is lost, by a cancelled stream.            *)
LEMMA LoseStep ==
  ASSUME SInv, SInv', NEW w \in Writers,
         WriteRefused(w) \/ HandlerStops(w) \/ SendCancelled(w)
  PROVE  Contract!Lose(w)
<1>1. pc[w] # "stopped"
  BY DEF WriteRefused, Submit, HandlerStops, CallHandler, SendCancelled
<1>2. ~closed /\ consumer # "returned" /\ (ctxDone => cancelled)
  BY <1>1 DEF SInv, Ended, AllReturned
<1>3. /\ UNCHANGED <<chunks, received, closed, consumer>> /\ cancelled'
  BY <1>2 DEF WriteRefused, Submit, HandlerStops, CallHandler, DoCancel,
     SendCancelled, ContextAlive, chanVars, clientVars
<1>4. /\ Made' = [Made EXCEPT ![w] = @ + 1]
      /\ \A x \in Writers : x # w => MadeBy(x)' = MadeBy(x)
      /\ MadeBy(w)' = MadeBy(w) + 1
  BY WriteEnds DEF SInv
<1>5. \A x \in Writers : GotIn(x)' = GotIn(x)
  BY <1>3 DEF GotIn, InStream
<1>6. GotIn(w) \in Nat /\ MadeBy(w) \in Nat /\ GotIn(w) <= MadeBy(w)
  BY StreamType DEF SInv, Flow
<1>7. Cut' = Cut \cup {w}
  BY <1>4, <1>5, <1>6 DEF Cut
<1>8. /\ Outcome = {} /\ Outcome' = {} /\ Told = {} /\ Told' = {}
      /\ Ids(chunks)' = Ids(chunks) /\ Ids(received)' = Ids(received)
  BY <1>2, <1>3 DEF Outcome, Told, Ids
<1> QED
  BY <1>3, <1>4, <1>7, <1>8 DEF Contract!Lose, Made, Cut, Outcome, Told

(* A chunk that gets in is the next of its writer, which is not cut.       *)
LEMMA ProduceStep ==
  ASSUME SInv, SInv', NEW w \in Writers, Send(w)
  PROVE  Contract!Produce(w)
<1>1. InWrite(w) /\ pc[w] = "sending"
  BY DEF Send, InWrite
<1>2. ~closed /\ consumer # "returned"
  BY <1>1 DEF SInv, Ended, AllReturned
<1>3. /\ UNCHANGED <<received, closed, cancelled, consumer>>
      /\ chunks' = Append(chunks, cur[w])
  BY DEF Send, clientVars
<1>4. /\ Made' = [Made EXCEPT ![w] = @ + 1]
      /\ \A x \in Writers : x # w => MadeBy(x)' = MadeBy(x)
      /\ MadeBy(w)' = MadeBy(w) + 1
  BY WriteEnds DEF SInv
<1>5. /\ cur[w] \in Chunk /\ cur[w].by = w /\ cur[w].n = written[w]
      /\ InStream' = Append(InStream, cur[w])
  BY SendStream DEF SInv
<1>6. MadeBy(w) = written[w] - 1 /\ written[w] \in Nat
  BY <1>1, StreamType DEF SInv
<1>7. Ids(chunks)' = Append(Ids(chunks), <<w, Made[w] + 1>>)
  <2>1. Ids(chunks)' = Ids(Append(chunks, cur[w]))
    BY <1>3 DEF Ids
  <2>2. Ids(Append(chunks, cur[w]))
          = Append(Ids(chunks), <<cur[w].by, cur[w].n>>)
    BY <1>5, IdsAppend DEF SInv, Typed, TypeOK
  <2>3. <<cur[w].by, cur[w].n>> = <<w, Made[w] + 1>>
    BY <1>5, <1>6 DEF Made
  <2> QED
    BY <2>1, <2>2, <2>3
<1>8. w \notin Cut /\ Cut' = Cut
  <2>1. \A x \in Writers :
          GotIn(x)' = IF x = w THEN GotIn(x) + 1 ELSE GotIn(x)
    <3> TAKE x \in Writers
    <3>1. GotIn(x) = Count(InStream, x) /\ GotIn(x)' = Count(InStream', x)
      BY DEF GotIn, Count
    <3>2. Count(Append(InStream, cur[w]), x) =
            IF x = w THEN Count(InStream, x) + 1 ELSE Count(InStream, x)
      BY <1>5, StreamType, CountAppend DEF SInv
    <3> QED
      BY <1>5, <3>1, <3>2
  <2>2. \A x \in Writers : GotIn(x) \in Nat /\ MadeBy(x) \in Nat
    BY StreamType DEF SInv
  <2>3. \A x \in Writers : GotIn(x)' < MadeBy(x)' <=> GotIn(x) < MadeBy(x)
    BY <1>4, <2>1, <2>2
  <2>4. ~Lost(w)
    BY <1>1 DEF SInv, Flow
  <2> QED
    BY <2>3, <2>4 DEF Cut, Lost
<1>9. /\ Outcome = {} /\ Outcome' = {} /\ Told = {} /\ Told' = {}
      /\ Ids(received)' = Ids(received)
  BY <1>2, <1>3 DEF Outcome, Told, Ids
<1> QED
  BY <1>3, <1>4, <1>7, <1>8, <1>9
     DEF Contract!Produce, Made, Cut, Outcome, Told

(* Every other step of a Write is of no interest to the contract.          *)
LEMMA WriteUnseen ==
  ASSUME SInv, SInv', NEW w \in Writers,
         \/ \E kind \in Kinds : WriteBegin(w, kind)
         \/ ReadIndex(w) \/ StoreIndex(w) \/ HandlerAccepts(w)
         \/ WriterReturns(w)
  PROVE  UNCHANGED mapped
<1>1. UNCHANGED <<chanVars, clientVars>>
  BY DEF WriteBegin, Submit, ReadIndex, StoreIndex, HandlerAccepts,
     CallHandler, WriterReturns
<1>2. /\ \A x \in Writers : x # w => /\ written'[x] = written[x]
                                     /\ pc'[x] = pc[x]
      /\ \/ written'[w] = written[w] + 1 /\ ~InWrite(w) /\ InWrite(w)'
         \/ written'[w] = written[w] /\ InWrite(w)' = InWrite(w)
  BY DEF WriteBegin, Submit, ReadIndex, StoreIndex, HandlerAccepts,
     CallHandler, WriterReturns, Goto, InWrite, SInv, Typed, TypeOK
<1>3. \A x \in Writers : MadeBy(x)' = MadeBy(x)
  <2>1. \A x \in Writers : x # w => MadeBy(x)' = MadeBy(x)
    BY <1>2 DEF MadeBy, InWrite
  <2>2. written[w] \in Nat
    BY DEF SInv, Typed, TypeOK
  <2>3. MadeBy(w)' = MadeBy(w)
    BY <1>2, <2>2 DEF MadeBy
  <2> QED
    BY <2>1, <2>3
<1> QED
  BY <1>1, <1>3, Unseen DEF chanVars, clientVars, InStream, SInv, Ended

LEMMA DeliverStep ==
  ASSUME SInv, SInv', Receive
  PROVE  Contract!Deliver
<1>1. /\ chunks # <<>> /\ received' = Append(received, Head(chunks))
      /\ chunks' = Tail(chunks)
      /\ UNCHANGED <<closed, cancelled, result, err, consumer, pc, written>>
  BY DEF Receive, writeVars
<1>2. chunks \in Seq(Chunk) /\ received \in Seq(Chunk)
  BY DEF SInv, Typed, TypeOK
<1>3. InStream' = InStream
  BY ReceiveStream DEF SInv
<1>4. Made' = Made /\ Cut' = Cut
  BY <1>1, <1>3, MadeCutSame DEF MadeBy, InWrite
<1>5. /\ Ids(chunks) # <<>> /\ Ids(chunks)' = Tail(Ids(chunks))
      /\ Ids(received)' = Append(Ids(received), Head(Ids(chunks)))
  <2>1. Ids(chunks)' = Ids(Tail(chunks))
    BY <1>1 DEF Ids
  <2>2. Ids(received)' = Ids(Append(received, Head(chunks)))
    BY <1>1 DEF Ids
  <2>3. Head(chunks) \in Chunk
    BY <1>1, <1>2, HeadTailProperties
  <2> QED
    BY <1>1, <1>2, <2>1, <2>2, <2>3, IdsAppend, IdsTail
<1>6. Outcome' = Outcome /\ Told' = Told
  BY <1>1 DEF Outcome, Told
<1> QED
  BY <1>1, <1>4, <1>5, <1>6 DEF Contract!Deliver, Made, Cut, Outcome, Told

(* A close that does something is the end of the stream, with its result.  *)
LEMMA EndStep ==
  ASSUME SInv, SInv', NEW e \in {"nil", "error"}, CloseWithError(e),
         result' = result
  PROVE  \/ UNCHANGED mapped
         \/ \E o \in {"nil", "result"} \X {"nil", "error"} : Contract!End(o)
<1>1. /\ UNCHANGED <<chunks, cancelled, pc, written, consumer, received>>
  BY DEF CloseWithError, writeVars, clientVars
<1>2. /\ InStream' = InStream
      /\ \A w \in Writers : MadeBy(w)' = MadeBy(w)
  BY <1>1 DEF InStream, MadeBy, InWrite
<1>3. CASE closed
  BY <1>1, <1>2, <1>3, Unseen DEF CloseWithError, SInv, Ended
<1>4. CASE ~closed
  <2>1. closed' /\ err' = e /\ consumer # "returned"
    BY <1>4 DEF CloseWithError, SInv, Ended
  <2>2. Made' = Made /\ Cut' = Cut
    BY <1>2, MadeCutSame
  <2>3. Outcome = {} /\ Outcome' = {<<result, e>>} /\ Told = {} /\ Told' = {}
    BY <1>1, <1>4, <2>1 DEF Outcome, Told
  <2>4. Ids(chunks)' = Ids(chunks) /\ Ids(received)' = Ids(received)
    BY <1>1 DEF Ids
  <2>5. <<result, e>> \in {"nil", "result"} \X {"nil", "error"}
    BY DEF SInv, Typed, TypeOK
  <2>6. Contract!End(<<result, e>>)
    BY <1>1, <2>2, <2>3, <2>4 DEF Contract!End, Made, Cut, Outcome, Told
  <2> QED
    BY <2>5, <2>6
<1> QED
  BY <1>3, <1>4

LEMMA ContractInit == Init => Contract!Init
<1> SUFFICES ASSUME Init PROVE Contract!Init
  OBVIOUS
<1>1. InStream = <<>>
  BY DEF Init, InStream
<1>2. \A w \in Writers : GotIn(w) = 0 /\ MadeBy(w) = 0
  <2> TAKE w \in Writers
  <2>1. {i \in DOMAIN InStream : InStream[i].by = w} = {}
    BY <1>1
  <2>2. GotIn(w) = 0
    BY <2>1, FS_EmptySet DEF GotIn
  <2> QED
    BY <2>2 DEF MadeBy, InWrite, Init
<1>3. consumer # "returned" /\ ~closed /\ ~cancelled
  BY DEF Init
<1>4. Ids(chunks) = <<>> /\ Ids(received) = <<>>
  BY DEF Init, Ids
<1> QED
  BY <1>2, <1>3, <1>4 DEF Contract!Init

LEMMA ContractStep ==
  SInv /\ SInv' /\ [Next]_vars => [Contract!Next]_(Contract!vars)
<1> SUFFICES ASSUME SInv, SInv', [Next]_vars
             PROVE  Contract!Next \/ UNCHANGED mapped
  BY MappedVars
<1>1. ASSUME NEW w \in Writers, Write(w) \/ WriterReturns(w)
      PROVE  Contract!Next \/ UNCHANGED mapped
  <2>1. CASE WriteRefused(w) \/ HandlerStops(w) \/ SendCancelled(w)
    BY <2>1, LoseStep DEF Contract!Next
  <2>2. CASE Send(w)
    BY <2>2, ProduceStep DEF Contract!Next
  <2>3. CASE \/ \E kind \in Kinds : WriteBegin(w, kind)
             \/ ReadIndex(w) \/ StoreIndex(w) \/ HandlerAccepts(w)
             \/ WriterReturns(w)
    BY <2>3, WriteUnseen
  <2> QED
    BY <1>1, <2>1, <2>2, <2>3 DEF Write
<1>2. CASE RunFails \/ DeferredClose
  <2>1. PICK e \in {"nil", "error"} : CloseWithError(e) /\ result' = result
    BY <1>2 DEF RunFails, DeferredClose
  <2> QED
    BY <2>1, EndStep DEF Contract!Next
<1>3. CASE SetResult \/ RunGivesUp
  BY <1>3, Unseen DEF SetResult, RunGivesUp, RunReturns, chanVars, writeVars,
     clientVars, InStream, MadeBy, InWrite, SInv, Ended
<1>4. CASE Receive
  BY <1>4, DeliverStep DEF Contract!Next
<1>5. CASE SeeEnd \/ BreakOut
  BY <1>5, Unseen DEF SeeEnd, BreakOut, ConsumerTo, chanVars, writeVars,
     InStream, MadeBy, InWrite, SInv, Ended
<1>6. CASE WaitReturns
  <2>1. /\ closed /\ consumer' = "returned"
        /\ UNCHANGED <<chunks, closed, cancelled, result, err, pc, written,
                       received>>
    BY <1>6 DEF WaitReturns, ConsumerTo, chanVars, writeVars
  <2>2. Made' = Made /\ Cut' = Cut
    BY <2>1, MadeCutSame DEF InStream, MadeBy, InWrite
  <2>3. /\ Outcome # {} /\ Outcome' = Outcome /\ Told' = Outcome
        /\ Ids(chunks)' = Ids(chunks) /\ Ids(received)' = Ids(received)
    BY <2>1 DEF Outcome, Told, Ids
  <2>4. Contract!Tell
    BY <2>1, <2>2, <2>3 DEF Contract!Tell, Made, Cut, Outcome, Told
  <2> QED
    BY <2>4 DEF Contract!Next
<1>7. CASE Cancel \/ TimeoutFires
  <2>1. /\ cancelled'
        /\ UNCHANGED <<chunks, closed, result, err, pc, written, consumer,
                       received>>
    BY <1>7 DEF Cancel, TimeoutFires, DoCancel, writeVars, clientVars
  <2>2. /\ InStream' = InStream
        /\ \A w \in Writers : MadeBy(w)' = MadeBy(w)
    BY <2>1 DEF InStream, MadeBy, InWrite
  <2>3. CASE cancelled
    <3>1. cancelled' = cancelled
      <4>1. cancelled = TRUE
        BY <2>3 DEF SInv, Typed, TypeOK
      <4> QED
        BY <1>7, <4>1 DEF Cancel, TimeoutFires, DoCancel
    <3> QED
      BY <2>1, <2>2, <3>1, Unseen DEF SInv, Ended
  <2>4. CASE ~cancelled
    <3>1. cancelled' = TRUE
      BY <1>7 DEF Cancel, TimeoutFires, DoCancel
    <3>2. /\ Made' = Made /\ Cut' = Cut
          /\ Outcome' = Outcome /\ Told' = Told
          /\ Ids(chunks)' = Ids(chunks) /\ Ids(received)' = Ids(received)
      BY <2>1, <2>2, MadeCutSame DEF Outcome, Told, Ids
    <3>3. Contract!CancelStream
      BY <2>4, <3>1, <3>2
         DEF Contract!CancelStream, Made, Cut, Outcome, Told
    <3> QED
      BY <3>3 DEF Contract!Next
  <2> QED
    BY <2>3, <2>4
<1>8. CASE UNCHANGED vars
  BY <1>8, Unseen DEF vars, chanVars, writeVars, clientVars, InStream, MadeBy,
     InWrite, SInv, Ended
<1> QED
  BY <1>1, <1>2, <1>3, <1>4, <1>5, <1>6, <1>7, <1>8
     DEF Next, Terminated, Finish, Consume

(* The stream keeps its contract, however many goroutines write to it, and *)
(* whoever cancels: each writer's chunks arrive in the order it wrote      *)
(* them, one is lost only to a cancel and then so is all that its writer   *)
(* writes later, and the end has one outcome, which Wait reports.          *)
THEOREM StreamKeepsContract == Spec => KeepsContract
BY ContractInit, ContractStep, Inductive, PTL
   DEF Spec, KeepsContract, Contract!Spec
-----------------------------------------------------------------------------
(* AgentStream: one writer, and what it tells the reader                   *)

AgentTyped ==
  /\ Typed /\ Numbered
  /\ step \in Steps /\ tokens \in 0..MaxTokens /\ tools \in 0..MaxTools
  /\ {callerDone, inCall, failed} \subseteq BOOLEAN
  /\ step \in {"tool", "toolResult"} => tools >= 1

(* With one writer the counter is the length of what is in the stream, or  *)
(* one more once the chunk in hand has its number.                         *)
Numbering ==
  /\ (pc[Agent] = "ready" /\ ~ctxDone) => chunkIdx = Len(InStream)
  /\ pc[Agent] \in {"numbering", "storing"} => chunkIdx = Len(InStream)
  /\ pc[Agent] = "storing" => cur[Agent].index = chunkIdx
  /\ pc[Agent] \in {"handling", "sending"} =>
       chunkIdx = Len(InStream) + 1 /\ cur[Agent].index = Len(InStream)
  /\ IndexSequence

Closing ==
  /\ closed => step = "gone" /\ ctxDone
  /\ step = "gone" => ~InWrite(Agent)
  /\ ctxDone => cancelled \/ closed
  /\ consumer = "returned" => closed

(* A kind that is in the stream or in hand.                                *)
Tells(kind) ==
  \/ \E i \in DOMAIN InStream : InStream[i].kind = kind
  \/ InWrite(Agent) /\ cur[Agent].kind = kind

ErrorLast ==
  IF InWrite(Agent) THEN cur[Agent].kind = "error"
  ELSE InStream # <<>> /\ InStream[Len(InStream)].kind = "error"

Telling ==
  /\ failed => step \in {"return", "gone"}
  /\ ~failed => ~Tells("error")
  /\ (failed /\ ~cancelled /\ ~Filtered("error")) => ErrorLast
  /\ step = "last" => result = "result" /\ ~failed
  /\ Tells("done") =>
       result = "result" /\ ~failed /\ step \in {"return", "gone"}

AInv == AgentTyped /\ Numbering /\ Closing /\ Telling

LEMMA InStreamLen ==
  ASSUME Typed
  PROVE  /\ Len(InStream) \in Nat /\ DOMAIN InStream = 1..Len(InStream)
         /\ chunkIdx \in Nat /\ Agent \in Writers
BY StreamType, LenProperties, TypedFields, AgentAssumption

(* What a call of Write does at once.                                      *)
LEMMA CallEffect ==
  ASSUME Typed, Numbered, NEW kind \in AllKinds, CallWrite(kind)
  PROVE  /\ Typed' /\ Numbered' /\ InStream' = InStream
         /\ UNCHANGED <<chanVars, clientVars, chunkIdx, producer>>
         /\ pc[Agent] = "ready"
         /\ \/ pc' = pc /\ cur' = cur /\ (Filtered(kind) \/ ctxDone)
            \/ /\ ~ctxDone /\ pc'[Agent] = "numbering"
               /\ cur'[Agent].kind = kind
<1>0. Agent \in Writers
  BY AgentAssumption
<1>1. CASE Filtered(kind)
  <2>1. pc[Agent] = "ready" /\ UNCHANGED vars
    BY <1>1 DEF CallWrite
  <2>2. Typed' /\ Numbered'
    BY <2>1, RestTyped DEF vars, chanVars, writeVars, Typed, TypeOK
  <2> QED
    BY <1>1, <2>1, <2>2 DEF vars, chanVars, writeVars, clientVars, InStream
<1>2. CASE WriteBegin(Agent, kind)
  <2>1. Typed' /\ Numbered'
    BY <1>0, <1>2, BeginTyped
  <2>2. pc'[Agent] = "numbering" /\ cur'[Agent].kind = kind
    BY <1>0, <1>2 DEF WriteBegin, Goto, Typed, TypeOK
  <2> QED
    BY <1>2, <2>1, <2>2 DEF WriteBegin, Submit, ContextAlive, InStream,
       chanVars, clientVars
<1>3. CASE WriteRefused(Agent)
  <2>1. Typed' /\ Numbered'
    BY <1>0, <1>3, RefusedTyped
  <2> QED
    BY <1>3, <2>1 DEF WriteRefused, Submit, ContextAlive, InStream, chanVars,
       clientVars
<1> QED
  BY <1>1, <1>2, <1>3 DEF CallWrite

(* A step of the goroutine that calls Write, or does not, and moves on.    *)
LEMMA CallNumbering ==
  ASSUME AInv, NEW kind \in AllKinds, CallWrite(kind)
  PROVE  Numbering'
<1>1. /\ InStream' = InStream /\ ctxDone' = ctxDone /\ chunkIdx' = chunkIdx
      /\ pc[Agent] = "ready"
      /\ \/ pc' = pc /\ cur' = cur
         \/ ~ctxDone /\ pc'[Agent] = "numbering"
  BY CallEffect DEF AInv, AgentTyped, chanVars
<1>2. IndexSequence'
  BY <1>1 DEF AInv, Numbering, IndexSequence
<1> QED
  BY <1>1, <1>2 DEF AInv, Numbering

LEMMA CallClosing ==
  ASSUME AInv, NEW kind \in AllKinds, CallWrite(kind), step # "gone",
         step' # "gone"
  PROVE  Closing'
<1>1. UNCHANGED <<closed, ctxDone, cancelled, consumer>>
  BY CallEffect DEF AInv, AgentTyped, chanVars, clientVars
<1> QED
  BY <1>1 DEF AInv, Closing

(* A chunk of another kind tells nothing of an error or a completion.      *)
LEMMA CallTells ==
  ASSUME AInv, NEW kind \in AllKinds, CallWrite(kind),
         NEW other, other # kind
  PROVE  Tells(other)' => Tells(other)
<1>1. /\ InStream' = InStream /\ pc[Agent] = "ready"
      /\ \/ pc' = pc /\ cur' = cur
         \/ cur'[Agent].kind = kind
  BY CallEffect DEF AInv, AgentTyped
<1> QED
  BY <1>1 DEF Tells, InWrite

(* The error return: its chunk is in hand, or nobody is told because the   *)
(* stream was cancelled.                                                   *)
LEMMA FailStep ==
  ASSUME AInv, Fail, step \in {"prompt", "connect", "tokens"}
  PROVE  AInv'
<1>1. /\ CallWrite("error") /\ step' = "return" /\ failed' = TRUE
      /\ UNCHANGED <<tokens, tools, callerDone, inCall>>
  BY DEF Fail
<1>2. "error" \in AllKinds /\ "done" # "error"
  BY DEF AllKinds
<1>3. AgentTyped'
  BY <1>1, <1>2, CallEffect DEF AInv, AgentTyped, Steps
<1>4. Numbering' /\ Closing'
  BY <1>1, <1>2, CallNumbering, CallClosing
<1>5. ~Tells("done")'
  <2>1. ~Tells("done")
    BY DEF AInv, Telling
  <2> QED
    BY <1>1, <1>2, <2>1, CallTells
<1>6. (~cancelled /\ ~Filtered("error") => ErrorLast)'
  <2> SUFFICES ASSUME ~cancelled', ~Filtered("error") PROVE ErrorLast'
    BY DEF Filtered
  <2>1. /\ cancelled' = cancelled
        /\ \/ ctxDone
           \/ pc'[Agent] = "numbering" /\ cur'[Agent].kind = "error"
    BY <1>1, <1>2, CallEffect DEF AInv, AgentTyped, chanVars
  <2>2. ~ctxDone
    BY <2>1 DEF AInv, Closing
  <2> QED
    BY <2>1, <2>2 DEF ErrorLast, InWrite
<1>7. Telling'
  BY <1>1, <1>5, <1>6 DEF Telling
<1> QED
  BY <1>3, <1>4, <1>7 DEF AInv

(* A step that writes a chunk of the answer, or none.                      *)
LEMMA AnswerStep ==
  ASSUME AInv, NEW kind \in {"delta", "tool", "thought"},
         CallWrite(kind) \/ UNCHANGED vars,
         step \in Steps \ {"last", "return", "gone"},
         step' \in Steps \ {"last", "return", "gone"},
         failed' = failed, UNCHANGED <<callerDone, inCall>>,
         tokens' \in 0..MaxTokens, tools' \in 0..MaxTools,
         step' \in {"tool", "toolResult"} => tools' >= 1
  PROVE  AInv'
<1>1. kind \in AllKinds /\ kind # "error" /\ kind # "done"
  BY DEF AllKinds
<1>2. ~failed /\ ~Tells("error") /\ ~Tells("done")
  BY DEF AInv, Telling
<1>3. CASE CallWrite(kind)
  <2>1. AgentTyped'
    BY <1>1, <1>3, CallEffect DEF AInv, AgentTyped
  <2>2. Numbering' /\ Closing'
    BY <1>1, <1>3, CallNumbering, CallClosing
  <2>3. ~Tells("error")' /\ ~Tells("done")'
    BY <1>1, <1>2, <1>3, CallTells
  <2>4. Telling'
    BY <1>2, <2>3 DEF Telling
  <2> QED
    BY <2>1, <2>2, <2>4 DEF AInv
<1>4. CASE UNCHANGED vars
  <2>1. Typed' /\ Numbered'
    BY <1>4, RestTyped DEF AInv, AgentTyped, vars, chanVars, writeVars, Typed,
       TypeOK
  <2>2. AgentTyped'
    BY <2>1 DEF AInv, AgentTyped
  <2>3. /\ InStream' = InStream
        /\ UNCHANGED <<pc, cur, chunkIdx, ctxDone, closed, cancelled,
                       consumer>>
    BY <1>4 DEF vars, chanVars, writeVars, clientVars, InStream
  <2>4. Numbering'
    BY <2>3 DEF AInv, Numbering, IndexSequence
  <2>5. Closing'
    BY <2>3 DEF AInv, Closing, InWrite
  <2>6. Telling'
    BY <1>2, <2>3 DEF Telling, Tells, InWrite
  <2> QED
    BY <2>2, <2>4, <2>5, <2>6 DEF AInv
<1> QED
  BY <1>3, <1>4

LEMMA PublishStep == ASSUME AInv, PublishResult PROVE AInv'
<1>1. /\ step = "finish" /\ step' = "last" /\ result' = "result"
      /\ pc[Agent] = "ready"
      /\ UNCHANGED <<chunks, closed, ctxDone, cancelled, err, writeVars,
                     producer, clientVars, tokens, tools, callerDone, inCall,
                     failed>>
  BY DEF PublishResult, At
<1>2. Typed' /\ Numbered'
  BY <1>1, RestTyped DEF AInv, AgentTyped, writeVars, Typed, TypeOK
<1>3. AgentTyped'
  BY <1>1, <1>2 DEF AInv, AgentTyped, Steps
<1>4. /\ InStream' = InStream
      /\ UNCHANGED <<pc, cur, chunkIdx, ctxDone, closed, cancelled, consumer>>
  BY <1>1 DEF writeVars, clientVars, InStream
<1>5. Numbering'
  BY <1>4 DEF AInv, Numbering, IndexSequence
<1>6. Closing'
  BY <1>1, <1>4 DEF AInv, Closing, InWrite
<1>7. ~failed /\ ~Tells("error")' /\ ~Tells("done")'
  BY <1>1, <1>4 DEF AInv, Telling, Tells, InWrite
<1>8. Telling'
  BY <1>1, <1>7 DEF Telling
<1> QED
  BY <1>3, <1>5, <1>6, <1>8 DEF AInv

LEMMA DoneStep == ASSUME AInv, WriteDone PROVE AInv'
<1>1. /\ step = "last" /\ step' = "return" /\ CallWrite("done")
      /\ UNCHANGED <<tokens, tools, callerDone, inCall, failed>>
  BY DEF WriteDone, At
<1>2. "done" \in AllKinds /\ "error" # "done"
  BY DEF AllKinds
<1>3. AgentTyped'
  BY <1>1, <1>2, CallEffect DEF AInv, AgentTyped, Steps
<1>4. Numbering' /\ Closing'
  BY <1>1, <1>2, CallNumbering, CallClosing
<1>5. ~failed /\ result = "result" /\ ~Tells("error")
  BY <1>1 DEF AInv, Telling
<1>6. ~Tells("error")'
  BY <1>1, <1>2, <1>5, CallTells
<1>7. result' = result
  BY <1>1, <1>2, CallEffect DEF AInv, AgentTyped, chanVars
<1>8. Telling'
  BY <1>1, <1>5, <1>6, <1>7 DEF Telling
<1> QED
  BY <1>3, <1>4, <1>8 DEF AInv

(* Steps that leave the goroutine, the writer and what is in the stream    *)
(* alone; the context may end, and only for a reason.                      *)
LEMMA QuietStep ==
  ASSUME AInv, Typed', Numbered', InStream' = InStream,
         UNCHANGED <<pc, cur, chunkIdx, result, step, tokens, tools, failed,
                     closed>>,
         {callerDone', inCall'} \subseteq BOOLEAN,
         ctxDone => ctxDone', cancelled => cancelled',
         ctxDone' => cancelled' \/ closed,
         consumer' = "returned" => closed
  PROVE  AInv'
<1>1. AgentTyped'
  BY DEF AInv, AgentTyped
<1>2. Numbering'
  BY DEF AInv, Numbering, IndexSequence
<1>3. Closing'
  BY DEF AInv, Closing, InWrite
<1>4. /\ Tells("error")' = Tells("error") /\ Tells("done")' = Tells("done")
      /\ ErrorLast' = ErrorLast /\ Filtered("error")' = Filtered("error")
  BY DEF Tells, ErrorLast, InWrite, Filtered
<1>5. Telling'
  BY <1>4 DEF AInv, Telling
<1> QED
  BY <1>1, <1>2, <1>3, <1>5 DEF AInv

LEMMA ClosesStep == ASSUME AInv, AgentCloses PROVE AInv'
<1>1. /\ step = "return" /\ step' = "gone" /\ pc[Agent] = "ready"
      /\ CloseWithError("nil") /\ producer' = "gone"
      /\ UNCHANGED <<result, tokens, tools, callerDone, inCall, failed>>
  BY DEF AgentCloses, At
<1>2. /\ UNCHANGED <<chunks, cancelled, writeVars, clientVars>>
      /\ closed' = TRUE /\ ctxDone' = TRUE /\ err' \in {"nil", "error"}
  BY <1>1, CloseStep DEF AInv, AgentTyped, Closing
<1>3. Typed' /\ Numbered'
  BY <1>1, <1>2, RestTyped DEF AInv, AgentTyped, writeVars, Typed, TypeOK
<1>4. AgentTyped'
  BY <1>1, <1>3 DEF AInv, AgentTyped, Steps
<1>5. InStream' = InStream /\ UNCHANGED <<pc, cur, chunkIdx>>
  BY <1>2 DEF InStream, writeVars, clientVars
<1>6. Numbering'
  BY <1>1, <1>2, <1>5 DEF AInv, Numbering, IndexSequence
<1>7. Closing'
  BY <1>1, <1>2, <1>5 DEF Closing, InWrite
<1>8. /\ Tells("error")' = Tells("error") /\ Tells("done")' = Tells("done")
      /\ ErrorLast' = ErrorLast
  BY <1>5 DEF Tells, ErrorLast, InWrite
<1>9. Telling'
  BY <1>1, <1>2, <1>8 DEF AInv, Telling, Filtered
<1> QED
  BY <1>4, <1>6, <1>7, <1>9 DEF AInv

(* The agent's chunk gets into the stream: with the number of its place,   *)
(* and as the last one.                                                    *)
LEMMA SendStep == ASSUME AInv, Send(Agent), UNCHANGED agentVars PROVE AInv'
<1> DEFINE s == InStream
           k == cur[Agent]
<1>0. Agent \in Writers /\ Typed
  BY AgentAssumption DEF AInv, AgentTyped
<1>1. /\ pc[Agent] = "sending" /\ pc'[Agent] = "ready" /\ InWrite(Agent)
      /\ UNCHANGED <<closed, ctxDone, cancelled, result, chunkIdx, consumer>>
  BY <1>0 DEF Send, Goto, InWrite, clientVars, Typed, TypeOK
<1>2. /\ InStream' = Append(s, k) /\ k \in Chunk /\ s \in Seq(Chunk)
  BY <1>0, SendStream, StreamType
<1>3. /\ Len(s) \in Nat /\ Len(InStream') = Len(s) + 1
      /\ DOMAIN s = 1..Len(s) /\ DOMAIN InStream' = 1..Len(s) + 1
      /\ \A i \in 1..Len(s) : InStream'[i] = s[i]
      /\ InStream'[Len(s) + 1] = k /\ InStream' # <<>>
  BY <1>2, AppendProperties, LenProperties
<1>4. AgentTyped'
  <2>1. Typed' /\ Numbered'
    BY <1>0, WriteTyped DEF Write, AInv, AgentTyped
  <2> QED
    BY <2>1 DEF AInv, AgentTyped, agentVars
<1>5. Numbering'
  <2>1. chunkIdx = Len(s) + 1 /\ k.index = Len(s)
    BY <1>1 DEF AInv, Numbering
  <2>2. IndexSequence'
    <3> SUFFICES ASSUME NEW i \in DOMAIN InStream'
                 PROVE  InStream'[i].index = i - 1
      BY DEF IndexSequence
    <3>1. CASE i = Len(s) + 1
      BY <1>3, <2>1, <3>1
    <3>2. CASE i # Len(s) + 1
      <4>1. i \in DOMAIN s
        BY <1>3, <3>2
      <4> QED
        BY <1>3, <4>1 DEF AInv, Numbering, IndexSequence
    <3> QED
      BY <3>1, <3>2
  <2> QED
    BY <1>1, <1>3, <2>1, <2>2 DEF Numbering
<1>6. Closing'
  BY <1>1 DEF AInv, Closing, InWrite, agentVars
<1>7. ASSUME NEW kind PROVE Tells(kind)' => Tells(kind)
  <2> SUFFICES ASSUME Tells(kind)' PROVE Tells(kind)
    OBVIOUS
  <2>1. PICK i \in DOMAIN InStream' : InStream'[i].kind = kind
    BY <1>1 DEF Tells, InWrite
  <2>2. i \in DOMAIN s \/ i = Len(s) + 1
    BY <1>3
  <2> QED
    BY <1>1, <1>3, <2>1, <2>2 DEF Tells
<1>8. ErrorLast => ErrorLast'
  BY <1>1, <1>3 DEF ErrorLast, InWrite
<1>9. Telling'
  BY <1>1, <1>7, <1>8 DEF AInv, Telling, Filtered, agentVars
<1> HIDE DEF s, k
<1> QED
  BY <1>4, <1>5, <1>6, <1>9 DEF AInv

LEMMA ReadChunk ==
  ASSUME Typed, NEW w \in Writers, ReadIndex(w)
  PROVE  cur'[w].index = chunkIdx /\ cur'[w].kind = cur[w].kind
<1>1. InWrite(w) /\ cur' = [cur EXCEPT ![w].index = chunkIdx]
  BY DEF ReadIndex, InWrite
<1>2. cur[w] = [by |-> w, n |-> written[w], kind |-> cur[w].kind,
                index |-> cur[w].index]
  BY <1>1, TypedFields
<1>3. cur'[w] = [cur[w] EXCEPT !.index = chunkIdx]
  BY <1>1 DEF Typed
<1> QED
  BY <1>2, <1>3

(* The other steps of its Write: the chunk stays in hand, or is dropped by *)
(* a cancelled stream.                                                     *)
LEMMA WriteStep ==
  ASSUME AInv, UNCHANGED agentVars,
         \/ ReadIndex(Agent) \/ StoreIndex(Agent) \/ HandlerAccepts(Agent)
         \/ HandlerStops(Agent) \/ SendCancelled(Agent)
  PROVE  AInv'
<1>0. Agent \in Writers /\ Typed /\ Numbered
  BY AgentAssumption DEF AInv, AgentTyped
<1>1. AgentTyped'
  <2>1. Typed' /\ Numbered'
    BY <1>0, WriteTyped DEF Write
  <2> QED
    BY <2>1 DEF AInv, AgentTyped, agentVars
<1>2. /\ InWrite(Agent) /\ InStream' = InStream
      /\ UNCHANGED <<closed, result, consumer>>
      /\ ctxDone => ctxDone'
      /\ cancelled => cancelled'
  BY DEF ReadIndex, StoreIndex, HandlerAccepts, HandlerStops, SendCancelled,
     CallHandler, DoCancel, InWrite, InStream, chanVars, clientVars
<1>3. step # "gone" /\ ~closed /\ (ctxDone => cancelled)
  BY <1>2 DEF AInv, Closing
<1>4. cur'[Agent].kind = cur[Agent].kind
  <2>1. CASE ReadIndex(Agent)
    BY <1>0, <2>1, ReadChunk
  <2>2. CASE ~ReadIndex(Agent)
    BY <2>2 DEF StoreIndex, HandlerAccepts, HandlerStops, SendCancelled,
       CallHandler
  <2> QED
    BY <2>1, <2>2
<1>5. Numbering'
  <2>0. IndexSequence'
    BY <1>2 DEF AInv, Numbering, IndexSequence
  <2>1. CASE ReadIndex(Agent)
    <3>1. /\ pc[Agent] = "numbering" /\ pc'[Agent] = "storing"
          /\ chunkIdx' = chunkIdx
      BY <1>0, <2>1 DEF ReadIndex, Goto, Typed, TypeOK
    <3>2. cur'[Agent].index = chunkIdx
      BY <1>0, <2>1, ReadChunk
    <3> QED
      BY <1>2, <2>0, <3>1, <3>2 DEF AInv, Numbering
  <2>2. CASE StoreIndex(Agent)
    <3>1. /\ pc[Agent] = "storing" /\ pc'[Agent] \in {"handling", "sending"}
          /\ cur' = cur
          /\ \E v \in {cur[Agent].index, chunkIdx} : chunkIdx' = v + 1
      BY <1>0, <2>2 DEF StoreIndex, Goto, Typed, TypeOK
    <3> QED
      BY <1>2, <2>0, <3>1 DEF AInv, Numbering
  <2>3. CASE HandlerAccepts(Agent)
    <3>1. /\ pc[Agent] = "handling" /\ pc'[Agent] = "sending"
          /\ cur' = cur /\ chunkIdx' = chunkIdx
      BY <1>0, <2>3 DEF HandlerAccepts, CallHandler, Goto, Typed, TypeOK
    <3> QED
      BY <1>2, <2>0, <3>1 DEF AInv, Numbering
  <2>4. CASE HandlerStops(Agent) \/ SendCancelled(Agent)
    <3>1. pc'[Agent] = "ready" /\ ctxDone'
      BY <1>0, <2>4 DEF HandlerStops, SendCancelled, CallHandler, DoCancel,
         Goto, Typed, TypeOK, chanVars
    <3> QED
      BY <2>0, <3>1 DEF Numbering
  <2> QED
    BY <2>1, <2>2, <2>3, <2>4
<1>6. \/ InWrite(Agent)' /\ ctxDone' = ctxDone /\ cancelled' = cancelled
      \/ ~InWrite(Agent)' /\ ctxDone' /\ cancelled'
  BY <1>0, <1>3 DEF ReadIndex, StoreIndex, HandlerAccepts, HandlerStops,
     SendCancelled, CallHandler, DoCancel, Goto, InWrite, Typed, TypeOK,
     chanVars
<1>7. Closing'
  BY <1>2, <1>3, <1>6 DEF AInv, Closing, agentVars
<1>8. ASSUME NEW kind PROVE Tells(kind)' => Tells(kind)
  BY <1>2, <1>4 DEF Tells
<1>9. cancelled' \/ (ErrorLast => ErrorLast' /\ ~cancelled)
  BY <1>2, <1>3, <1>4, <1>6 DEF ErrorLast, AInv, AgentTyped, Typed, TypeOK
<1>10. Telling'
  BY <1>2, <1>8, <1>9 DEF AInv, Telling, Filtered, agentVars
<1> QED
  BY <1>1, <1>5, <1>7, <1>10 DEF AInv

LEMMA InitAInv == AgentInit => AInv
<1> SUFFICES ASSUME AgentInit PROVE AInv
  OBVIOUS
<1>1. Typed /\ Numbered
  BY InitTyped DEF AgentInit
<1>2. AgentTyped
  <2>1. tokens \in 0..MaxTokens /\ tools \in 0..MaxTools
    BY AgentAssumption DEF AgentInit
  <2>2. step \in Steps /\ step \notin {"tool", "toolResult"}
    BY DEF AgentInit, Steps
  <2>3. {callerDone, inCall, failed} \subseteq BOOLEAN
    BY DEF AgentInit
  <2> QED
    BY <1>1, <2>1, <2>2, <2>3 DEF AgentTyped
<1>3. /\ InStream = <<>> /\ Len(InStream) = 0 /\ chunkIdx = 0
      /\ pc[Agent] = "ready"
      /\ ~closed /\ ~ctxDone /\ consumer # "returned"
      /\ step = "prompt" /\ ~failed
  BY AgentAssumption DEF AgentInit, Init, InStream
<1>4. Numbering
  BY <1>3 DEF Numbering, IndexSequence
<1>5. Closing
  BY <1>3 DEF Closing
<1>6. Telling
  BY <1>3 DEF Telling, Tells, InWrite
<1> QED
  BY <1>2, <1>4, <1>5, <1>6 DEF AInv

LEMMA NextAInv == AInv /\ [AgentNext]_allVars => AInv'
<1> SUFFICES ASSUME AInv, [AgentNext]_allVars PROVE AInv'
  OBVIOUS
<1>0. Typed /\ Numbered /\ Closing
  BY DEF AInv, AgentTyped
<1>1. CASE Fail /\ step \in {"prompt", "connect", "tokens"}
  BY <1>1, FailStep
<1>2. CASE FormatPrompt \/ ProviderStream
  BY <1>2, FailStep, AnswerStep DEF FormatPrompt, ProviderStream, At, Steps,
     AInv, AgentTyped
<1>3. CASE ForwardToken
  <2>1. /\ step = "tokens" /\ CallWrite("delta") /\ tokens' \in 0..MaxTokens
        /\ UNCHANGED <<step, tools, callerDone, inCall, failed>>
    BY <1>3, AgentAssumption DEF ForwardToken, At, AInv, AgentTyped
  <2> QED
    BY <2>1, AnswerStep DEF Steps, AInv, AgentTyped
<1>4. CASE TokenError
  BY <1>4, FailStep DEF TokenError, At
<1>5. CASE TokensEnd
  BY <1>5, AnswerStep, AgentAssumption DEF TokensEnd, At, Steps, AInv,
     AgentTyped
<1>6. CASE AnnounceTool
  BY <1>6, AnswerStep DEF AnnounceTool, At, Steps, AInv, AgentTyped
<1>7. CASE ReportTool
  <2>1. /\ step = "toolResult" /\ CallWrite("tool") /\ tools' = tools - 1
        /\ step' = IF tools' = 0 THEN "store" ELSE "tool"
        /\ UNCHANGED <<tokens, callerDone, inCall, failed>>
    BY <1>7 DEF ReportTool, At
  <2>2. /\ tools' \in 0..MaxTools /\ (step' = "tool" => tools' >= 1)
        /\ tokens' \in 0..MaxTokens
    BY <2>1, AgentAssumption DEF AInv, AgentTyped
  <2> QED
    BY <2>1, <2>2, AnswerStep DEF Steps
<1>8. CASE StoreExchange
  BY <1>8, AnswerStep DEF StoreExchange, At, Steps, AInv, AgentTyped
<1>9. CASE PublishResult \/ WriteDone \/ AgentCloses
  BY <1>9, PublishStep, DoneStep, ClosesStep
<1>10. CASE StreamStep
  BY <1>10, SendStep, WriteStep DEF StreamStep
<1>11. CASE ConsumerStep \/ (Leave /\ BreakOut)
  <2>1. (Consume \/ BreakOut) /\ UNCHANGED agentVars
    BY <1>11 DEF ConsumerStep, Leave
  <2>2. Typed' /\ Numbered'
    BY <1>0, <2>1, ConsumeTyped
  <2>3. /\ UNCHANGED <<closed, ctxDone, cancelled, result, writeVars>>
        /\ consumer' = "returned" => consumer = "returned" \/ closed
    BY <2>1 DEF Consume, Receive, SeeEnd, WaitReturns, BreakOut, ConsumerTo,
       chanVars
  <2>4. InStream' = InStream
    BY <1>0, <2>1, ReceiveStream DEF Consume, SeeEnd, WaitReturns, BreakOut,
       ConsumerTo, chanVars, InStream
  <2> QED
    BY <1>0, <2>1, <2>2, <2>3, <2>4, QuietStep DEF agentVars, writeVars,
       Closing, AInv, AgentTyped
<1>12. CASE (Leave /\ Cancel) \/ StreamTimeout
  <2>1. /\ (Cancel \/ TimeoutFires) /\ UNCHANGED agentVars
        /\ UNCHANGED <<chunks, closed, result, err, writeVars, producer,
                       clientVars>>
        /\ ctxDone' = TRUE /\ cancelled' = TRUE
    BY <1>12 DEF Leave, StreamTimeout, Cancel, TimeoutFires, DoCancel
  <2>2. Typed' /\ Numbered'
    BY <1>0, <2>1, RestTyped DEF writeVars, Typed, TypeOK
  <2> QED
    BY <1>0, <2>1, <2>2, QuietStep DEF agentVars, writeVars, clientVars,
       InStream, Closing, AInv, AgentTyped
<1>13. CASE CallerContextDone /\ inCall' \in BOOLEAN
  <2>1. /\ UNCHANGED <<chunks, closed, result, err, writeVars, producer,
                       clientVars, step, tokens, tools, failed>>
        /\ callerDone' = TRUE /\ ctxDone' = TRUE
        /\ cancelled' = (cancelled \/ ~closed)
    BY <1>13 DEF CallerContextDone
  <2>2. Typed' /\ Numbered'
    BY <1>0, <2>1, RestTyped DEF writeVars, Typed, TypeOK
  <2> QED
    BY <1>0, <1>13, <2>1, <2>2, QuietStep DEF writeVars, clientVars, InStream,
       Closing, AInv, AgentTyped
<1>14. CASE UNCHANGED <<vars, step, tokens, tools, callerDone, failed>>
            /\ inCall' \in BOOLEAN
  <2>1. Typed' /\ Numbered'
    BY <1>0, <1>14, RestTyped DEF vars, chanVars, writeVars, Typed, TypeOK
  <2> QED
    BY <1>0, <1>14, <2>1, QuietStep DEF vars, chanVars, writeVars, clientVars,
       InStream, Closing, AInv, AgentTyped
<1>15. inCall \in BOOLEAN
  BY DEF AInv, AgentTyped
<1>16. CASE CallerCancels
  BY <1>13, <1>15, <1>16 DEF CallerCancels
<1>17. CASE CallReturns
  BY <1>13, <1>14, <1>17 DEF CallReturns
<1>18. CASE UNCHANGED allVars
  BY <1>14, <1>15, <1>18 DEF allVars, agentVars
<1>19. AgentTerminated => UNCHANGED allVars
  BY DEF AgentTerminated, Terminated, allVars
<1> QED
  BY <1>2, <1>3, <1>4, <1>5, <1>6, <1>7, <1>8, <1>9, <1>10, <1>11, <1>12,
     <1>16, <1>17, <1>18, <1>19 DEF AgentNext, AgentStep, ProviderStep, Leave

LEMMA AgentInductive == AgentSpec => []AInv
BY InitAInv, NextAInv, PTL DEF AgentSpec

(* Every variable of the stream and of the goroutine keeps its type, the   *)
(* chunks of an agent are numbered 0, 1, 2, ... without a gap whoever      *)
(* cancels at whatever moment, and a run that failed says so with the last *)
(* chunk of a stream nobody cancelled, no other run does.                  *)
THEOREM AgentInvHolds == AgentSpec => []AgentInv
<1>1. ASSUME AInv PROVE AgentInv
  <2>1. AgentTypeOK
    BY <1>1 DEF AInv, AgentTyped, Typed, AgentTypeOK
  <2>2. IndexSequence
    BY <1>1 DEF AInv, Numbering
  <2>3. ErrorReported
    <3> SUFFICES ASSUME consumer = "returned", chunks = <<>>, ~cancelled,
                        ~Filtered("error")
                 PROVE  failed <=> /\ received # <<>>
                                   /\ received[Len(received)].kind = "error"
      BY DEF ErrorReported
    <3>1. ~InWrite(Agent)
      BY <1>1 DEF AInv, Closing
    <3>2. InStream = received /\ received \in Seq(Chunk)
      BY <1>1, ConcatEmptySeq DEF InStream, AInv, AgentTyped, Typed, TypeOK
    <3>3. failed => /\ received # <<>>
                    /\ received[Len(received)].kind = "error"
      BY <1>1, <3>1, <3>2 DEF AInv, Telling, ErrorLast
    <3>4. received # <<>> => Len(received) \in DOMAIN received
      BY <3>2, EmptySeq, LenProperties
    <3>5. ASSUME ~failed, received # <<>>
          PROVE  received[Len(received)].kind # "error"
      BY <1>1, <3>2, <3>4, <3>5 DEF AInv, Telling, Tells
    <3> QED
      BY <1>1, <3>3, <3>5 DEF AInv, AgentTyped
  <2> QED
    BY <2>1, <2>2, <2>3 DEF AgentInv
<1> QED
  BY <1>1, AgentInductive, PTL

(* Whoever saw the completion chunk gets a result from Wait, whatever was  *)
(* cancelled meanwhile and wherever.                                       *)
THEOREM DoneBackedByResult == AgentSpec => []DoneMeansResult
<1>1. ASSUME AInv PROVE DoneMeansResult
  <2> SUFFICES ASSUME NEW i \in DOMAIN received, received[i].kind = "done"
               PROVE  result = "result" /\ ~failed
    BY DEF DoneMeansResult
  <2>1. i \in DOMAIN InStream /\ InStream[i] = received[i]
    <3>1. received \in Seq(Chunk) /\ chunks \in Seq(Chunk)
      BY <1>1 DEF AInv, AgentTyped, Typed, TypeOK
    <3> QED
      BY <3>1, ConcatProperties, LenProperties DEF InStream
  <2>2. Tells("done")
    BY <2>1 DEF Tells
  <2> QED
    BY <1>1, <2>2 DEF AInv, Telling
<1> QED
  BY <1>1, AgentInductive, PTL
=============================================================================
