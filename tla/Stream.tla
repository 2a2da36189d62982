------------------------------- MODULE Stream -------------------------------
(***************************************************************************)
(* basicStream of v1beta/streaming.go: producers Write chunks into a       *)
(* bounded channel, one consumer ranges over it or only Waits, and anybody *)
(* may cancel the stream's context: the consumer, the stream timeout, a    *)
(* handler that returns false.  The producers are the goroutines of a run  *)
(* (one for an agent, one per parallel step for a workflow) and the run    *)
(* closes the stream when all of them have returned.                       *)
(*                                                                         *)
(* Write is split where another goroutine can get in between: the first    *)
(* check of the context, the two accesses to chunkIdx (no lock is held),   *)
(* the handler, and the final select.  A chunk is its writer, its number   *)
(* among that writer's chunks, its kind and the Index that Write gives it. *)
(* A chunk that an option filters leaves no trace: Write returns nil.      *)
(***************************************************************************)
EXTENDS Integers, Sequences, FiniteSets, Functions

CONSTANTS
  Writers,          \* goroutines that write to the stream
  Kinds,            \* kinds of chunk they write, from AllKinds
  MaxChunks,        \* bound: Write calls per writer
  BufferSize,       \* options.BufferSize
  HasHandler,       \* options.Handler # nil
  HasTimeout,       \* options.Timeout > 0
  Consumer,         \* "ranges" over Chunks() first, or only "waits"
  MayCancel,        \* whether consumer and handler may cancel or break out
  TextOnly, IncludeThoughts, IncludeToolCalls, IncludeMetadata

AllKinds ==
  {"delta", "done", "thought", "tool", "metadata", "error", "lifecycle"}

ASSUME StreamAssumption ==
  /\ Writers # {} /\ IsFiniteSet(Writers)
  /\ Kinds \subseteq AllKinds /\ Kinds # {}
  /\ MaxChunks \in Nat \ {0}
  /\ BufferSize \in Nat \ {0}
  /\ Consumer \in {"ranges", "waits"}
  /\ {HasHandler, HasTimeout, MayCancel, TextOnly, IncludeThoughts,
      IncludeToolCalls, IncludeMetadata} \subseteq BOOLEAN

VARIABLES
  chunks,     \* the channel's buffer
  closed,     \* chunks and done are closed
  ctxDone,    \* the stream's context is done
  result, err,
  chunkIdx,
  pc,         \* where each writer is
  cur,        \* the chunk each writer is writing
  producer,   \* the run: "running", "returning" (deferred Close next), "gone"
  consumer,   \* "ranging", "waiting" or "returned"
  received,   \* history: the chunks the consumer took, in order
  handled,    \* history: the chunks the handler was called with
  written,    \* history: chunks each writer submitted and no option filters
  cancelled   \* history: the context was done before the close

chanVars   == <<chunks, closed, ctxDone, cancelled, result, err>>
writeVars  == <<chunkIdx, pc, cur, handled, written>>
clientVars == <<consumer, received>>
vars == <<chanVars, writeVars, clientVars, producer>>

PCs == {"ready", "numbering", "storing", "handling", "sending", "stopped"}

Chunk == [by: Writers, n: 1..MaxChunks, kind: AllKinds,
          index: 0..(MaxChunks * Cardinality(Writers))]

NoChunk == [by |-> "none", n |-> 0, kind |-> "none", index |-> 0]

TypeOK ==
  /\ chunks \in Seq(Chunk) /\ Len(chunks) <= BufferSize
  /\ closed \in BOOLEAN /\ ctxDone \in BOOLEAN /\ cancelled \in BOOLEAN
  /\ result \in {"nil", "result"} /\ err \in {"nil", "error"}
  /\ chunkIdx \in 0..(MaxChunks * Cardinality(Writers))
  /\ pc \in [Writers -> PCs]
  /\ \A w \in Writers : cur[w] \in Chunk \cup {NoChunk}
  /\ producer \in {"running", "returning", "gone"}
  /\ consumer \in {"ranging", "waiting", "returned"}
  /\ received \in Seq(Chunk) /\ handled \in Seq(Chunk)
  /\ written \in [Writers -> 0..MaxChunks]

Init ==
  /\ chunks = <<>>
  /\ closed = FALSE
  /\ ctxDone = FALSE
  /\ cancelled = FALSE
  /\ result = "nil"
  /\ err = "nil"
  /\ chunkIdx = 0
  /\ pc = [w \in Writers |-> "ready"]
  /\ cur = [w \in Writers |-> NoChunk]
  /\ producer = "running"
  /\ consumer = IF Consumer = "ranges" THEN "ranging" ELSE "waiting"
  /\ received = <<>>
  /\ handled = <<>>
  /\ written = [w \in Writers |-> 0]
-----------------------------------------------------------------------------
(* Write                                                                   *)

Goto(w, l) == pc' = [pc EXCEPT ![w] = l]

Filtered(kind) ==
  \/ TextOnly /\ kind \notin {"delta", "done"}
  \/ ~IncludeThoughts /\ kind = "thought"
  \/ ~IncludeToolCalls /\ kind = "tool"
  \/ ~IncludeMetadata /\ kind = "metadata"

ContextAlive == ~ctxDone

(* A writer calls Write with its next chunk, one no option filters.        *)
Submit(w) ==
  /\ pc[w] = "ready"
  /\ written[w] < MaxChunks
  /\ written' = [written EXCEPT ![w] = @ + 1]
  /\ UNCHANGED <<chanVars, chunkIdx, handled, producer, clientVars>>

WriteBegin(w, kind) ==
  /\ Submit(w)
  /\ ContextAlive
  /\ ~Filtered(kind)
  /\ Goto(w, "numbering")
  /\ cur' = [cur EXCEPT ![w] = [by |-> w, n |-> written[w] + 1,
                                kind |-> kind, index |-> 0]]

(* Write fails at once because the context is done; the writers of this    *)
(* code base ignore the error and go on to their next chunk.               *)
WriteRefused(w) ==
  /\ Submit(w)
  /\ ~ContextAlive
  /\ UNCHANGED <<pc, cur>>

(* chunk.Index = s.chunkIdx                                                *)
ReadIndex(w) ==
  /\ pc[w] = "numbering"
  /\ Goto(w, "storing")
  /\ cur' = [cur EXCEPT ![w].index = chunkIdx]
  /\ UNCHANGED <<chanVars, chunkIdx, handled, written, producer, clientVars>>

(* s.chunkIdx++, without a lock: the value incremented is the one already  *)
(* loaded for Index or one loaded again.                                   *)
StoreIndex(w) ==
  /\ pc[w] = "storing"
  /\ \E v \in {cur[w].index, chunkIdx} : chunkIdx' = v + 1
  /\ Goto(w, IF HasHandler THEN "handling" ELSE "sending")
  /\ UNCHANGED <<chanVars, cur, handled, written, producer, clientVars>>

CallHandler(w) ==
  /\ pc[w] = "handling"
  /\ handled' = Append(handled, cur[w])
  /\ UNCHANGED <<chunkIdx, cur, written, producer, clientVars>>

HandlerAccepts(w) ==
  /\ CallHandler(w)
  /\ Goto(w, "sending")
  /\ UNCHANGED chanVars

DoCancel ==
  /\ ctxDone' = TRUE
  /\ cancelled' = TRUE
  /\ UNCHANGED <<chunks, closed, result, err>>

(* The handler returns false: the chunk is dropped, the stream cancelled.  *)
HandlerStops(w) ==
  /\ CallHandler(w)
  /\ MayCancel
  /\ DoCancel
  /\ Goto(w, "ready")

Room == Len(chunks) < BufferSize

Send(w) ==
  /\ pc[w] = "sending"
  /\ Room
  /\ chunks' = Append(chunks, cur[w])
  /\ Goto(w, "ready")
  /\ UNCHANGED <<closed, ctxDone, cancelled, result, err, chunkIdx, cur,
                 handled, written, producer, clientVars>>

(* Slip: a done context makes the send try again instead of giving up.     *)
SendCancelledRetries(w) ==
  /\ pc[w] = "sending"
  /\ ctxDone
  /\ UNCHANGED vars

SendCancelled(w) ==
  /\ pc[w] = "sending"
  /\ ctxDone
  /\ Goto(w, "ready")
  /\ UNCHANGED <<chanVars, chunkIdx, cur, handled, written, producer,
                 clientVars>>

(* The goroutine has written what it had to.                               *)
WriterReturns(w) ==
  /\ pc[w] = "ready"
  /\ Goto(w, "stopped")
  /\ UNCHANGED <<chanVars, chunkIdx, cur, handled, written, producer,
                 clientVars>>
-----------------------------------------------------------------------------
(* The goroutine of the run, once the writers it started have returned: it *)
(* sets the result, or closes with an error, or returns without either; in *)
(* each case its deferred Close comes last.                                *)

(* Slip: the run does not wait for its writers.                            *)
AllReturnedUnawaited == TRUE

AllReturned == \A w \in Writers : pc[w] = "stopped"

(* Slip: the test of done that makes a second close do nothing is lost.    *)
CloseWithErrorAgain(e) ==
  /\ closed' = TRUE
  /\ ctxDone' = TRUE
  /\ err' = e
  /\ UNCHANGED <<chunks, cancelled, writeVars, clientVars>>

(* CloseWithError holds the mutex, which Wait needs too, from the test of  *)
(* done to the cancel: one step.                                           *)
CloseWithError(e) ==
  /\ IF closed THEN UNCHANGED <<closed, ctxDone, err>>
               ELSE closed' = TRUE /\ ctxDone' = TRUE /\ err' = e
  /\ UNCHANGED <<chunks, cancelled, writeVars, clientVars>>

RunReturns ==
  /\ producer = "running"
  /\ AllReturned
  /\ producer' = "returning"

SetResult ==
  /\ RunReturns
  /\ result' = "result"
  /\ UNCHANGED <<chunks, closed, ctxDone, cancelled, err, writeVars,
                 clientVars>>

RunFails   == RunReturns /\ CloseWithError("error") /\ UNCHANGED result
RunGivesUp == RunReturns /\ UNCHANGED <<chanVars, writeVars, clientVars>>

DeferredClose ==
  /\ producer = "returning"
  /\ CloseWithError("nil")
  /\ producer' = "gone"
  /\ UNCHANGED result
-----------------------------------------------------------------------------
(* The consumer, and whoever cancels                                       *)

Receive ==
  /\ consumer = "ranging"
  /\ chunks # <<>>
  /\ received' = Append(received, Head(chunks))
  /\ chunks' = Tail(chunks)
  /\ UNCHANGED <<closed, ctxDone, cancelled, result, err, writeVars,
                 producer, consumer>>

ConsumerTo(state) ==
  /\ consumer' = state
  /\ UNCHANGED <<chanVars, writeVars, producer, received>>

(* The range loop ends when the channel is closed and empty.               *)
SeeEnd ==
  /\ consumer = "ranging"
  /\ closed
  /\ chunks = <<>>
  /\ ConsumerTo("waiting")

(* The consumer breaks out of the loop and goes on to Wait.                *)
BreakOut ==
  /\ consumer = "ranging"
  /\ MayCancel
  /\ ConsumerTo("waiting")

WaitReturns ==
  /\ consumer = "waiting"
  /\ closed
  /\ ConsumerTo("returned")

Cancel ==
  /\ MayCancel
  /\ consumer # "returned"
  /\ ~ctxDone
  /\ DoCancel
  /\ UNCHANGED <<writeVars, producer, clientVars>>

TimeoutFires ==
  /\ HasTimeout
  /\ ~ctxDone
  /\ DoCancel
  /\ UNCHANGED <<writeVars, producer, clientVars>>

Terminated == consumer = "returned" /\ producer = "gone" /\ UNCHANGED vars
-----------------------------------------------------------------------------
Write(w) ==
  \/ \E kind \in Kinds : WriteBegin(w, kind)
  \/ WriteRefused(w)
  \/ ReadIndex(w) \/ StoreIndex(w)
  \/ HandlerAccepts(w) \/ HandlerStops(w)
  \/ Send(w) \/ SendCancelled(w)

Finish  == SetResult \/ RunFails \/ RunGivesUp \/ DeferredClose
Consume == Receive \/ SeeEnd \/ WaitReturns

Next ==
  \/ \E w \in Writers : Write(w) \/ WriterReturns(w)
  \/ Finish \/ Consume \/ BreakOut \/ Cancel \/ TimeoutFires
  \/ Terminated

Spec == Init /\ [][Next]_vars

(* Goroutines that can run are run, the timer fires, a ranging consumer    *)
(* keeps ranging.  Nobody has to cancel or to break out.                   *)
Fairness ==
  /\ \A w \in Writers : WF_vars(Write(w)) /\ WF_vars(WriterReturns(w))
  /\ WF_vars(Finish) /\ WF_vars(Consume) /\ WF_vars(TimeoutFires)

FairSpec == Spec /\ Fairness
-----------------------------------------------------------------------------
InStream == received \o chunks

(* What a stream of one writer carries is numbered 0, 1, 2, ... without a  *)
(* gap, however it is cancelled (StreamChunk.Index, streaming.go:62); with *)
(* two writers the unlocked counter gives no such guarantee.               *)
IndexSequence ==
  \A i \in DOMAIN InStream : InStream[i].index = i - 1

(* A consumer that ranges to the end of a stream nobody cancelled has      *)
(* every chunk that was written, and the handler has seen each of them.    *)
Complete ==
  consumer = "returned" /\ chunks = <<>> /\ ~cancelled =>
    /\ \A w \in Writers, n \in 1..MaxChunks :
         n <= written[w] =>
           \E i \in DOMAIN received : received[i].by = w /\ received[i].n = n
    /\ HasHandler => Range(handled) = Range(received)

(* With a stream timeout, Wait returns whatever the consumer does: ranges, *)
(* breaks out of the loop or never reads at all.                           *)
WaitEnds == <>(consumer = "returned")
-----------------------------------------------------------------------------
(* Refinement: a Write that has not returned has not happened yet, and a   *)
(* writer is cut when fewer of its chunks got in than it has got rid of.   *)

InWrite(w) == pc[w] \in {"numbering", "storing", "handling", "sending"}

MadeBy(w) == written[w] - (IF InWrite(w) THEN 1 ELSE 0)

GotIn(w) == Cardinality({i \in DOMAIN InStream : InStream[i].by = w})

Ids(s) == [i \in DOMAIN s |-> <<s[i].by, s[i].n>>]

Contract == INSTANCE StreamContract WITH
  Outcomes <- {"nil", "result"} \X {"nil", "error"},
  made     <- [w \in Writers |-> MadeBy(w)],
  cut      <- {w \in Writers : GotIn(w) < MadeBy(w)},
  flight   <- Ids(chunks),
  got      <- Ids(received),
  outcome  <- IF closed THEN {<<result, err>>} ELSE {},
  told     <- IF consumer = "returned" THEN {<<result, err>>} ELSE {}

(* The stream keeps its contract: order, no loss but by cancellation, no   *)
(* gap after a loss, one outcome.                                          *)
KeepsContract == Contract!Spec
=============================================================================
