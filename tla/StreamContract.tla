--------------------------- MODULE StreamContract ---------------------------
(***************************************************************************)
(* What a stream promises its consumer, with no trace of how Write works:  *)
(* each writer's chunks arrive in the order written; a chunk is lost only  *)
(* once the stream is cancelled, and from then on that writer's stream is  *)
(* cut; nothing is put in after the end; and the end has one outcome,      *)
(* which Wait reports.                                                     *)
(***************************************************************************)
EXTENDS Integers, Sequences

CONSTANTS Writers, Outcomes

VARIABLES
  made,       \* chunks each writer has got rid of, delivered or lost
  cut,        \* writers that have lost a chunk
  flight,     \* chunks on their way, as <<writer, number>>
  got,        \* chunks delivered
  cancelled,
  outcome,    \* {} until the end, then the singleton of what it was
  told        \* what Wait has reported: {} or outcome

vars == <<made, cut, flight, got, cancelled, outcome, told>>

Init ==
  /\ made = [w \in Writers |-> 0]
  /\ cut = {}
  /\ flight = <<>>
  /\ got = <<>>
  /\ cancelled = FALSE
  /\ outcome = {}
  /\ told = {}

Produce(w) ==
  /\ outcome = {}
  /\ w \notin cut
  /\ made' = [made EXCEPT ![w] = @ + 1]
  /\ flight' = Append(flight, <<w, made[w] + 1>>)
  /\ UNCHANGED <<cut, got, cancelled, outcome, told>>

Lose(w) ==
  /\ outcome = {}
  /\ cancelled'
  /\ made' = [made EXCEPT ![w] = @ + 1]
  /\ cut' = cut \cup {w}
  /\ UNCHANGED <<flight, got, outcome, told>>

Deliver ==
  /\ flight # <<>>
  /\ got' = Append(got, Head(flight))
  /\ flight' = Tail(flight)
  /\ UNCHANGED <<made, cut, cancelled, outcome, told>>

CancelStream ==
  /\ ~cancelled
  /\ cancelled' = TRUE
  /\ UNCHANGED <<made, cut, flight, got, outcome, told>>

End(o) ==
  /\ outcome = {}
  /\ outcome' = {o}
  /\ UNCHANGED <<made, cut, flight, got, cancelled, told>>

Tell ==
  /\ outcome # {}
  /\ told' = outcome
  /\ UNCHANGED <<made, cut, flight, got, cancelled, outcome>>

Next ==
  \/ \E w \in Writers : Produce(w) \/ Lose(w)
  \/ Deliver \/ CancelStream \/ Tell
  \/ \E o \in Outcomes : End(o)

Spec == Init /\ [][Next]_vars
=============================================================================
