----------------------- MODULE GraphValidationProofs -----------------------
(***************************************************************************)
(* Proofs about GraphValidation for every graph: any number of names and   *)
(* edges, any choice of the next root.  Each of the searches is correct    *)
(* because of what it leaves behind it: a set of names that no edge        *)
(* leaves, in which no name is on a cycle.                                 *)
(***************************************************************************)
EXTENDS GraphValidation, SequenceTheorems, FiniteSetTheorems,
        WellFoundedInduction, TLAPS

-----------------------------------------------------------------------------
(* Graphs.  The operators of the module for an explicit sequence of edges, *)
(* which makes them constant: what they say of a graph does not change.    *)

Out(es, S) == {es[i].to : i \in {j \in DOMAIN es : es[j].from \in S}}
In(es, S)  == {es[i].from : i \in {j \in DOMAIN es : es[j].to \in S}}
Reach(es, S) ==
  {n \in Names : \A T \in SUBSET Names :
                   S \subseteq T /\ Out(es, T) \subseteq T => n \in T}
Join(es, S) ==
  {n \in Names : \A T \in SUBSET Names :
     S \subseteq T /\ Out(es, T) \cup In(es, T) \subseteq T => n \in T}
HasCycle(es, ns) == \E n \in Reach(es, ns) : n \in Reach(es, Out(es, {n}))

LEMMA OutDef ==
  ASSUME NEW es \in Seq(Edge), NEW S
  PROVE  /\ Out(es, S) \subseteq Names /\ In(es, S) \subseteq Names
         /\ \A i \in 1..Len(es) : /\ es[i].from \in Names /\ es[i].to \in Names
                                  /\ es[i].from \in S =>
                                       es[i].to \in Out(es, S)
                                  /\ es[i].to \in S => es[i].from \in In(es, S)
         /\ \A n \in Out(es, S) : \E i \in 1..Len(es) :
                                    es[i].from \in S /\ es[i].to = n
         /\ \A n \in In(es, S) : \E i \in 1..Len(es) :
                                   es[i].to \in S /\ es[i].from = n
<1>1. DOMAIN es = 1..Len(es) /\ \A i \in 1..Len(es) : es[i] \in Edge
  BY ElementOfSeq, LenProperties
<1>2. \A e \in Edge : e.from \in Names /\ e.to \in Names
  BY DEF Edge
<1> QED
  BY <1>1, <1>2 DEF Out, In

LEMMA OutMono ==
  ASSUME NEW es \in Seq(Edge), NEW S, NEW T, S \subseteq T
  PROVE  Out(es, S) \subseteq Out(es, T)
BY DEF Out

LEMMA OutUnion ==
  ASSUME NEW es \in Seq(Edge), NEW S, NEW n
  PROVE  Out(es, S \cup {n}) = Out(es, S) \cup Out(es, {n})
BY DEF Out

LEMMA ReachFacts ==
  ASSUME NEW es \in Seq(Edge), NEW S \in SUBSET Names
  PROVE  /\ Reach(es, S) \in SUBSET Names /\ S \subseteq Reach(es, S)
         /\ Out(es, Reach(es, S)) \subseteq Reach(es, S)
         /\ Out(es, S) \subseteq Reach(es, S)
         /\ \A T \in SUBSET Names :
              S \subseteq T /\ Out(es, T) \subseteq T
                => Reach(es, S) \subseteq T
<1>1. /\ Reach(es, S) \in SUBSET Names /\ S \subseteq Reach(es, S)
      /\ \A T \in SUBSET Names :
           S \subseteq T /\ Out(es, T) \subseteq T => Reach(es, S) \subseteq T
  BY DEF Reach
<1>2. ASSUME NEW n \in Out(es, Reach(es, S)) PROVE n \in Reach(es, S)
  <2> SUFFICES ASSUME NEW T \in SUBSET Names,
                      S \subseteq T, Out(es, T) \subseteq T
               PROVE  n \in T
    BY OutDef DEF Reach
  <2>1. Reach(es, S) \subseteq T
    BY <1>1
  <2> QED
    BY <1>2, <2>1, OutMono
<1>3. Out(es, S) \subseteq Out(es, Reach(es, S))
  BY <1>1, OutMono
<1> QED
  BY <1>1, <1>2, <1>3

LEMMA ReachMono ==
  ASSUME NEW es \in Seq(Edge), NEW S \in SUBSET Names,
         NEW R \in SUBSET Names, S \subseteq Reach(es, R)
  PROVE  Reach(es, S) \subseteq Reach(es, R)
BY ReachFacts

(* What an edge leads to is reached from where it comes from.              *)
LEMMA ReachStep ==
  ASSUME NEW es \in Seq(Edge), NEW n \in Names, NEW i \in 1..Len(es),
         es[i].from \in Reach(es, {n})
  PROVE  es[i].to \in Reach(es, {n})
BY ReachFacts, OutDef

(* In a finite graph without cycles whose edges stay among its nodes every *)
(* node is reached from one that no edge leads to: of the nodes that are   *)
(* not, one that reaches the most has a predecessor that reaches more.     *)
LEMMA SourcesReachAll ==
  ASSUME NEW es \in Seq(Edge), NEW ns \in SUBSET Names, ~HasCycle(es, ns),
         \A i \in 1..Len(es) : es[i].from \in ns /\ es[i].to \in ns
  PROVE  ns \subseteq Reach(es, ns \ Out(es, Names))
<1> DEFINE Sources == ns \ Out(es, Names)
           Rest == ns \ Reach(es, Sources)
           Beyond(n) == Names \ Reach(es, {n})
           R == StrictSubsetOrdering(Names)
<1> SUFFICES ASSUME Rest # {} PROVE FALSE
  OBVIOUS
<1> HIDE DEF R
<1>1. IsWellFoundedOn(R, SUBSET Names)
  BY FS_StrictSubsetOrderingWellFounded, FS_FiniteSubsetsOfFinite,
     GraphAssumption DEF R
<1>2. PICK x \in {Beyond(n) : n \in Rest} :
        \A y \in {Beyond(n) : n \in Rest} : ~(<<y, x>> \in R)
  <2>1. {Beyond(n) : n \in Rest} \subseteq SUBSET Names
    OBVIOUS
  <2>2. {Beyond(n) : n \in Rest} # {}
    OBVIOUS
  <2> QED
    BY <1>1, <2>1, <2>2, WFMin
<1>3. PICK n \in Rest : x = Beyond(n)
  BY <1>2
<1>4. n \in Names /\ n \in ns /\ Sources \in SUBSET Names
  OBVIOUS
<1>5. n \in Out(es, Names)
  BY <1>4, ReachFacts
<1>6. PICK i \in 1..Len(es) : es[i].to = n
  BY <1>5, OutDef
<1> DEFINE p == es[i].from
<1>7. p \in Names /\ p \in ns /\ n \in Out(es, {p})
  BY <1>6, OutDef
<1>8. p \in Rest
  <2> SUFFICES ASSUME p \in Reach(es, Sources) PROVE FALSE
    BY <1>7
  <2>1. n \in Out(es, Reach(es, Sources))
    BY <1>6, OutDef
  <2> QED
    BY <1>4, <2>1, ReachFacts
<1>9. n \in Reach(es, {p}) /\ p \in Reach(es, {p})
  BY <1>7, ReachFacts
<1>10. Reach(es, {n}) \subseteq Reach(es, {p})
  BY <1>4, <1>7, <1>9, ReachMono
<1>11. p \notin Reach(es, {n})
  <2> SUFFICES ASSUME p \in Reach(es, {n}) PROVE FALSE
    OBVIOUS
  <2>1. Out(es, {p}) \in SUBSET Names
    BY <1>7, OutDef
  <2>2. {n} \subseteq Reach(es, Out(es, {p}))
    <3>1. \A S \in SUBSET Names : S \subseteq Reach(es, S)
      BY ReachFacts
    <3> QED
      BY <1>7, <2>1, <3>1
  <2>3. p \in Reach(es, Out(es, {p}))
    <3>1. \A S \in SUBSET Names :
            {n} \subseteq Reach(es, S) => Reach(es, {n}) \subseteq Reach(es, S)
      BY <1>4, ReachMono
    <3> QED
      BY <2>1, <2>2, <3>1
  <2>4. p \in Reach(es, ns)
    BY <1>7, ReachFacts
  <2> QED
    BY <2>3, <2>4 DEF HasCycle
<1>12. <<Beyond(p), Beyond(n)>> \in R
  <2>1. Beyond(p) \subseteq Beyond(n) /\ Beyond(p) # Beyond(n)
    BY <1>7, <1>9, <1>10, <1>11
  <2> QED
    BY <2>1 DEF R, StrictSubsetOrdering
<1> QED
  BY <1>2, <1>3, <1>8, <1>12

(* Being joined by a chain of edges is an equivalence.                     *)
LEMMA JoinFacts ==
  ASSUME NEW es \in Seq(Edge), NEW n \in Names
  PROVE  /\ Join(es, {n}) \in SUBSET Names /\ n \in Join(es, {n})
         /\ Out(es, Join(es, {n})) \cup In(es, Join(es, {n}))
              \subseteq Join(es, {n})
         /\ \A T \in SUBSET Names :
              n \in T /\ Out(es, T) \cup In(es, T) \subseteq T
                => Join(es, {n}) \subseteq T
<1>1. /\ Join(es, {n}) \in SUBSET Names /\ n \in Join(es, {n})
      /\ \A T \in SUBSET Names :
           n \in T /\ Out(es, T) \cup In(es, T) \subseteq T
             => Join(es, {n}) \subseteq T
  BY DEF Join
<1>2. ASSUME NEW m \in Out(es, Join(es, {n})) \cup In(es, Join(es, {n}))
      PROVE  m \in Join(es, {n})
  <2> SUFFICES ASSUME NEW T \in SUBSET Names, n \in T,
                      Out(es, T) \cup In(es, T) \subseteq T
               PROVE  m \in T
    BY OutDef DEF Join
  <2>1. Join(es, {n}) \subseteq T
    BY <1>1
  <2>2. /\ Out(es, Join(es, {n})) \subseteq Out(es, T)
        /\ In(es, Join(es, {n})) \subseteq In(es, T)
    BY <2>1 DEF Out, In
  <2> QED
    BY <1>2, <2>2
<1> QED
  BY <1>1, <1>2

LEMMA JoinAll ==
  ASSUME NEW es \in Seq(Edge), NEW ns \in SUBSET Names, NEW n \in ns,
         ns \subseteq Join(es, {n}), NEW m \in ns
  PROVE  ns \subseteq Join(es, {m})
<1> DEFINE J == Join(es, {m})
           C == Names \ J
<1>1. /\ J \in SUBSET Names /\ m \in J
      /\ Out(es, J) \subseteq J /\ In(es, J) \subseteq J
  BY JoinFacts
<1> HIDE DEF J
<1>2. C \in SUBSET Names /\ Out(es, C) \cup In(es, C) \subseteq C
  <2>1. ASSUME NEW k \in Out(es, C) PROVE k \in C
    <3>1. PICK i \in 1..Len(es) : es[i].from \in C /\ es[i].to = k
      BY <2>1, OutDef
    <3> QED
      BY <1>1, <3>1, OutDef
  <2>2. ASSUME NEW k \in In(es, C) PROVE k \in C
    <3>1. PICK i \in 1..Len(es) : es[i].to \in C /\ es[i].from = k
      BY <2>2, OutDef
    <3> QED
      BY <1>1, <3>1, OutDef
  <2> QED
    BY <2>1, <2>2
<1>3. n \in J
  <2> SUFFICES ASSUME n \in C PROVE FALSE
    OBVIOUS
  <2>1. Join(es, {n}) \subseteq C
    BY <1>2, JoinFacts
  <2> QED
    BY <1>1, <2>1
<1>4. Join(es, {n}) \subseteq J
  BY <1>1, <1>3, JoinFacts
<1> QED
  BY <1>4 DEF J

-----------------------------------------------------------------------------
(* The inductive invariant                                                 *)

Frames(es) == [node : Names, seen : 0..Len(es)]
StartsOf(v, ens, es, ns) ==
  IF v = "registered" THEN ens ELSE ns \ Out(es, Names)
Inside(es, ns) ==
  \A i \in 1..Len(es) : es[i].from \in ns /\ es[i].to \in ns

Quiet == "cycle" \notin errors

(* The names the search for cycles has done with.                          *)
Done == visited \ recStack

Typed ==
  /\ validator \in {"registered", "other"} /\ phase \in Phases
  /\ nodes \subseteq Names /\ entries \subseteq nodes /\ edges \in Seq(Edge)
  /\ visited \subseteq Names /\ recStack \subseteq visited
  /\ stack \in Seq(Frames(edges))
  /\ unwinding \in BOOLEAN
  /\ cycles \in Seq(Names \X Names)
  /\ marked \subseteq Names /\ unreachable \subseteq nodes
  /\ errors \subseteq ErrorTypes

(* The stack holds each name once, all of them on the path; it is empty    *)
(* before and after the search.                                            *)
Stacked ==
  /\ \A i \in 1..Len(stack) : stack[i].node \in recStack
  /\ \A i, j \in 1..Len(stack) : stack[i].node = stack[j].node => i = j
  /\ phase # "cycles" => stack = <<>>
  /\ phase = "check" => visited = {} /\ errors = {}

(* While no cycle has been found: what is on the path is on the stack, ... *)
OnPathStacked == \A n \in recStack : \E i \in 1..Len(stack) : n = stack[i].node

(* ... the stack is a path, ...                                            *)
PathReaches ==
  \A i, j \in 1..Len(stack) :
    i <= j => stack[i].node \in Reach(edges, {stack[j].node})

(* ... behind an edge a call has looked at is a name that is done with, or *)
(* the call it is waiting for, ...                                         *)
Behind ==
  \A i \in 1..Len(stack) : \A k \in 1..stack[i].seen :
    edges[k].from = stack[i].node =>
      edges[k].to \in Done \/ (i > 1 /\ edges[k].to = stack[i - 1].node)

(* ... and no edge leaves what is done with, nor does a path lead from one *)
(* of its names back to it.                                                *)
DoneAcyclic ==
  \A n \in Done :
    \E T \in SUBSET Done :
      Out(edges, {n}) \subseteq T /\ Out(edges, T) \subseteq T /\ n \notin T

Searches ==
  Quiet =>
    /\ ~unwinding /\ cycles = <<>>
    /\ visited \subseteq Reach(edges, nodes)
    /\ OnPathStacked /\ PathReaches /\ Behind
    /\ Out(edges, Done) \subseteq Done
    /\ DoneAcyclic

Verdicts ==
  /\ ~Quiet => HasCycle(edges, nodes) /\ cycles # <<>>
  /\ cycles # <<>> => cycles[1][1] \in Reach(edges, {cycles[1][2]})
  /\ "no nodes" \in errors => nodes = {} /\ phase = "done"
  /\ phase \notin {"check", "cycles"} /\ Quiet => nodes \subseteq visited

Marks ==
  /\ phase \in {"check", "cycles"} => marked = {}
  /\ phase = "marking" =>
       marked \subseteq
         Reach(edges, StartsOf(validator, entries, edges, nodes))
  /\ phase \in {"connecting", "done"} /\ "no nodes" \notin errors =>
       unreachable =
         nodes \ Reach(edges, StartsOf(validator, entries, edges, nodes))
  /\ phase = "connecting" =>
       \E n \in nodes : n \in marked /\ marked \subseteq Join(edges, {n})
  /\ "disconnected" \in errors => phase = "done"
  /\ phase = "done" /\ validator = "other" /\ Inside(edges, nodes) =>
       ("disconnected" \in errors <=>
          \E n \in nodes : ~ nodes \subseteq Join(edges, {n}))

IInv == Typed /\ Stacked /\ Searches /\ Verdicts /\ Marks

-----------------------------------------------------------------------------
(* The stack                                                               *)

LEMMA Pushed ==
  ASSUME NEW S, NEW s \in Seq(S), NEW f \in S
  PROVE  /\ <<f>> \o s \in Seq(S) /\ Len(<<f>> \o s) = Len(s) + 1
         /\ (<<f>> \o s)[1] = f
         /\ \A i \in 1..Len(s) : (<<f>> \o s)[i + 1] = s[i]
         /\ Len(s) \in Nat
<1>1. <<f>> \in Seq(S) /\ Len(<<f>>) = 1 /\ <<f>>[1] = f /\ Len(s) \in Nat
  BY LenProperties
<1>2. /\ <<f>> \o s \in Seq(S) /\ Len(<<f>> \o s) = Len(<<f>>) + Len(s)
      /\ \A i \in 1..(Len(<<f>>) + Len(s)) :
           (<<f>> \o s)[i] = IF i <= Len(<<f>>) THEN <<f>>[i]
                             ELSE s[i - Len(<<f>>)]
  BY <1>1, ConcatProperties
<1>3. \A i \in 1..Len(s) : (<<f>> \o s)[i + 1] = s[i]
  <2> TAKE i \in 1..Len(s)
  <2>1. i + 1 \in 1..(1 + Len(s)) /\ ~(i + 1 <= 1) /\ (i + 1) - 1 = i
    BY <1>1
  <2> QED
    BY <1>1, <1>2, <2>1
<1> QED
  BY <1>1, <1>2, <1>3

LEMMA Popped ==
  ASSUME NEW S, NEW s \in Seq(S), s # <<>>
  PROVE  /\ Tail(s) \in Seq(S) /\ Len(Tail(s)) = Len(s) - 1
         /\ \A i \in 1..(Len(s) - 1) : Tail(s)[i] = s[i + 1]
         /\ Head(s) = s[1] /\ s[1] \in S /\ Len(s) \in Nat /\ Len(s) >= 1
BY HeadTailProperties, EmptySeq, LenProperties

(* The frames of a search in progress.                                     *)
LEMMA TopFacts ==
  ASSUME Typed, stack # <<>>
  PROVE  /\ Top = stack[1] /\ Len(stack) \in Nat /\ Len(stack) >= 1
         /\ Top = [node |-> Top.node, seen |-> Top.seen]
         /\ Top.node \in Names /\ Top.seen \in 0..Len(edges)
         /\ Len(edges) \in Nat
         /\ Tail(stack) \in Seq(Frames(edges))
         /\ Len(Tail(stack)) = Len(stack) - 1
         /\ \A i \in 1..(Len(stack) - 1) : Tail(stack)[i] = stack[i + 1]
<1>1. stack \in Seq(Frames(edges)) /\ Len(edges) \in Nat
  BY LenProperties DEF Typed
<1>2. Top = stack[1] /\ Top \in Frames(edges)
  BY <1>1, Popped DEF Top
<1>3. /\ Top = [node |-> Top.node, seen |-> Top.seen]
      /\ Top.node \in Names /\ Top.seen \in 0..Len(edges)
  BY <1>2 DEF Frames
<1> QED
  BY <1>1, <1>2, <1>3, Popped

LEMMA PassedFacts ==
  ASSUME Typed, stack # <<>>, EdgesLeft
  PROVE  /\ Passed \in Seq(Frames(edges)) /\ Len(Passed) = Len(stack)
         /\ Passed[1] = [node |-> stack[1].node, seen |-> stack[1].seen + 1]
         /\ \A i \in 1..Len(stack) : i > 1 => Passed[i] = stack[i]
         /\ Top.seen + 1 \in 1..Len(edges)
         /\ Ahead.from \in Names /\ Ahead.to \in Names
<1>1. Top.seen + 1 \in 1..Len(edges)
  BY TopFacts DEF EdgesLeft
<1>2. [Top EXCEPT !.seen = @ + 1] = [node |-> Top.node, seen |-> Top.seen + 1]
  BY TopFacts
<1>3. [node |-> Top.node, seen |-> Top.seen + 1] \in Frames(edges)
  BY <1>1, TopFacts DEF Frames
<1>4. /\ Passed \in Seq(Frames(edges)) /\ Len(Passed) = Len(Tail(stack)) + 1
      /\ Passed[1] = [node |-> Top.node, seen |-> Top.seen + 1]
      /\ \A i \in 1..Len(Tail(stack)) : Passed[i + 1] = Tail(stack)[i]
  BY <1>2, <1>3, TopFacts, Pushed DEF Passed
<1>5. \A i \in 1..Len(stack) : i > 1 => Passed[i] = stack[i]
  <2> SUFFICES ASSUME NEW i \in 1..Len(stack), i > 1
               PROVE  Passed[i] = stack[i]
    OBVIOUS
  <2>1. i - 1 \in 1..(Len(stack) - 1) /\ (i - 1) + 1 = i
    BY TopFacts
  <2> QED
    BY <1>4, <2>1, TopFacts
<1>6. Ahead.from \in Names /\ Ahead.to \in Names
  BY <1>1, OutDef DEF Ahead, Typed
<1> QED
  BY <1>1, <1>4, <1>5, <1>6, TopFacts

(* The graph does not change, and while the search goes on no node is      *)
(* marked.                                                                 *)
LEMMA SearchKeeps ==
  ASSUME IInv, Searching, phase' = phase,
         errors' = errors \/ errors' = errors \cup {"cycle"}
  PROVE  /\ UNCHANGED <<validator, nodes, entries, edges, marked,
                        unreachable>>
         /\ phase = "cycles" /\ errors' \subseteq ErrorTypes
         /\ Marks' /\ "no nodes" \notin errors'
<1>1. /\ UNCHANGED <<validator, nodes, entries, edges, marked, unreachable>>
      /\ phase = "cycles" /\ phase' = "cycles"
  BY DEF Searching, graphVars
<1>2. errors' \subseteq ErrorTypes
  BY DEF IInv, Typed, ErrorTypes
<1>3. "no nodes" \notin errors' /\ "disconnected" \notin errors'
  BY <1>1 DEF IInv, Verdicts, Marks
<1> QED
  BY <1>1, <1>2, <1>3 DEF IInv, Marks

-----------------------------------------------------------------------------
(* The search for cycles                                                   *)

LEMMA RootStep ==
  ASSUME IInv, NEW n \in Names, Root(n)
  PROVE  IInv'
<1>1. /\ Searching /\ stack = <<>> /\ n \in nodes /\ n \notin visited
      /\ visited' = visited \cup {n} /\ recStack' = recStack \cup {n}
      /\ stack' = <<[node |-> n, seen |-> 0]>> \o <<>>
      /\ UNCHANGED <<phase, unwinding, cycles, errors>>
  BY DEF Root, Call, EnterPath
<1>2. /\ UNCHANGED <<validator, nodes, entries, edges, marked, unreachable>>
      /\ phase = "cycles" /\ Marks'
  BY <1>1, SearchKeeps
<1>3. /\ stack' = <<[node |-> n, seen |-> 0]>>
      /\ stack' \in Seq(Frames(edges)) /\ Len(stack') = 1
      /\ stack'[1] = [node |-> n, seen |-> 0]
  <2>1. [node |-> n, seen |-> 0] \in Frames(edges)
    BY LenProperties DEF Frames, IInv, Typed
  <2>2. <<[node |-> n, seen |-> 0]>> \in Seq(Frames(edges))
    BY <2>1
  <2>3. stack' = <<[node |-> n, seen |-> 0]>>
    BY <1>1, <2>2, ConcatEmptySeq
  <2> QED
    BY <2>2, <2>3
<1>4. Typed'
  BY <1>1, <1>2, <1>3 DEF IInv, Typed
<1>5. Stacked'
  BY <1>1, <1>2, <1>3 DEF Stacked
<1>6. ASSUME Quiet PROVE Searches'
  <2>1. /\ recStack = {} /\ Done' = Done
        /\ visited \subseteq Reach(edges, nodes)
    <3>1. recStack = {}
      BY <1>1, <1>6 DEF IInv, Searches, OnPathStacked
    <3> QED
      BY <1>1, <1>6, <3>1 DEF Done, IInv, Searches
  <2>2. OnPathStacked'
    BY <1>1, <1>3, <2>1 DEF OnPathStacked
  <2>3. n \in Reach(edges, {n}) /\ n \in Reach(edges, nodes)
    BY <1>1, ReachFacts DEF IInv, Typed
  <2>4. PathReaches' /\ Behind'
    BY <1>2, <1>3, <2>3 DEF PathReaches, Behind
  <2>5. Out(edges, Done)' = Out(edges, Done) /\ DoneAcyclic'
    BY <1>2, <1>6, <2>1 DEF DoneAcyclic, IInv, Searches
  <2> QED
    BY <1>1, <1>2, <1>6, <2>1, <2>2, <2>3, <2>4, <2>5
       DEF Searches, IInv, Quiet
<1>7. Searches'
  BY <1>1, <1>6 DEF Searches, Quiet
<1>8. Verdicts'
  BY <1>1, <1>2 DEF IInv, Verdicts, Quiet
<1> QED
  BY <1>2, <1>4, <1>5, <1>7, <1>8 DEF IInv

LEMMA DescendStep == ASSUME IInv, Descend PROVE IInv'
<1> DEFINE n == Ahead.to
<1>1. /\ Searching /\ stack # <<>> /\ EdgesLeft
      /\ Ahead.from = Top.node /\ n \notin visited
      /\ visited' = visited \cup {n} /\ recStack' = recStack \cup {n}
      /\ stack' = <<[node |-> n, seen |-> 0]>> \o Passed
      /\ UNCHANGED <<phase, unwinding, cycles, errors>>
  BY DEF Descend, Active, Call, EnterPath
<1>2. /\ UNCHANGED <<validator, nodes, entries, edges, marked, unreachable>>
      /\ phase = "cycles" /\ Marks'
  BY <1>1, SearchKeeps
<1>3. /\ n \in Names /\ Len(stack) \in Nat /\ Len(stack) >= 1
      /\ stack' \in Seq(Frames(edges)) /\ Len(stack') = Len(stack) + 1
      /\ stack'[1] = [node |-> n, seen |-> 0]
      /\ stack'[2] = [node |-> stack[1].node, seen |-> stack[1].seen + 1]
      /\ \A i \in 1..Len(stack) : i > 1 => stack'[i + 1] = stack[i]
  <2>1. n \in Names /\ [node |-> n, seen |-> 0] \in Frames(edges)
    BY <1>1, PassedFacts, TopFacts DEF IInv, Frames
  <2>2. /\ Len(stack) \in Nat /\ Len(stack) >= 1
        /\ Passed \in Seq(Frames(edges)) /\ Len(Passed) = Len(stack)
        /\ Passed[1] = [node |-> stack[1].node, seen |-> stack[1].seen + 1]
        /\ \A i \in 1..Len(stack) : i > 1 => Passed[i] = stack[i]
    BY <1>1, PassedFacts, TopFacts DEF IInv
  <2>3. /\ stack' \in Seq(Frames(edges)) /\ Len(stack') = Len(Passed) + 1
        /\ stack'[1] = [node |-> n, seen |-> 0]
        /\ \A i \in 1..Len(Passed) : stack'[i + 1] = Passed[i]
    BY <1>1, <2>1, <2>2, Pushed
  <2>4. stack'[1 + 1] = Passed[1]
    BY <2>2, <2>3
  <2> QED
    BY <2>1, <2>2, <2>3, <2>4
<1>4. /\ \A i \in 1..Len(stack) : stack'[i + 1].node = stack[i].node
      /\ \A j \in 1..Len(stack') : j = 1 \/ j - 1 \in 1..Len(stack)
      /\ \A j \in 1..Len(stack') : j > 1 => stack'[j].node = stack[j - 1].node
  <2>1. \A i \in 1..Len(stack) : stack'[i + 1].node = stack[i].node
    BY <1>3
  <2>2. ASSUME NEW j \in 1..Len(stack'), j > 1
        PROVE  stack'[j].node = stack[j - 1].node
    <3>1. j - 1 \in 1..Len(stack) /\ (j - 1) + 1 = j
      BY <1>3, <2>2
    <3> QED
      BY <2>1, <3>1
  <2> QED
    BY <1>3, <2>1, <2>2
<1> HIDE DEF n
<1>5. Typed'
  BY <1>1, <1>2, <1>3 DEF IInv, Typed
<1>6. Stacked'
  <2>1. \A j \in 1..Len(stack') :
          \/ j = 1 /\ stack'[j].node = n
          \/ j - 1 \in 1..Len(stack) /\ stack'[j].node = stack[j - 1].node
             /\ stack'[j].node \in recStack
    <3> TAKE j \in 1..Len(stack')
    <3>1. CASE j = 1
      BY <1>3, <3>1
    <3>2. CASE j > 1
      BY <1>4, <3>2 DEF IInv, Stacked
    <3> QED
      BY <3>1, <3>2, <1>3
  <2>2. n \notin recStack
    BY <1>1 DEF IInv, Typed
  <2>3. \A i, j \in 1..Len(stack') :
          stack'[i].node = stack'[j].node => i = j
    <3> SUFFICES ASSUME NEW i \in 1..Len(stack'), NEW j \in 1..Len(stack'),
                        stack'[i].node = stack'[j].node
                 PROVE  i = j
      OBVIOUS
    <3>1. (i = 1) = (j = 1)
      BY <2>1, <2>2
    <3>2. CASE i # 1 /\ j # 1
      <4>1. /\ i - 1 \in 1..Len(stack) /\ j - 1 \in 1..Len(stack)
            /\ stack[i - 1].node = stack[j - 1].node
        BY <2>1, <3>2
      <4>2. i - 1 = j - 1
        BY <4>1 DEF IInv, Stacked
      <4> QED
        BY <1>3, <4>2
    <3> QED
      BY <3>1, <3>2
  <2> QED
    BY <1>1, <1>2, <2>1, <2>3 DEF Stacked
<1>7. ASSUME Quiet PROVE Searches'
  <2>1. Done' = Done
    BY <1>1 DEF Done, IInv, Typed
  <2>2. OnPathStacked'
    <3> SUFFICES ASSUME NEW m \in recStack'
                 PROVE  \E j \in 1..Len(stack') : m = stack'[j].node
      BY DEF OnPathStacked
    <3>1. CASE m = n
      BY <1>3, <3>1
    <3>2. CASE m \in recStack
      <4>1. PICK i \in 1..Len(stack) : m = stack[i].node
        BY <1>7, <3>2 DEF IInv, Searches, OnPathStacked
      <4> QED
        BY <1>3, <1>4, <4>1
    <3> QED
      BY <1>1, <3>1, <3>2
  <2>3. /\ Top.seen + 1 \in 1..Len(edges) /\ Top = stack[1]
        /\ edges[Top.seen + 1].from = stack[1].node
        /\ edges[Top.seen + 1].to = n
    BY <1>1, PassedFacts, TopFacts DEF IInv, Ahead, n
  <2>4. \A j \in 1..Len(stack) : n \in Reach(edges, {stack[j].node})
    <3> TAKE j \in 1..Len(stack)
    <3>1. stack[1].node \in Reach(edges, {stack[j].node})
      BY <1>3, <1>7 DEF IInv, Searches, PathReaches
    <3>2. stack[j].node \in Names
      BY DEF IInv, Stacked, Typed
    <3> QED
      BY <2>3, <3>1, <3>2, ReachStep DEF IInv, Typed
  <2>5. PathReaches'
    <3> SUFFICES ASSUME NEW i \in 1..Len(stack'), NEW j \in 1..Len(stack'),
                        i <= j
                 PROVE  stack'[i].node \in Reach(edges, {stack'[j].node})
      BY <1>2 DEF PathReaches
    <3>1. CASE j = 1
      <4>1. n \in Reach(edges, {n})
        BY <1>3, ReachFacts DEF IInv, Typed
      <4>2. stack'[i].node = n /\ stack'[j].node = n
        BY <1>3, <3>1
      <4> QED
        BY <4>1, <4>2
    <3>2. CASE i = 1 /\ j > 1
      <4>1. j - 1 \in 1..Len(stack) /\ stack'[j].node = stack[j - 1].node
        BY <1>4, <3>2
      <4>2. stack'[i].node = n
        BY <1>3, <3>2
      <4>3. n \in Reach(edges, {stack[j - 1].node})
        BY <2>4, <4>1
      <4> QED
        BY <4>1, <4>2, <4>3
    <3>3. CASE i > 1 /\ j > 1
      <4>1. /\ i - 1 \in 1..Len(stack) /\ j - 1 \in 1..Len(stack)
            /\ i - 1 <= j - 1
        BY <1>3, <3>3
      <4>2. stack[i - 1].node \in Reach(edges, {stack[j - 1].node})
        BY <1>7, <4>1 DEF IInv, Searches, PathReaches
      <4> QED
        BY <1>4, <3>3, <4>2
    <3> QED
      BY <3>1, <3>2, <3>3, <1>3
  <2>6. Behind'
    <3> SUFFICES ASSUME NEW i \in 1..Len(stack'), NEW k \in 1..stack'[i].seen,
                        edges[k].from = stack'[i].node
                 PROVE  \/ edges[k].to \in Done
                        \/ i > 1 /\ edges[k].to = stack'[i - 1].node
      BY <1>2, <2>1 DEF Behind
    <3>1. CASE i = 1
      BY <1>3, <3>1
    <3>2. CASE i = 2
      <4>1. /\ stack'[i].node = stack[1].node
            /\ stack'[i].seen = stack[1].seen + 1 /\ i - 1 = 1
        BY <1>3, <3>2
      <4>2. stack[1].seen \in Nat
        BY <1>1, TopFacts, LenProperties DEF IInv
      <4>3. CASE k \in 1..stack[1].seen
        <5>1. 1 \in 1..Len(stack)
          BY <1>3
        <5> QED
          BY <1>7, <4>1, <4>3, <5>1 DEF IInv, Searches, Behind
      <4>4. CASE k = stack[1].seen + 1
        BY <1>3, <2>3, <4>1, <4>4
      <4> QED
        BY <4>1, <4>2, <4>3, <4>4
    <3>3. CASE i > 2
      <4>1. /\ i - 1 \in 1..Len(stack) /\ i - 1 > 1 /\ (i - 1) + 1 = i
            /\ i - 1 \in 1..Len(stack') /\ i - 2 \in 1..Len(stack)
            /\ (i - 1) - 1 = i - 2
        BY <1>3, <3>3
      <4>2. stack'[i] = stack[i - 1] /\ stack'[i - 1].node = stack[i - 2].node
        BY <1>3, <1>4, <4>1
      <4>3. \/ edges[k].to \in Done
            \/ edges[k].to = stack[(i - 1) - 1].node
        BY <1>7, <4>1, <4>2 DEF IInv, Searches, Behind
      <4> QED
        BY <4>1, <4>2, <4>3
    <3> QED
      BY <3>1, <3>2, <3>3, <1>3
  <2>7. n \in Reach(edges, nodes)
    <3>1. stack[1].node \in Reach(edges, nodes)
      BY <1>3, <1>7 DEF IInv, Searches, Stacked, Typed
    <3>2. n \in Out(edges, Reach(edges, nodes))
      BY <2>3, <3>1, OutDef DEF IInv, Typed
    <3> QED
      BY <3>2, ReachFacts DEF IInv, Typed
  <2>8. Out(edges, Done)' = Out(edges, Done) /\ DoneAcyclic'
    BY <1>2, <1>7, <2>1 DEF DoneAcyclic, IInv, Searches
  <2> QED
    BY <1>1, <1>2, <1>7, <2>1, <2>2, <2>5, <2>6, <2>7, <2>8
       DEF Searches, IInv, Quiet
<1>8. Searches'
  BY <1>1, <1>7 DEF Searches, Quiet
<1>9. Verdicts'
  BY <1>1, <1>2 DEF IInv, Verdicts, Quiet
<1> QED
  BY <1>2, <1>5, <1>6, <1>8, <1>9 DEF IInv

LEMMA SkipStep == ASSUME IInv, Skip PROVE IInv'
<1>1. /\ Searching /\ stack # <<>> /\ EdgesLeft
      /\ \/ Ahead.from # Top.node
         \/ Ahead.to \in visited /\ Ahead.to \notin recStack
      /\ stack' = Passed
      /\ UNCHANGED <<phase, visited, recStack, unwinding, cycles, errors>>
  BY DEF Skip, Active, OnPath
<1>2. /\ UNCHANGED <<validator, nodes, entries, edges, marked, unreachable>>
      /\ phase = "cycles" /\ Marks'
  BY <1>1, SearchKeeps
<1>3. /\ stack' \in Seq(Frames(edges)) /\ Len(stack') = Len(stack)
      /\ Len(stack) \in Nat /\ Len(stack) >= 1
      /\ stack'[1] = [node |-> stack[1].node, seen |-> stack[1].seen + 1]
      /\ \A i \in 1..Len(stack) : i > 1 => stack'[i] = stack[i]
      /\ Top.seen + 1 \in 1..Len(edges) /\ Top = stack[1]
  BY <1>1, PassedFacts, TopFacts DEF IInv
<1>4. \A i \in 1..Len(stack) : stack'[i].node = stack[i].node
  BY <1>3
<1>5. Typed'
  BY <1>1, <1>2, <1>3 DEF IInv, Typed
<1>6. Stacked'
  BY <1>1, <1>2, <1>3, <1>4 DEF IInv, Stacked
<1>7. ASSUME Quiet PROVE Searches'
  <2>1. Done' = Done /\ OnPathStacked'
    BY <1>1, <1>3, <1>4, <1>7 DEF Done, OnPathStacked, IInv, Searches
  <2>2. PathReaches'
    <3> SUFFICES ASSUME NEW i \in 1..Len(stack), NEW j \in 1..Len(stack),
                        i <= j
                 PROVE  stack'[i].node \in Reach(edges, {stack'[j].node})
      BY <1>2, <1>3 DEF PathReaches
    <3>1. stack[i].node \in Reach(edges, {stack[j].node})
      BY <1>7 DEF IInv, Searches, PathReaches
    <3>2. stack'[i].node = stack[i].node /\ stack'[j].node = stack[j].node
      BY <1>4
    <3> QED
      BY <3>1, <3>2
  <2>3. Behind'
    <3> SUFFICES ASSUME NEW i \in 1..Len(stack), NEW k \in 1..stack'[i].seen,
                        edges[k].from = stack[i].node
                 PROVE  \/ edges[k].to \in Done
                        \/ i > 1 /\ edges[k].to = stack[i - 1].node
      <4>1. \A i \in 1..Len(stack) : i > 1 =>
               stack'[i - 1].node = stack[i - 1].node
        BY <1>3, <1>4
      <4> QED
        BY <1>2, <1>3, <1>4, <2>1, <4>1 DEF Behind
    <3>1. CASE k \in 1..stack[i].seen
      BY <1>7, <3>1 DEF IInv, Searches, Behind
    <3>2. CASE k \notin 1..stack[i].seen
      <4>1. i = 1
        BY <1>3, <3>2
      <4>2. stack'[1].seen = stack[1].seen + 1 /\ stack[1].seen \in Nat
        BY <1>1, <1>3, TopFacts DEF IInv
      <4>3. k = Top.seen + 1
        BY <1>3, <3>2, <4>1, <4>2
      <4>4. edges[k].to \in Done
        BY <1>1, <1>3, <4>1, <4>3 DEF Ahead, Done
      <4> QED
        BY <4>4
    <3> QED
      BY <3>1, <3>2
  <2>4. Out(edges, Done)' = Out(edges, Done) /\ DoneAcyclic'
    BY <1>2, <1>7, <2>1 DEF DoneAcyclic, IInv, Searches
  <2> QED
    BY <1>1, <1>2, <1>7, <2>1, <2>2, <2>3, <2>4 DEF Searches, IInv, Quiet
<1>8. Searches'
  BY <1>1, <1>7 DEF Searches, Quiet
<1>9. Verdicts'
  BY <1>1, <1>2 DEF IInv, Verdicts, Quiet
<1> QED
  BY <1>2, <1>5, <1>6, <1>8, <1>9 DEF IInv

(* Taking the top off the stack.                                           *)
LEMMA PopKeeps ==
  ASSUME IInv, stack # <<>>, stack' = Tail(stack),
         UNCHANGED <<edges, phase>>, phase = "cycles",
         recStack' = recStack \/ recStack' = recStack \ {stack[1].node}
  PROVE  /\ stack' \in Seq(Frames(edges)) /\ Len(stack') = Len(stack) - 1
         /\ Len(stack) \in Nat /\ Len(stack) >= 1
         /\ \A i \in 1..Len(stack') : stack'[i] = stack[i + 1]
         /\ Stacked'
<1>1. /\ stack' \in Seq(Frames(edges)) /\ Len(stack') = Len(stack) - 1
      /\ Len(stack) \in Nat /\ Len(stack) >= 1
      /\ \A i \in 1..Len(stack') : stack'[i] = stack[i + 1]
  BY TopFacts DEF IInv
<1>2. \A i \in 1..Len(stack') :
        /\ i + 1 \in 1..Len(stack) /\ i + 1 # 1 /\ 1 \in 1..Len(stack)
        /\ stack'[i].node = stack[i + 1].node
  BY <1>1
<1>3. \A i \in 1..Len(stack') : stack'[i].node \in recStack'
  BY <1>2 DEF IInv, Stacked
<1>4. \A i, j \in 1..Len(stack') : stack'[i].node = stack'[j].node => i = j
  <2> SUFFICES ASSUME NEW i \in 1..Len(stack'), NEW j \in 1..Len(stack'),
                      stack'[i].node = stack'[j].node
               PROVE  i = j
    OBVIOUS
  <2>1. i + 1 = j + 1
    BY <1>2 DEF IInv, Stacked
  <2> QED
    BY <1>1, <2>1
<1> QED
  BY <1>1, <1>3, <1>4 DEF Stacked

LEMMA ReportStep == ASSUME IInv, ReportCycle PROVE IInv'
<1> DEFINE m == Ahead.to
           n == stack[1].node
<1>1. /\ Searching /\ stack # <<>> /\ EdgesLeft
      /\ Ahead.from = Top.node /\ m \in visited /\ m \in recStack
      /\ cycles' = Append(cycles, <<Top.node, m>>)
      /\ errors' = errors \cup {"cycle"} /\ unwinding' = TRUE
      /\ stack' = Tail(stack)
      /\ UNCHANGED <<phase, visited, recStack>>
  BY DEF ReportCycle, Active, OnPath
<1>2. /\ UNCHANGED <<validator, nodes, entries, edges, marked, unreachable>>
      /\ phase = "cycles" /\ Marks' /\ errors' \subseteq ErrorTypes
      /\ "no nodes" \notin errors'
  BY <1>1, SearchKeeps
<1>3. stack' \in Seq(Frames(edges)) /\ Stacked'
  BY <1>1, <1>2, PopKeeps
<1>4. /\ Top.node = n /\ n \in Names /\ m \in Names /\ 1 \in 1..Len(stack)
      /\ n \in visited
      /\ Top.seen + 1 \in 1..Len(edges)
      /\ edges[Top.seen + 1].from = n /\ edges[Top.seen + 1].to = m
  <2>1. /\ Top.node = n /\ n \in Names /\ m \in Names /\ 1 \in 1..Len(stack)
        /\ Top.seen + 1 \in 1..Len(edges)
        /\ edges[Top.seen + 1].from = n /\ edges[Top.seen + 1].to = m
    BY <1>1, TopFacts, PassedFacts DEF IInv, Ahead
  <2> QED
    BY <2>1 DEF IInv, Stacked, Typed
<1> HIDE DEF m, n
<1>5. /\ cycles' \in Seq(Names \X Names) /\ cycles' # <<>>
      /\ cycles = <<>> => cycles'[1] = <<n, m>>
      /\ cycles # <<>> => cycles'[1] = cycles[1]
  <2>1. cycles \in Seq(Names \X Names) /\ <<n, m>> \in Names \X Names
    BY <1>4 DEF IInv, Typed
  <2>2. /\ cycles' \in Seq(Names \X Names) /\ Len(cycles') = Len(cycles) + 1
        /\ \A i \in 1..Len(cycles) : cycles'[i] = cycles[i]
        /\ cycles'[Len(cycles) + 1] = <<n, m>>
    BY <1>1, <1>4, <2>1, AppendProperties
  <2>3. Len(cycles) \in Nat /\ (cycles = <<>> <=> Len(cycles) = 0)
    BY <2>1, EmptySeq, LenProperties
  <2>4. cycles' # <<>>
    BY <2>2, <2>3
  <2> QED
    BY <2>2, <2>3, <2>4
<1>6. Typed'
  BY <1>1, <1>2, <1>3, <1>5 DEF IInv, Typed
<1>7. ASSUME Quiet
      PROVE  HasCycle(edges, nodes) /\ n \in Reach(edges, {m})
  <2>1. PICK j \in 1..Len(stack) : m = stack[j].node
    BY <1>1, <1>7 DEF IInv, Searches, OnPathStacked
  <2>2. n \in Reach(edges, {stack[j].node})
    BY <1>4, <1>7, <2>1 DEF IInv, Searches, PathReaches, n
  <2>3. n \in Reach(edges, {m})
    BY <2>1, <2>2
  <2>4. m \in Out(edges, {n}) /\ Out(edges, {n}) \in SUBSET Names
    BY <1>4, OutDef DEF IInv, Typed
  <2>5. n \in Reach(edges, Out(edges, {n}))
    <3>1. \A S \in SUBSET Names :
            m \in S => Reach(edges, {m}) \subseteq Reach(edges, S)
      BY <1>4, ReachFacts, ReachMono DEF IInv, Typed
    <3> QED
      BY <2>3, <2>4, <3>1
  <2>6. n \in Reach(edges, nodes)
    BY <1>4, <1>7 DEF IInv, Searches
  <2> QED
    BY <2>3, <2>5, <2>6 DEF HasCycle
<1>8. Verdicts'
  <2>1. HasCycle(edges, nodes)
    BY <1>7 DEF IInv, Verdicts
  <2>2. cycles'[1][1] \in Reach(edges, {cycles'[1][2]})
    <3>1. CASE cycles = <<>>
      <4>1. Quiet
        BY <3>1 DEF IInv, Verdicts
      <4>2. cycles'[1][1] = n /\ cycles'[1][2] = m
        BY <1>5, <3>1
      <4> QED
        BY <1>7, <4>1, <4>2
    <3>2. CASE cycles # <<>>
      BY <1>5, <3>2 DEF IInv, Verdicts
    <3> QED
      BY <3>1, <3>2
  <2> QED
    BY <1>1, <1>2, <1>5, <2>1, <2>2 DEF Verdicts, Quiet
<1>9. Searches'
  BY <1>1 DEF Searches, Quiet
<1> QED
  BY <1>2, <1>3, <1>6, <1>8, <1>9 DEF IInv

LEMMA ReturnFalseStep == ASSUME IInv, ReturnFalse PROVE IInv'
<1> DEFINE n == stack[1].node
<1>1. /\ Searching /\ stack # <<>> /\ ~EdgesLeft
      /\ recStack' = recStack \ {Top.node}
      /\ stack' = Tail(stack)
      /\ UNCHANGED <<phase, visited, unwinding, cycles, errors>>
  BY DEF ReturnFalse, Active, LeavePath
<1>2. /\ UNCHANGED <<validator, nodes, entries, edges, marked, unreachable>>
      /\ phase = "cycles" /\ Marks'
  BY <1>1, SearchKeeps
<1>3. /\ Top.node = n /\ 1 \in 1..Len(stack) /\ n \in recStack
      /\ n \in visited /\ stack[1].seen = Len(edges)
  <2>1. Top.node = n /\ 1 \in 1..Len(stack) /\ stack[1].seen = Len(edges)
    BY <1>1, TopFacts DEF IInv, EdgesLeft
  <2> QED
    BY <2>1 DEF IInv, Stacked, Typed
<1>4. /\ stack' \in Seq(Frames(edges)) /\ Len(stack') = Len(stack) - 1
      /\ Len(stack) \in Nat /\ Len(stack) >= 1
      /\ \A i \in 1..Len(stack') : stack'[i] = stack[i + 1]
      /\ Stacked'
  BY <1>1, <1>2, <1>3, PopKeeps
<1>5. Typed'
  BY <1>1, <1>2, <1>4 DEF IInv, Typed
<1>6. ASSUME Quiet PROVE Searches'
  <2>1. Done' = Done \cup {n} /\ n \notin Done
    BY <1>1, <1>3 DEF Done
  <2>2. OnPathStacked'
    <3> SUFFICES ASSUME NEW m \in recStack, m # n
                 PROVE  \E i \in 1..Len(stack') : m = stack'[i].node
      BY <1>1, <1>3 DEF OnPathStacked
    <3>1. PICK i \in 1..Len(stack) : m = stack[i].node
      BY <1>6 DEF IInv, Searches, OnPathStacked
    <3>2. i - 1 \in 1..Len(stack') /\ (i - 1) + 1 = i
      BY <1>4, <3>1
    <3> QED
      BY <1>4, <3>1, <3>2
  <2>3. PathReaches'
    <3> SUFFICES ASSUME NEW i \in 1..Len(stack'), NEW j \in 1..Len(stack'),
                        i <= j
                 PROVE  stack'[i].node \in Reach(edges, {stack'[j].node})
      BY <1>2 DEF PathReaches
    <3>1. i + 1 \in 1..Len(stack) /\ j + 1 \in 1..Len(stack) /\ i + 1 <= j + 1
      BY <1>4
    <3>2. stack[i + 1].node \in Reach(edges, {stack[j + 1].node})
      BY <1>6, <3>1 DEF IInv, Searches, PathReaches
    <3>3. stack'[i] = stack[i + 1] /\ stack'[j] = stack[j + 1]
      BY <1>4
    <3> QED
      BY <3>2, <3>3
  <2>4. Behind'
    <3> SUFFICES ASSUME NEW i \in 1..Len(stack'), NEW k \in 1..stack'[i].seen,
                        edges[k].from = stack'[i].node
                 PROVE  \/ edges[k].to \in Done \cup {n}
                        \/ i > 1 /\ edges[k].to = stack'[i - 1].node
      BY <1>2, <2>1 DEF Behind
    <3>1. /\ i + 1 \in 1..Len(stack) /\ (i + 1) - 1 = i
          /\ stack'[i] = stack[i + 1]
      BY <1>4
    <3>2. edges[k].to \in Done \/ edges[k].to = stack[i].node
      BY <1>6, <3>1 DEF IInv, Searches, Behind
    <3>3. i = 1 \/ (i > 1 /\ stack'[i - 1].node = stack[i].node)
      <4> SUFFICES ASSUME i # 1
                   PROVE  i > 1 /\ stack'[i - 1].node = stack[i].node
        OBVIOUS
      <4>1. i - 1 \in 1..Len(stack') /\ (i - 1) + 1 = i
        BY <1>4
      <4> QED
        BY <1>4, <4>1
    <3> QED
      BY <3>2, <3>3
  <2>5. Out(edges, {n}) \subseteq Done
    <3> SUFFICES ASSUME NEW m \in Out(edges, {n}) PROVE m \in Done
      OBVIOUS
    <3>1. PICK k \in 1..Len(edges) : edges[k].from = n /\ edges[k].to = m
      BY OutDef DEF IInv, Typed
    <3> QED
      BY <1>3, <1>6, <3>1 DEF IInv, Searches, Behind
  <2>6. Out(edges, Done \cup {n}) \subseteq Done
    <3>1. Out(edges, Done \cup {n}) = Out(edges, Done) \cup Out(edges, {n})
      BY OutUnion DEF IInv, Typed
    <3>2. Out(edges, Done) \subseteq Done
      BY <1>6 DEF IInv, Searches
    <3> QED
      BY <2>5, <3>1, <3>2
  <2>7. DoneAcyclic'
    <3> SUFFICES ASSUME NEW m \in Done \cup {n}
                 PROVE  \E T \in SUBSET (Done \cup {n}) :
                          /\ Out(edges, {m}) \subseteq T
                          /\ Out(edges, T) \subseteq T /\ m \notin T
      BY <1>2, <2>1 DEF DoneAcyclic
    <3>1. CASE m = n
      <4>1. Out(edges, Done) \subseteq Done
        BY <1>6 DEF IInv, Searches
      <4> QED
        BY <2>1, <2>5, <3>1, <4>1
    <3>2. CASE m \in Done
      BY <1>6, <3>2 DEF IInv, Searches, DoneAcyclic
    <3> QED
      BY <3>1, <3>2
  <2>8. Out(edges, Done)' = Out(edges, Done \cup {n})
    BY <1>2, <2>1
  <2> QED
    BY <1>1, <1>2, <1>6, <2>1, <2>2, <2>3, <2>4, <2>6, <2>7, <2>8
       DEF Searches, IInv, Quiet
<1>7. Searches'
  BY <1>1, <1>6 DEF Searches, Quiet
<1>8. Verdicts'
  BY <1>1, <1>2 DEF IInv, Verdicts, Quiet
<1> QED
  BY <1>2, <1>4, <1>5, <1>7, <1>8 DEF IInv

LEMMA ReturnTrueStep == ASSUME IInv, ReturnTrue PROVE IInv'
<1>1. /\ Searching /\ stack # <<>> /\ unwinding /\ stack' = Tail(stack)
      /\ UNCHANGED <<phase, visited, recStack, unwinding, cycles, errors>>
      /\ ~Quiet
  BY DEF ReturnTrue, IInv, Searches
<1>2. /\ UNCHANGED <<validator, nodes, entries, edges, marked, unreachable>>
      /\ phase = "cycles" /\ Marks'
  BY <1>1, SearchKeeps
<1>3. stack' \in Seq(Frames(edges)) /\ Stacked'
  BY <1>1, <1>2, PopKeeps
<1>4. Typed'
  BY <1>1, <1>2, <1>3 DEF IInv, Typed
<1>5. Searches' /\ Verdicts'
  BY <1>1, <1>2 DEF IInv, Searches, Verdicts, Quiet
<1> QED
  BY <1>2, <1>3, <1>4, <1>5 DEF IInv

LEMMA SearchEnds == ASSUME IInv, Caught \/ EndSearch PROVE IInv'
<1>1. /\ stack = <<>> /\ phase = "cycles" /\ phase' \in {"cycles", "marking"}
      /\ UNCHANGED <<visited, recStack, stack, cycles, errors, validator,
                     nodes, entries, edges, marked, unreachable>>
      /\ unwinding' = FALSE
      /\ ~Quiet \/ nodes \subseteq visited
  BY DEF Caught, EndSearch, Searching, Searched, searchVars, graphVars, IInv,
     Searches, Typed
<1>2. Typed'
  BY <1>1 DEF IInv, Typed, Phases
<1>3. Stacked'
  BY <1>1 DEF IInv, Stacked
<1>4. ASSUME Quiet PROVE Searches'
  <2>1. Done' = Done
    BY <1>1 DEF Done
  <2>2. OnPathStacked' /\ PathReaches' /\ Behind'
    BY <1>1, <1>4, <2>1
       DEF IInv, Searches, OnPathStacked, PathReaches, Behind
  <2>3. Out(edges, Done)' = Out(edges, Done) /\ DoneAcyclic'
    BY <1>1, <1>4, <2>1 DEF DoneAcyclic, IInv, Searches
  <2> QED
    BY <1>1, <1>4, <2>1, <2>2, <2>3 DEF IInv, Searches, Quiet
<1>5. Searches'
  BY <1>1, <1>4 DEF Searches, Quiet
<1>6. Verdicts' /\ Marks'
  BY <1>1 DEF IInv, Verdicts, Marks, Quiet
<1> QED
  BY <1>2, <1>3, <1>5, <1>6 DEF IInv

-----------------------------------------------------------------------------
(* Before and after the search for cycles                                  *)

LEMMA CheckSteps == ASSUME IInv, CheckNodes \/ SearchAtOnce PROVE IInv'
<1>1. /\ phase = "check" /\ errors = {} /\ visited = {} /\ stack = <<>>
      /\ marked = {}
      /\ UNCHANGED <<validator, nodes, entries, edges, visited, recStack,
                     stack, unwinding, cycles, marked, unreachable>>
      /\ \/ /\ phase' = "done" /\ errors' = {"no nodes"} /\ nodes = {}
            /\ validator = "registered"
         \/ /\ phase' = "cycles"
            /\ errors' \subseteq {"no entry point", "missing"}
  BY DEF CheckNodes, SearchAtOnce, graphVars, searchVars, IInv, Stacked, Marks
<1>2. Typed'
  BY <1>1 DEF IInv, Typed, Phases, ErrorTypes
<1>3. Stacked'
  BY <1>1 DEF IInv, Stacked
<1>4. Searches'
  <2>1. Quiet /\ Done' = Done
    BY <1>1 DEF Quiet, Done
  <2>2. recStack' = {} /\ stack' = <<>> /\ Len(stack') = 0 /\ 1..0 = {}
    <3>1. recStack' = {} /\ stack' = <<>>
      BY <1>1 DEF IInv, Typed
    <3> QED
      BY <3>1
  <2>4. OnPathStacked' /\ PathReaches' /\ Behind'
    BY <2>2 DEF OnPathStacked, PathReaches, Behind
  <2>3. Out(edges, Done)' = Out(edges, Done) /\ DoneAcyclic'
    BY <1>1, <2>1 DEF DoneAcyclic, IInv, Searches
  <2> QED
    BY <1>1, <2>1, <2>3, <2>4 DEF IInv, Searches
<1>5. Verdicts' /\ Marks'
  <2>1. Quiet /\ Quiet' /\ cycles = <<>>
    BY <1>1 DEF Quiet, IInv, Searches
  <2> QED
    BY <1>1, <2>1 DEF IInv, Verdicts, Marks
<1> QED
  BY <1>2, <1>3, <1>4, <1>5 DEF IInv

LEMMA AfterSearch ==
  ASSUME IInv, UNCHANGED <<graphVars, searchVars>>,
         phase \in {"marking", "connecting"},
         phase' \in {"marking", "connecting", "done"},
         errors' = errors \/ errors' = errors \cup {"disconnected"}
  PROVE  /\ Stacked' /\ Searches' /\ Verdicts'
         /\ UNCHANGED <<validator, nodes, entries, edges>>
         /\ "no nodes" \notin errors /\ "no nodes" \notin errors'
         /\ "disconnected" \notin errors
<1>1. UNCHANGED <<validator, nodes, entries, edges, visited, recStack, stack,
                  unwinding, cycles>>
  BY DEF graphVars, searchVars
<1>2. /\ "no nodes" \notin errors /\ "no nodes" \notin errors'
      /\ Quiet' = Quiet /\ "disconnected" \notin errors
  BY DEF IInv, Verdicts, Marks, Quiet
<1>3. Stacked'
  BY <1>1 DEF IInv, Stacked
<1>4. ASSUME Quiet PROVE Searches'
  <2>1. Done' = Done
    BY <1>1 DEF Done
  <2>2. OnPathStacked' /\ PathReaches' /\ Behind'
    BY <1>1, <1>4, <2>1
       DEF IInv, Searches, OnPathStacked, PathReaches, Behind
  <2>3. Out(edges, Done)' = Out(edges, Done) /\ DoneAcyclic'
    BY <1>1, <1>4, <2>1 DEF DoneAcyclic, IInv, Searches
  <2> QED
    BY <1>1, <1>4, <2>1, <2>2, <2>3 DEF IInv, Searches
<1>5. Searches' /\ Verdicts'
  BY <1>1, <1>2, <1>4 DEF IInv, Searches, Verdicts
<1> QED
  BY <1>1, <1>2, <1>3, <1>5

LEMMA SameStarts ==
  /\ Starts = StartsOf(validator, entries, edges, nodes)
  /\ \A S : Outgoing(S) = Out(edges, S) /\ Incoming(S) = In(edges, S)
<1>1. \A S : Outgoing(S) = Out(edges, S) /\ Incoming(S) = In(edges, S)
  BY DEF Outgoing, Out, Incoming, In
<1> QED
  BY <1>1 DEF Starts, StartsOf, Targets

LEMMA MarkSteps ==
  ASSUME IInv, (\E n \in Names : Mark(n)) \/ EndMarking
  PROVE  IInv'
<1> DEFINE from == StartsOf(validator, entries, edges, nodes)
<1>1. /\ phase = "marking" /\ phase' \in {"marking", "connecting", "done"}
      /\ UNCHANGED <<graphVars, searchVars, errors>>
  BY DEF Mark, EndMarking
<1>2. /\ Stacked' /\ Searches' /\ Verdicts'
      /\ UNCHANGED <<validator, nodes, entries, edges>>
      /\ "no nodes" \notin errors /\ "disconnected" \notin errors
  BY <1>1, AfterSearch
<1>3. /\ from \in SUBSET Names /\ from' = from
      /\ Markable = from \cup Out(edges, marked)
      /\ marked \subseteq Reach(edges, from)
  <2>1. from \in SUBSET Names /\ from' = from
    BY <1>2 DEF StartsOf, IInv, Typed
  <2>2. Markable = from \cup Out(edges, marked)
    BY SameStarts DEF Markable
  <2> QED
    BY <1>1, <2>1, <2>2 DEF IInv, Marks
<1> HIDE DEF from
<1>4. /\ from \subseteq Reach(edges, from)
      /\ Out(edges, marked) \subseteq Reach(edges, from)
      /\ Reach(edges, from) \in SUBSET Names
  <2>1. /\ from \subseteq Reach(edges, from)
        /\ Out(edges, Reach(edges, from)) \subseteq Reach(edges, from)
        /\ Reach(edges, from) \in SUBSET Names
    BY <1>3, ReachFacts DEF IInv, Typed
  <2>2. Out(edges, marked) \subseteq Out(edges, Reach(edges, from))
    BY <1>3, OutMono DEF IInv, Typed
  <2> QED
    BY <2>1, <2>2
<1>5. ASSUME NEW n \in Names, Mark(n) PROVE IInv'
  <2>1. /\ phase' = "marking" /\ marked' = marked \cup {n}
        /\ n \in Reach(edges, from) /\ unreachable' = unreachable
    BY <1>3, <1>4, <1>5 DEF Mark
  <2>2. Typed'
    BY <1>1, <1>2, <2>1 DEF IInv, Typed, searchVars
  <2>3. Marks'
    BY <1>1, <1>2, <1>3, <2>1 DEF Marks, from
  <2> QED
    BY <1>2, <2>2, <2>3 DEF IInv
<1>6. CASE EndMarking
  <2>1. /\ unreachable' = nodes \ marked /\ marked = Reach(edges, from)
    <3>1. from \subseteq marked /\ Out(edges, marked) \subseteq marked
      BY <1>3, <1>6 DEF EndMarking
    <3>2. Reach(edges, from) \subseteq marked
      BY <1>3, <3>1, ReachFacts DEF IInv, Typed
    <3> QED
      BY <1>3, <1>6, <3>2 DEF EndMarking
  <2>2. \/ /\ phase' = "done" /\ marked' = marked
           /\ validator = "registered" \/ nodes = {}
        \/ /\ phase' = "connecting"
           /\ \E n \in nodes : marked' = {n}
    BY <1>6 DEF EndMarking
  <2>3. Typed'
    BY <1>1, <1>2, <2>1, <2>2 DEF IInv, Typed, searchVars, Phases
  <2>4. phase' = "connecting" =>
          \E n \in nodes : n \in marked' /\ marked' \subseteq Join(edges, {n})
    <3> SUFFICES ASSUME NEW n \in nodes, marked' = {n}
                 PROVE  n \in Join(edges, {n})
      BY <2>2
    <3> QED
      BY JoinFacts DEF IInv, Typed
  <2>5. unreachable' = nodes \ Reach(edges, from)
    BY <2>1
  <2>6. Marks'
    BY <1>1, <1>2, <1>3, <2>2, <2>4, <2>5 DEF Marks, from
  <2> QED
    BY <1>2, <2>3, <2>6 DEF IInv
<1> QED
  BY <1>5, <1>6

(* Of a set of nodes the one that has as many as there are is all of them. *)
LEMMA CountsAll ==
  ASSUME NEW ns \in SUBSET Names, NEW S, S \subseteq ns
  PROVE  Cardinality(S) = Cardinality(ns) <=> S = ns
BY FS_Subset, GraphAssumption

LEMMA ConnectSteps ==
  ASSUME IInv, (\E n \in Names : MarkNeighbour(n)) \/ EndConnecting
  PROVE  IInv'
<1>1. /\ phase = "connecting" /\ phase' \in {"connecting", "done"}
      /\ UNCHANGED <<graphVars, searchVars, unreachable>>
      /\ errors' = errors \/ errors' = errors \cup {"disconnected"}
  BY DEF MarkNeighbour, EndConnecting
<1>2. /\ Stacked' /\ Searches' /\ Verdicts'
      /\ UNCHANGED <<validator, nodes, entries, edges>>
      /\ "no nodes" \notin errors /\ "no nodes" \notin errors'
      /\ "disconnected" \notin errors
  BY <1>1, AfterSearch
<1>3. PICK n \in nodes : n \in marked /\ marked \subseteq Join(edges, {n})
  BY <1>1 DEF IInv, Marks
<1>4. /\ Neighbours = Out(edges, marked) \cup In(edges, marked)
      /\ n \in Names /\ edges \in Seq(Edge) /\ marked \in SUBSET Names
      /\ nodes \in SUBSET Names
  BY SameStarts DEF Neighbours, IInv, Typed
<1>5. unreachable =
        nodes \ Reach(edges, StartsOf(validator, entries, edges, nodes))
  BY <1>1, <1>2 DEF IInv, Marks
<1>6. ASSUME NEW m \in Names, MarkNeighbour(m) PROVE IInv'
  <2>1. /\ phase' = "connecting" /\ marked' = marked \cup {m}
        /\ m \in Out(edges, marked) \cup In(edges, marked)
        /\ errors' = errors
    BY <1>4, <1>6 DEF MarkNeighbour
  <2>2. m \in Join(edges, {n})
    <3>1. /\ Out(edges, marked) \subseteq Out(edges, Join(edges, {n}))
          /\ In(edges, marked) \subseteq In(edges, Join(edges, {n}))
      BY <1>3 DEF Out, In
    <3> QED
      BY <1>4, <2>1, <3>1, JoinFacts
  <2>3. Typed'
    BY <1>1, <1>2, <2>1 DEF IInv, Typed, searchVars
  <2>4. Marks'
    BY <1>1, <1>2, <1>3, <1>5, <2>1, <2>2 DEF Marks
  <2> QED
    BY <1>2, <2>3, <2>4 DEF IInv
<1>7. CASE EndConnecting
  <2>1. /\ phase' = "done" /\ marked' = marked
        /\ errors' = errors \cup (IF AllVisited THEN {} ELSE {"disconnected"})
        /\ Out(edges, marked) \cup In(edges, marked) \subseteq marked
    BY <1>4, <1>7 DEF EndConnecting
  <2>2. marked = Join(edges, {n})
    BY <1>3, <1>4, <2>1, JoinFacts
  <2>3. ASSUME Inside(edges, nodes)
        PROVE  "disconnected" \in errors' <=>
                 \E m \in nodes : ~ nodes \subseteq Join(edges, {m})
    <3>1. Out(edges, nodes) \cup In(edges, nodes) \subseteq nodes
      BY <1>4, <2>3, OutDef DEF Inside
    <3>2. marked \subseteq nodes
      BY <1>4, <2>2, <3>1, JoinFacts
    <3>3. AllVisited <=> marked = nodes
      BY <1>4, <3>2, CountsAll DEF AllVisited
    <3>4. "disconnected" \in errors' <=> ~ nodes \subseteq Join(edges, {n})
      <4>1. AllVisited <=> nodes \subseteq Join(edges, {n})
        BY <2>2, <3>2, <3>3
      <4>2. CASE AllVisited
        <5>1. errors' = errors
          BY <2>1, <4>2
        <5> QED
          BY <1>2, <4>1, <4>2, <5>1
      <4>3. CASE ~AllVisited
        <5>1. errors' = errors \cup {"disconnected"}
          BY <2>1, <4>3
        <5> QED
          BY <4>1, <4>3, <5>1
      <4> QED
        BY <4>2, <4>3
    <3>5. nodes \subseteq Join(edges, {n}) =>
            \A m \in nodes : nodes \subseteq Join(edges, {m})
      BY <1>3, <1>4, JoinAll
    <3> QED
      BY <3>4, <3>5
  <2>4. Typed'
    BY <1>1, <1>2, <2>1 DEF IInv, Typed, searchVars, Phases, ErrorTypes
  <2>5. Marks'
    BY <1>1, <1>2, <1>5, <2>1, <2>3 DEF Marks
  <2> QED
    BY <1>2, <2>4, <2>5 DEF IInv
<1> QED
  BY <1>6, <1>7

LEMMA InitIInv == Init => IInv
<1> SUFFICES ASSUME Init PROVE IInv
  OBVIOUS
<1>1. edges \in Seq(Edge) /\ entries \subseteq nodes
  <2>1. edges \in Seq(Edge)
    <3>1. PICK n \in 0..MaxEdges : edges \in [1..n -> Edge]
      BY DEF Init, EdgeSeqs
    <3> QED
      BY <3>1, GraphAssumption, SeqDef
  <2> QED
    BY <2>1 DEF Init
<1>2. Typed
  <2>1. /\ stack = <<>> /\ cycles = <<>> /\ <<>> \in Seq(Frames(edges))
        /\ <<>> \in Seq(Names \X Names)
    BY DEF Init
  <2>2. /\ validator \in {"registered", "other"} /\ phase = "check"
        /\ nodes \subseteq Names /\ unwinding = FALSE /\ visited = {}
        /\ recStack = {} /\ marked = {} /\ unreachable = {} /\ errors = {}
    BY DEF Init
  <2> QED
    BY <1>1, <2>1, <2>2 DEF Typed, Phases
<1>3. Stacked
  BY DEF Init, Stacked
<1>4. Searches
  <2>1. Done = {} /\ stack = <<>> /\ recStack = {} /\ visited = {}
    BY DEF Init, Done
  <2>2. Out(edges, {}) = {}
    BY DEF Out
  <2> QED
    BY <2>1, <2>2 DEF Init, Searches, OnPathStacked, PathReaches, Behind,
       DoneAcyclic
<1>5. Verdicts /\ Marks
  BY DEF Init, Verdicts, Marks, Quiet
<1> QED
  BY <1>2, <1>3, <1>4, <1>5 DEF IInv

LEMMA NextIInv == IInv /\ [Next]_vars => IInv'
<1> SUFFICES ASSUME IInv, [Next]_vars PROVE IInv'
  OBVIOUS
<1>1. CASE UNCHANGED vars
  <2>1. UNCHANGED <<validator, nodes, entries, edges, visited, recStack,
                    stack, unwinding, cycles, phase, marked, errors,
                    unreachable>>
    BY <1>1 DEF vars, graphVars, searchVars
  <2>2. Typed' /\ Stacked'
    BY <2>1 DEF IInv, Typed, Stacked
  <2>3. ASSUME Quiet PROVE Searches'
    <3>1. Done' = Done
      BY <2>1 DEF Done
    <3>2. OnPathStacked' /\ PathReaches' /\ Behind'
      BY <2>1, <2>3, <3>1
         DEF IInv, Searches, OnPathStacked, PathReaches, Behind
    <3>3. Out(edges, Done)' = Out(edges, Done) /\ DoneAcyclic'
      BY <2>1, <2>3, <3>1 DEF DoneAcyclic, IInv, Searches
    <3> QED
      BY <2>1, <2>3, <3>1, <3>2, <3>3 DEF IInv, Searches
  <2>4. Searches' /\ Verdicts'
    BY <2>1, <2>3 DEF Searches, Verdicts, IInv, Quiet
  <2>5. Marks'
    BY <2>1 DEF Marks, IInv
  <2> QED
    BY <2>2, <2>4, <2>5 DEF IInv
<1>2. CASE Step
  BY <1>2, CheckSteps, RootStep, DescendStep, SkipStep, ReportStep,
     ReturnFalseStep, ReturnTrueStep, SearchEnds, MarkSteps, ConnectSteps
     DEF Step
<1> QED
  BY <1>1, <1>2 DEF Next, Finished

LEMMA Inductive == Spec => []IInv
BY InitIInv, NextIInv, PTL DEF Spec

-----------------------------------------------------------------------------
(* The verdicts                                                            *)

LEMMA SameReach ==
  /\ \A S \in SUBSET Names :
       Reachable(S) = Reach(edges, S) /\ Joined(S) = Join(edges, S)
  /\ \A n \in Names : OnCycle(n) <=> n \in Reach(edges, Out(edges, {n}))
  /\ Cyclic <=> HasCycle(edges, nodes)
<1>1. \A S : Reachable(S) = Reach(edges, S) /\ Joined(S) = Join(edges, S)
  BY SameStarts DEF Reachable, Reach, Joined, Join
<1>2. \A n : OnCycle(n) <=> n \in Reach(edges, Out(edges, {n}))
  <2> TAKE n
  <2>1. Outgoing({n}) = Out(edges, {n})
    BY SameStarts
  <2> QED
    BY <1>1, <2>1 DEF OnCycle
<1>3. Cyclic <=> HasCycle(edges, nodes)
  <2>1. Reachable(nodes) = Reach(edges, nodes)
    BY <1>1
  <2> QED
    BY <1>2, <2>1 DEF Cyclic, HasCycle
<1> QED
  BY <1>1, <1>2, <1>3

(* A search that has come to its end without an error has been everywhere  *)
(* and left no name on a cycle.                                            *)
LEMMA QuietAcyclic ==
  ASSUME IInv, Quiet, phase \notin {"check", "cycles"}
  PROVE  ~HasCycle(edges, nodes)
<1>1. stack = <<>> /\ recStack = {} /\ nodes \subseteq Done
  <2>1. stack = <<>>
    BY DEF IInv, Stacked
  <2>2. Len(stack) = 0 /\ 1..0 = {}
    BY <2>1
  <2>3. recStack = {}
    BY <2>2 DEF IInv, Searches, OnPathStacked
  <2> QED
    BY <2>1, <2>3 DEF Done, IInv, Verdicts
<1>2. /\ Done \in SUBSET Names /\ nodes \in SUBSET Names
      /\ edges \in Seq(Edge) /\ Out(edges, Done) \subseteq Done
  BY DEF Done, IInv, Typed, Searches
<1>3. Reach(edges, nodes) \subseteq Done
  BY <1>1, <1>2, ReachFacts
<1>4. ASSUME NEW n \in Done PROVE n \notin Reach(edges, Out(edges, {n}))
  <2>1. PICK T \in SUBSET Done :
          /\ Out(edges, {n}) \subseteq T /\ Out(edges, T) \subseteq T
          /\ n \notin T
    BY <1>4 DEF IInv, Searches, DoneAcyclic
  <2>2. T \in SUBSET Names /\ Out(edges, {n}) \in SUBSET Names
    BY <1>2, <2>1, OutDef
  <2>3. \A S \in SUBSET Names : S \subseteq T => Reach(edges, S) \subseteq T
    BY <1>2, <2>1, <2>2, ReachFacts
  <2> QED
    BY <2>1, <2>2, <2>3
<1> QED
  BY <1>3, <1>4 DEF HasCycle

(* Whatever the graph and whatever order the map gives its nodes in, both  *)
(* versions of ValidateWorkflowGraph report a cycle exactly when the nodes *)
(* lead to one, and the first pair reported is an edge of a cycle.         *)
THEOREM CyclesFound == Spec => []GraphInv
<1>1. IInv => TypeOK
  <2> SUFFICES ASSUME IInv PROVE TypeOK
    OBVIOUS
  <2> DEFINE F == [node : recStack, seen : 0..Len(edges)]
  <2>1. /\ Len(stack) \in Nat /\ stack \in [1..Len(stack) -> Frames(edges)]
    BY LenProperties DEF IInv, Typed
  <2>2. ASSUME NEW i \in 1..Len(stack) PROVE stack[i] \in F
    <3>1. stack[i] \in Frames(edges) /\ stack[i].node \in recStack
      BY <2>1 DEF IInv, Stacked
    <3> QED
      BY <3>1 DEF Frames
  <2>3. stack \in [1..Len(stack) -> F]
    BY <2>1, <2>2
  <2>4. stack \in Seq(F)
    BY <2>1, <2>3, SeqDef
  <2> QED
    BY <2>4 DEF TypeOK, IInv, Typed
<1>2. IInv => CycleVerdict
  <2> SUFFICES ASSUME IInv, phase = "done"
               PROVE  "cycle" \in errors <=> HasCycle(edges, nodes)
    BY SameReach DEF CycleVerdict
  <2>1. CASE Quiet
    BY <2>1, QuietAcyclic DEF Quiet
  <2>2. CASE ~Quiet
    BY <2>2 DEF IInv, Verdicts, Quiet
  <2> QED
    BY <2>1, <2>2
<1>3. IInv => FirstOnCycle
  <2> SUFFICES ASSUME IInv, cycles # <<>>
               PROVE  cycles[1][1] \in Reachable({cycles[1][2]})
    BY DEF FirstOnCycle
  <2>1. cycles[1] \in Names \X Names
    <3>1. cycles \in Seq(Names \X Names)
      BY DEF IInv, Typed
    <3> QED
      BY <3>1, Popped
  <2>2. {cycles[1][2]} \in SUBSET Names
    BY <2>1
  <2>3. Reachable({cycles[1][2]}) = Reach(edges, {cycles[1][2]})
    BY <2>2, SameReach
  <2> QED
    BY <2>3 DEF IInv, Verdicts
<1> QED
  BY Inductive, <1>1, <1>2, <1>3, PTL DEF GraphInv

(* Missing is empty when every edge joins two nodes of the map.            *)
LEMMA MissingInside ==
  ASSUME IInv, Missing = {}
  PROVE  Inside(edges, nodes)
<1>1. Targets = Out(edges, Names) /\ Incoming(Names) = In(edges, Names)
  BY SameStarts DEF Targets
<1>2. Out(edges, Names) \cup In(edges, Names) \subseteq nodes
  BY <1>1 DEF Missing
<1>3. edges \in Seq(Edge)
  BY DEF IInv, Typed
<1> QED
  BY <1>2, <1>3, OutDef DEF Inside

(* A graph that passes is one a run can finish, the warnings name exactly  *)
(* the nodes that cannot be reached, and the other validator's test of     *)
(* connectedness does not depend on the node it starts from.               *)
THEOREM VerdictsOfMarking == Spec => []ReachabilityInv
<1> DEFINE from == StartsOf(validator, entries, edges, nodes)
<1>0. IInv => /\ from \in SUBSET Names /\ nodes \in SUBSET Names
              /\ edges \in Seq(Edge) /\ Starts = from
  <2> SUFFICES ASSUME IInv
               PROVE  from \in SUBSET Names
    BY SameStarts DEF IInv, Typed
  <2> QED
    BY DEF StartsOf, IInv, Typed
<1>1. IInv => AcceptedRuns
  <2> SUFFICES ASSUME IInv, phase = "done", validator = "registered",
                      errors = {}, unreachable = {}, NEW n \in nodes
               PROVE  ~OnCycle(n) /\ n \in Reachable(entries)
    BY DEF AcceptedRuns
  <2>1. ~HasCycle(edges, nodes)
    BY QuietAcyclic DEF Quiet
  <2>2. n \in Names /\ n \in Reach(edges, nodes)
    BY <1>0, ReachFacts
  <2>3. nodes \subseteq Reach(edges, entries)
    <3>1. unreachable = nodes \ Reach(edges, from)
      BY DEF IInv, Marks
    <3> QED
      BY <3>1 DEF StartsOf
  <2>4. entries \in SUBSET Names
    BY DEF IInv, Typed
  <2> QED
    BY <2>1, <2>2, <2>3, <2>4, SameReach DEF HasCycle
<1>2. IInv => UnreachableExact
  <2> SUFFICES ASSUME IInv, phase = "done", "no nodes" \notin errors
               PROVE  /\ unreachable = nodes \ Reach(edges, from)
                      /\ /\ validator = "other" /\ "cycle" \notin errors
                         /\ Missing = {}
                         => unreachable = {}
    BY <1>0, SameReach DEF UnreachableExact
  <2>1. unreachable = nodes \ Reach(edges, from)
    BY DEF IInv, Marks
  <2>2. ASSUME validator = "other", "cycle" \notin errors, Missing = {}
        PROVE  nodes \subseteq Reach(edges, from)
    <3>1. ~HasCycle(edges, nodes)
      BY <2>2, QuietAcyclic DEF Quiet
    <3>2. from = nodes \ Out(edges, Names)
      BY <2>2 DEF StartsOf
    <3>3. \A i \in 1..Len(edges) :
            edges[i].from \in nodes /\ edges[i].to \in nodes
      BY <2>2, MissingInside DEF Inside
    <3>4. nodes \subseteq Reach(edges, nodes \ Out(edges, Names))
      BY <1>0, <3>1, <3>3, SourcesReachAll
    <3> QED
      BY <3>2, <3>4
  <2> QED
    BY <2>1, <2>2
<1>3. IInv => ConnectedVerdict
  <2> SUFFICES ASSUME IInv, phase = "done", validator = "other", Missing = {}
               PROVE  "disconnected" \in errors <=>
                        \E n \in nodes : ~ nodes \subseteq Joined({n})
    BY DEF ConnectedVerdict
  <2>1. "disconnected" \in errors <=>
          \E n \in nodes : ~ nodes \subseteq Join(edges, {n})
    BY MissingInside DEF IInv, Marks
  <2>2. \A n \in nodes : Joined({n}) = Join(edges, {n})
    BY <1>0, SameReach
  <2> QED
    BY <2>1, <2>2
<1> QED
  BY Inductive, <1>1, <1>2, <1>3, PTL DEF ReachabilityInv
=============================================================================
