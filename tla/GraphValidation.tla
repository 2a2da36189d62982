-------------------------- MODULE GraphValidation --------------------------
(***************************************************************************)
(* ValidateWorkflowGraph of internal/validation, in its two versions: the  *)
(* registered WorkflowValidatorImpl (workflow.go), and                     *)
(* WorkflowValidatorImplementation (workflow_validator.go).  The graph is  *)
(* a map of nodes and a slice of edges, which may name nodes that are not  *)
(* in the map.                                                             *)
(*                                                                         *)
(* The search for cycles is the recursion of the code, a frame on stack    *)
(* for each call of dfs, with Go's map order as the choice of the next     *)
(* root.  The marking searches only build a set: the order in which they   *)
(* do is left open.  Warnings about names, endpoints and dead ends say     *)
(* nothing about the search and are left out.                              *)
(***************************************************************************)
EXTENDS Naturals, Sequences, FiniteSets

CONSTANTS
  Names,     \* the names that nodes and edges use
  MaxEdges   \* bound: edges of a graph

ASSUME GraphAssumption == IsFiniteSet(Names) /\ MaxEdges \in Nat

VARIABLES
  validator,   \* which of the two versions runs
  nodes, entries, edges,  \* graph.Nodes, those with IsEntryPoint, graph.Edges
  phase,       \* "check", "cycles", "marking", "connecting" or "done"
  visited, recStack,
  stack,       \* the calls of dfs in progress: [node, seen (edges looked at)]
  unwinding,   \* dfs is returning true
  cycles,      \* the pairs the registered validator reports; the other one
               \* reports no pair, only that there is a cycle
  marked,      \* reachable, or visited by isConnected
  errors,      \* the types of the errors reported
  unreachable  \* the nodes warned about

graphVars  == <<validator, nodes, entries, edges>>
searchVars == <<visited, recStack, stack, unwinding, cycles>>
vars == <<graphVars, searchVars, phase, marked, errors, unreachable>>

Edge == [from : Names, to : Names]
Phases == {"check", "cycles", "marking", "connecting", "done"}
ErrorTypes == {"no nodes", "no entry point", "missing", "cycle",
               "disconnected"}

TypeOK ==
  /\ validator \in {"registered", "other"} /\ phase \in Phases
  /\ nodes \subseteq Names /\ entries \subseteq nodes /\ edges \in Seq(Edge)
  /\ visited \subseteq Names /\ recStack \subseteq visited
  /\ stack \in Seq([node : recStack, seen : 0..Len(edges)])
  /\ unwinding \in BOOLEAN
  /\ cycles \in Seq(Names \X Names)
  /\ marked \subseteq Names /\ unreachable \subseteq nodes
  /\ errors \subseteq ErrorTypes

EdgeSeqs == UNION {[1..n -> Edge] : n \in 0..MaxEdges}

Init ==
  /\ validator \in {"registered", "other"}
  /\ nodes \in SUBSET Names
  /\ entries \in IF validator = "registered" THEN SUBSET nodes ELSE {{}}
  /\ edges \in EdgeSeqs
  /\ phase = "check"
  /\ visited = {} /\ recStack = {} /\ stack = <<>> /\ unwinding = FALSE
  /\ cycles = <<>> /\ marked = {} /\ errors = {} /\ unreachable = {}
-----------------------------------------------------------------------------
(* The nodes that edges lead to from those in S, or from which edges lead  *)
(* to those in S.                                                          *)
Outgoing(S) == {edges[i].to : i \in {j \in DOMAIN edges : edges[j].from \in S}}
Incoming(S) == {edges[i].from : i \in {j \in DOMAIN edges : edges[j].to \in S}}

Targets == Outgoing(Names)
Missing == (Targets \cup Incoming(Names)) \ nodes

(* What the registered validator looks at before it searches.              *)
CheckNodes ==
  /\ phase = "check" /\ validator = "registered"
  /\ IF nodes = {}
     THEN phase' = "done" /\ errors' = {"no nodes"}
     ELSE /\ phase' = "cycles"
          /\ errors' = {e \in {"no entry point", "missing"} :
                          \/ e = "no entry point" /\ entries = {}
                          \/ e = "missing" /\ Missing # {}}
  /\ UNCHANGED <<graphVars, searchVars, marked, unreachable>>

SearchAtOnce ==
  /\ phase = "check" /\ validator = "other"
  /\ phase' = "cycles"
  /\ UNCHANGED <<graphVars, searchVars, marked, errors, unreachable>>
-----------------------------------------------------------------------------
(* The search for cycles.                                                  *)
Searching == phase = "cycles" /\ UNCHANGED <<graphVars, marked, unreachable>>

EnterPath(n) == recStack' = recStack \cup {n}

(* dfs(n)                                                                  *)
Call(n, below) ==
  /\ visited' = visited \cup {n}
  /\ EnterPath(n)
  /\ stack' = <<[node |-> n, seen |-> 0]>> \o below

Root(n) ==
  /\ Searching /\ stack = <<>>
  /\ n \in nodes \ visited
  /\ Call(n, <<>>)
  /\ UNCHANGED <<phase, unwinding, cycles, errors>>

Active == Searching /\ stack # <<>> /\ ~unwinding
Top == Head(stack)

(* The edge looked at, and the stack once it has been.                     *)
EdgesLeft == Top.seen < Len(edges)
Ahead == edges[Top.seen + 1]
Passed == <<[Top EXCEPT !.seen = @ + 1]>> \o Tail(stack)

Descend ==
  /\ Active /\ EdgesLeft
  /\ Ahead.from = Top.node /\ Ahead.to \notin visited
  /\ Call(Ahead.to, Passed)
  /\ UNCHANGED <<phase, unwinding, cycles, errors>>

(* Slip: any node seen before is taken for one on the current path.        *)
OnPathVisited(n) == n \in visited

OnPath(n) == n \in recStack

Skip ==
  /\ Active /\ EdgesLeft
  /\ \/ Ahead.from # Top.node
     \/ Ahead.to \in visited /\ ~OnPath(Ahead.to)
  /\ stack' = Passed
  /\ UNCHANGED <<phase, visited, recStack, unwinding, cycles, errors>>

ReportCycle ==
  /\ Active /\ EdgesLeft
  /\ Ahead.from = Top.node
  /\ Ahead.to \in visited /\ OnPath(Ahead.to)
  /\ cycles' = Append(cycles, <<Top.node, Ahead.to>>)
  /\ errors' = errors \cup {"cycle"}
  /\ unwinding' = TRUE
  /\ stack' = Tail(stack)
  /\ UNCHANGED <<phase, visited, recStack>>

LeavePath(n) == recStack' = recStack \ {n}

ReturnFalse ==
  /\ Active /\ ~EdgesLeft
  /\ LeavePath(Top.node)
  /\ stack' = Tail(stack)
  /\ UNCHANGED <<phase, visited, unwinding, cycles, errors>>

(* return true: the callers return at once, and nobody clears recStack.    *)
ReturnTrue ==
  /\ Searching /\ stack # <<>> /\ unwinding
  /\ stack' = Tail(stack)
  /\ UNCHANGED <<phase, visited, recStack, unwinding, cycles, errors>>

(* The registered validator goes on with the next root, the other one      *)
(* returns from detectCycles.                                              *)
Caught ==
  /\ Searching /\ stack = <<>> /\ unwinding
  /\ unwinding' = FALSE
  /\ phase' = IF validator = "other" THEN "marking" ELSE phase
  /\ UNCHANGED <<visited, recStack, stack, cycles, errors>>

Searched == nodes \subseteq visited

EndSearch ==
  /\ Searching /\ stack = <<>> /\ ~unwinding
  /\ Searched
  /\ phase' = "marking"
  /\ UNCHANGED <<searchVars, errors>>
-----------------------------------------------------------------------------
(* The searches that mark nodes.                                           *)

(* Where reachability starts: the entry points, or the nodes without an    *)
(* incoming edge.                                                          *)
Starts == IF validator = "registered" THEN entries ELSE nodes \ Targets

(* Slip: an edge is followed once, from a start only.                      *)
MarkableFromStarts == Starts \cup Outgoing(Starts)

Markable == Starts \cup Outgoing(marked)

Mark(n) ==
  /\ phase = "marking"
  /\ n \in Markable \ marked
  /\ marked' = marked \cup {n}
  /\ UNCHANGED <<graphVars, searchVars, phase, errors, unreachable>>

(* A node that no marking search reached gets its warning; the other       *)
(* validator then picks the node its test of connectedness starts from.    *)
EndMarking ==
  /\ phase = "marking" /\ Markable \subseteq marked
  /\ unreachable' = nodes \ marked
  /\ IF validator = "registered" \/ nodes = {}
     THEN phase' = "done" /\ marked' = marked
     ELSE phase' = "connecting" /\ \E n \in nodes : marked' = {n}
  /\ UNCHANGED <<graphVars, searchVars, errors>>

Neighbours == Outgoing(marked) \cup Incoming(marked)

MarkNeighbour(n) ==
  /\ phase = "connecting"
  /\ n \in Neighbours \ marked
  /\ marked' = marked \cup {n}
  /\ UNCHANGED <<graphVars, searchVars, phase, errors, unreachable>>

(* len(visited) == len(graph.Nodes); visited may hold names not in Nodes.  *)
AllVisited == Cardinality(marked) = Cardinality(nodes)

EndConnecting ==
  /\ phase = "connecting" /\ Neighbours \subseteq marked
  /\ errors' = errors \cup (IF AllVisited THEN {} ELSE {"disconnected"})
  /\ phase' = "done"
  /\ UNCHANGED <<graphVars, searchVars, marked, unreachable>>
-----------------------------------------------------------------------------
Step ==
  \/ CheckNodes \/ SearchAtOnce
  \/ \E n \in Names : Root(n) \/ Mark(n) \/ MarkNeighbour(n)
  \/ Descend \/ Skip \/ ReportCycle \/ ReturnFalse \/ ReturnTrue \/ Caught
  \/ EndSearch \/ EndMarking \/ EndConnecting

Finished == phase = "done" /\ UNCHANGED vars

Next == Step \/ Finished

Spec == Init /\ [][Next]_vars

-----------------------------------------------------------------------------
(* Reference: the names reached from those in S are in every set that      *)
(* holds S and that no edge leaves.                                        *)
Reachable(S) ==
  {n \in Names : \A T \in SUBSET Names :
                   S \subseteq T /\ Outgoing(T) \subseteq T => n \in T}

OnCycle(n) == n \in Reachable(Outgoing({n}))

(* A cycle among names no edge leads to from a node of the map counts for  *)
(* nothing: the search starts from the nodes.                              *)
Cyclic == \E n \in Reachable(nodes) : OnCycle(n)

(* Whatever order the map gives its nodes in, both validators report a     *)
(* cycle exactly when there is one (detectCircularDependencies,            *)
(* detectCycles), although a node visited from one root is never looked    *)
(* into again from another.                                                *)
CycleVerdict ==
  phase = "done" => ("cycle" \in errors <=> Cyclic)

(* The first pair reported is an edge of a cycle: what it names is what    *)
(* has to be broken up (workflow.go:424).                                  *)
FirstOnCycle ==
  cycles # <<>> => cycles[1][1] \in Reachable({cycles[1][2]})

GraphInv == TypeOK /\ CycleVerdict /\ FirstOnCycle

(* A graph that passes without error or warning is one a run can finish:   *)
(* every node has a path from an entry point and comes before all that     *)
(* depend on it (detectOrphanedNodes, with the errors before it).          *)
AcceptedRuns ==
  phase = "done" /\ validator = "registered" /\ errors = {}
    /\ unreachable = {} =>
      \A n \in nodes : ~OnCycle(n) /\ n \in Reachable(entries)

(* The warnings name exactly the nodes that cannot be reached, so in a     *)
(* graph without cycles and unknown names the other validator, which       *)
(* starts from the nodes nothing leads to, never warns.                    *)
UnreachableExact ==
  phase = "done" /\ "no nodes" \notin errors =>
    /\ unreachable = nodes \ Reachable(Starts)
    /\ validator = "other" /\ "cycle" \notin errors /\ Missing = {} =>
         unreachable = {}

(* For edges between nodes of the map, the other validator finds a graph   *)
(* disconnected when no chain of edges, in either direction, joins two of  *)
(* its nodes, whichever node it starts from.                               *)
Joined(S) ==
  {n \in Names : \A T \in SUBSET Names :
     S \subseteq T /\ Outgoing(T) \cup Incoming(T) \subseteq T => n \in T}

ConnectedVerdict ==
  phase = "done" /\ validator = "other" /\ Missing = {} =>
    ("disconnected" \in errors <=>
       \E n \in nodes : ~ nodes \subseteq Joined({n}))

(* What the three verdicts that come of marking are worth.                 *)
ReachabilityInv == AcceptedRuns /\ UnreachableExact /\ ConnectedVerdict
=============================================================================
