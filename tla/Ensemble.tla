------------------------------ MODULE Ensemble ------------------------------
(***************************************************************************)
(* Several agents run as one: the dispatch of the collaborative,           *)
(* sequential, loop and mixed orchestrators (internal/orchestrator) and    *)
(* the Run of ParallelAgent, SequentialAgent and LoopAgent                 *)
(* (internal/agents).  The two families differ in what a member is given.  *)
(* An orchestrator hands every member the same State object, which the     *)
(* member may write while others run; an agent hands each a clone.         *)
(*                                                                         *)
(* A State is the set of marks of those that wrote to it: "input" for the  *)
(* caller's data, and each member's name.                                  *)
(***************************************************************************)
EXTENDS Naturals, Sequences, SequencesExt, FiniteSets

CONSTANTS
  Members,        \* names of agents
  Order,          \* the configured sequence of names
  Collaborative,  \* mixed: the names of the collaborative group
  MaxIterations,  \* of the loops
  MaxDispatches   \* bound: dispatches in a behaviour

ASSUME EnsembleAssumption ==
  /\ "input" \notin Members
  /\ Order \in Seq(Members) /\ Order # <<>> /\ IsInjective(Order)
  /\ Collaborative \subseteq Members
  /\ MaxIterations \in Nat \ {0} /\ MaxDispatches \in Nat

Orchestrators == {"collaborative", "sequential", "loop", "mixed"}
Agents == {"ParallelAgent", "SequentialAgent", "LoopAgent"}
Kinds == Orchestrators \cup Agents
Marks == Members \cup {"input"}

VARIABLES
  kind,        \* which of the kinds this one is
  enabled,     \* an agent's configuration has it enabled
  registered,  \* names with a handler, or the sub-agents
  stopped,     \* Stop has been called
  at,          \* where the dispatch is
  line,        \* the positions of Order the chain phase goes through
  pos,         \* chain: the last one done with; loop: iterations begun
  object,      \* the State object the dispatch holds
  fresh,       \* mixed: the chain has left the object results are merged into
  member,      \* what each member does
  given,       \* the clone each running member was given
  output,      \* what each member returned: how, and a State of its own
  combined,    \* the State results are merged into
  failed,      \* members whose error was collected
  ran,         \* history: positions the chain phase has run, as it did
  ctxDone,     \* the context of the run is done
  answer,      \* what the dispatch returned
  dispatches   \* dispatches begun

dispatchVars == <<at, line, pos, object, fresh, member, given, output,
                  combined, failed, ran, ctxDone, answer>>
setup == <<kind, enabled, registered, stopped, dispatches>>
ensembleVars == <<setup, dispatchVars>>

Clones == kind \in Agents
Concurrent == kind \in {"collaborative", "mixed", "ParallelAgent"}
Loops == kind \in {"loop", "LoopAgent"}

Errors == {"none", "setup", "partial", "all", "member", "cancelled", "max"}
Failure == [how |-> "error", state |-> {}]
NoAnswer == [error |-> "none", state |-> {}, completed |-> FALSE]

EnsembleTypeOK ==
  /\ kind \in Kinds /\ enabled \in BOOLEAN /\ stopped \in BOOLEAN
  /\ registered \subseteq Members
  /\ at \in {"idle", "gather", "chain", "running", "returned"}
  /\ line \subseteq DOMAIN Order
  /\ pos \in 0..(IF Loops THEN MaxIterations ELSE Len(Order))
  /\ fresh \in BOOLEAN /\ object \subseteq Marks /\ combined \subseteq Marks
  /\ member \in [Members -> {"off", "running", "sent"}]
  /\ given \in [Members -> SUBSET Marks]
  /\ failed \subseteq Members /\ ctxDone \in BOOLEAN
  /\ answer \in [error : Errors, state : SUBSET Marks, completed : BOOLEAN]
  /\ dispatches \in 0..MaxDispatches

EnsembleInit ==
  /\ kind \in Kinds /\ registered \in SUBSET Members
  /\ enabled \in BOOLEAN /\ (kind \in Orchestrators => enabled)
  /\ kind = "LoopAgent" => Order[1] \in registered
  /\ stopped = FALSE /\ at = "idle" /\ line = {} /\ pos = 0
  /\ object = {} /\ fresh = FALSE /\ combined = {} /\ failed = {} /\ ran = <<>>
  /\ member = [m \in Members |-> "off"]
  /\ given = [m \in Members |-> {}]
  /\ output = [m \in Members |-> Failure]
  /\ ctxDone = FALSE /\ answer = NoAnswer /\ dispatches = 0
-----------------------------------------------------------------------------
Busy == at \in {"gather", "chain", "running"}

(* Slip: handlers are looked up under the lock, and run without it.        *)
LockedForLookup == FALSE

(* Every orchestrator but the mixed one holds its read lock for the whole  *)
(* dispatch, handlers included; the agents have nothing to lock.           *)
Locked == Busy /\ kind # "mixed"

(* RegisterAgent.  (While a mixed dispatch is starting its team this is a  *)
(* data race on the map it iterates over, left out.)  The collaborative    *)
(* one refuses a name it has, the others replace the handler.              *)
RegisterAgent(m) ==
  /\ kind \in Orchestrators /\ ~Locked /\ m \notin registered
  /\ registered' = registered \cup {m}
  /\ UNCHANGED <<kind, enabled, stopped, dispatchVars, dispatches>>

(* Stop drops the handlers; the collaborative one keeps them.  Here the    *)
(* handlers of a mixed dispatch that goes on are gone for its chain phase. *)
Stop ==
  /\ kind \in Orchestrators /\ ~Locked /\ ~stopped
  /\ stopped' = TRUE
  /\ registered' = IF kind = "collaborative" THEN registered ELSE {}
  /\ UNCHANGED <<kind, enabled, dispatchVars, dispatches>>

(* Positions of the sequence: of names with a handler, and of those that   *)
(* are not in the collaborative group.                                     *)
Registered(positions) == {i \in positions : Order[i] \in registered}
Remaining == {i \in DOMAIN Order : Order[i] \notin Collaborative}

(* The mixed orchestrator's Stop also drops the names of its sequence.     *)
Sequence ==
  CASE kind = "mixed" -> IF stopped THEN {} ELSE Remaining
    [] Loops -> {1}
    [] kind = "SequentialAgent" -> Registered(DOMAIN Order)
    [] OTHER -> DOMAIN Order

(* The members that run at the same time.                                  *)
Team == CASE kind = "mixed" -> registered \cap Collaborative
          [] kind \in {"collaborative", "ParallelAgent"} -> registered
          [] OTHER -> {}

Return(error, state, completed) ==
  /\ at' = "returned"
  /\ answer' = [error |-> error, state |-> state, completed |-> completed]

(* Nothing to run: an error for an orchestrator, the input for an agent,   *)
(* which is also what a disabled agent returns.                            *)
Refused ==
  CASE kind = "collaborative" -> registered = {}
    [] kind = "loop" -> Order[1] \notin registered
    [] OTHER -> FALSE
PassedThrough == Clones /\ (~enabled \/ registered = {})

Dispatch ==
  /\ ~Busy /\ dispatches < MaxDispatches
  /\ dispatches' = dispatches + 1
  /\ object' = {"input"} /\ fresh' = FALSE
  /\ failed' = {} /\ ran' = <<>> /\ pos' = 0
  /\ combined' = IF kind = "collaborative" THEN {} ELSE {"input"}
  /\ output' = [m \in Members |-> Failure]
  /\ given' = [m \in Members |-> IF Clones THEN {"input"} ELSE {}]
  /\ ctxDone' = FALSE /\ line' = Sequence
  /\ \/ /\ Refused /\ Return("setup", {}, FALSE)
        /\ UNCHANGED member
     \/ /\ PassedThrough /\ Return("none", {"input"}, FALSE)
        /\ UNCHANGED member
     \/ /\ ~Refused /\ ~PassedThrough
        /\ at' = IF Team = {} THEN "chain" ELSE "gather"
        /\ member' = [m \in Members |-> IF m \in Team THEN "running"
                                                      ELSE "off"]
        /\ answer' = NoAnswer
  /\ UNCHANGED <<kind, enabled, registered, stopped>>

(* The caller's cancellation, or a timeout of the agent.                   *)
ContextEnds ==
  /\ Clones /\ Busy /\ ~ctxDone
  /\ ctxDone' = TRUE
  /\ UNCHANGED <<setup, at, line, pos, object, fresh, member, given, output,
                 combined, failed, ran, answer>>
-----------------------------------------------------------------------------
(* The members: code of the application.                                   *)

(* The mixed orchestrator merges into the object it hands to the chain.    *)
Aliased == kind = "mixed" /\ at = "running" /\ ~fresh

(* A member writes its key into the State it was given.                    *)
Write(m) ==
  /\ member[m] = "running"
  /\ IF Clones THEN /\ m \notin given[m]
                    /\ given' = [given EXCEPT ![m] = @ \cup {m}]
                    /\ UNCHANGED <<object, combined>>
               ELSE /\ m \notin object
                    /\ object' = object \cup {m}
                    /\ combined' = IF Aliased THEN combined \cup {m}
                                              ELSE combined
                    /\ UNCHANGED given
  /\ UNCHANGED <<setup, at, line, pos, fresh, member, output, failed, ran,
                 ctxDone, answer>>

View(m) == IF Clones THEN given[m] ELSE object

(* It returns the State it was given, one of its own, or an error.         *)
Outputs(m) ==
  {Failure, [how |-> "same", state |-> {}]} \cup
    [how : {"own"}, state : {View(m) \cup {m}, {m}}]

(* What arrives as a member's result.  A member of a ParallelAgent whose   *)
(* context is done has failed, whatever it returned.                       *)
Arrives(m) ==
  IF kind = "ParallelAgent" /\ ctxDone THEN {Failure} ELSE Outputs(m)

FinishOnTeam(m) ==
  /\ at = "gather" /\ member[m] = "running"
  /\ \E o \in Arrives(m) : output' = [output EXCEPT ![m] = o]
  /\ member' = [member EXCEPT ![m] = "sent"]
  /\ UNCHANGED <<setup, at, line, pos, object, fresh, given, combined, failed,
                 ran, ctxDone, answer>>

(* What a result holds when it is read: an object others still write to.   *)
Content(m) == IF output[m].how = "same" THEN View(m) ELSE output[m].state
-----------------------------------------------------------------------------
(* The concurrent phase.                                                   *)

(* Slip: the first error ends the collection.                              *)
CollectUntilError(m) ==
  /\ at = "gather" /\ member[m] = "sent"
  /\ member' = IF output[m] = Failure THEN [n \in Members |-> "off"]
                                      ELSE [member EXCEPT ![m] = "off"]
  /\ IF output[m] = Failure
     THEN failed' = failed \cup {m} /\ UNCHANGED combined
     ELSE combined' = combined \cup Content(m) /\ UNCHANGED failed
  /\ UNCHANGED <<setup, at, line, pos, object, fresh, given, output, ran,
                 ctxDone, answer>>

(* Results are merged as they arrive; the mixed orchestrator first waits   *)
(* for all of them.                                                        *)
Collect(m) ==
  /\ at = "gather" /\ member[m] = "sent"
  /\ kind = "mixed" => \A n \in Members : member[n] # "running"
  /\ member' = [member EXCEPT ![m] = "off"]
  /\ IF output[m] = Failure
     THEN failed' = failed \cup {m} /\ UNCHANGED combined
     ELSE combined' = combined \cup Content(m) /\ UNCHANGED failed
  /\ UNCHANGED <<setup, at, line, pos, object, fresh, given, output, ran,
                 ctxDone, answer>>

(* The members of the concurrent phase that returned a State.              *)
Succeeded == {m \in Members : member[m] = "off" /\ output[m] # Failure}

(* Slip: the first error ends the dispatch.                                *)
GatheredEarly ==
  /\ at = "gather" /\ (failed # {} \/ \A m \in Members : member[m] = "off")
  /\ \/ /\ kind = "ParallelAgent"
        /\ IF failed # {} THEN Return("partial", combined, FALSE)
                          ELSE Return("none", combined, TRUE)
        /\ UNCHANGED <<object, combined, line>>
     \/ /\ kind = "collaborative"
        /\ Return(IF failed = {} THEN "none"
                  ELSE IF Succeeded = {} THEN "all" ELSE "partial",
                  combined, FALSE)
        /\ UNCHANGED <<object, combined, line>>
     \/ /\ kind = "mixed" /\ Succeeded = {}
        /\ Return("all", {}, FALSE)
        /\ UNCHANGED <<object, combined, line>>
     \/ /\ kind = "mixed" /\ Succeeded # {}
        /\ at' = "chain" /\ object' = object \cup combined
        /\ combined' = object \cup combined /\ line' = Sequence
        /\ UNCHANGED answer
  /\ UNCHANGED <<setup, pos, fresh, member, given, output, failed, ran,
                 ctxDone>>

(* All are in: one error fails a collaborative dispatch and a              *)
(* ParallelAgent, which return what was merged with it; the mixed          *)
(* orchestrator goes on unless all failed.                                 *)
Gathered ==
  /\ at = "gather" /\ \A m \in Members : member[m] = "off"
  /\ \/ /\ kind = "ParallelAgent"
        /\ IF failed # {} THEN Return("partial", combined, FALSE)
                          ELSE Return("none", combined, TRUE)
        /\ UNCHANGED <<object, combined, line>>
     \/ /\ kind = "collaborative"
        /\ Return(IF failed = {} THEN "none"
                  ELSE IF Succeeded = {} THEN "all" ELSE "partial",
                  combined, FALSE)
        /\ UNCHANGED <<object, combined, line>>
     \/ /\ kind = "mixed" /\ Succeeded = {}
        /\ Return("all", {}, FALSE)
        /\ UNCHANGED <<object, combined, line>>
     \/ /\ kind = "mixed" /\ Succeeded # {}
        /\ at' = "chain" /\ object' = object \cup combined
        /\ combined' = object \cup combined /\ line' = Sequence
        /\ UNCHANGED answer
  /\ UNCHANGED <<setup, pos, fresh, member, given, output, failed, ran,
                 ctxDone>>
-----------------------------------------------------------------------------
(* The chain: one member at a time, each given the output of the last.     *)

(* What is left to do: the positions ahead, or another round of the loop.  *)
Ahead == {i \in line : i > pos}
Left == IF Loops THEN pos < MaxIterations ELSE Ahead # {}

(* i is the position that comes next; a loop has one.                      *)
IsNext(i) ==
  /\ at = "chain" /\ Left
  /\ IF Loops THEN i \in line ELSE i \in Ahead /\ \A j \in Ahead : i <= j

(* Agents look at the context before each member.                          *)
ChainCancelled ==
  /\ at = "chain" /\ Left /\ Clones /\ ctxDone
  /\ Return("cancelled", object, FALSE)
  /\ UNCHANGED <<setup, line, pos, object, fresh, member, given, output,
                 combined, failed, ran, ctxDone>>

(* A name without a handler is passed over.                                *)
SkipMissing(i) ==
  /\ IsNext(i) /\ ~Loops /\ ~Clones
  /\ Order[i] \notin registered
  /\ pos' = i
  /\ UNCHANGED <<setup, at, line, object, fresh, member, given, output,
                 combined, failed, ran, ctxDone, answer>>

RunMember(i) ==
  /\ IsNext(i) /\ (Clones => ~ctxDone)
  /\ Loops \/ Order[i] \in registered
  /\ at' = "running" /\ pos' = IF Loops THEN pos + 1 ELSE i
  /\ ran' = Append(ran, i)
  /\ member' = [member EXCEPT ![Order[i]] = "running"]
  /\ given' = [given EXCEPT ![Order[i]] = IF Clones THEN object ELSE @]
  /\ UNCHANGED <<setup, line, object, fresh, output, combined, failed, ctxDone,
                 answer>>

(* The chain is through, or a loop was told it is complete.                *)
Complete(state, told) ==
  CASE kind = "SequentialAgent" -> Return("none", state, TRUE)
    [] kind = "LoopAgent" /\ told -> Return("none", state, TRUE)
    [] kind = "LoopAgent" /\ ~told -> Return("max", state, FALSE)
    [] kind = "mixed" -> Return("none", combined \cup state, FALSE)
    [] OTHER -> Return("none", state, FALSE)

(* An agent returns the State as it was before the member that failed; an  *)
(* orchestrator returns none.                                              *)
MemberFails(m) ==
  /\ at = "running" /\ member[m] = "running"
  /\ member' = [member EXCEPT ![m] = "off"]
  /\ Return("member", IF Clones THEN object ELSE {}, FALSE)
  /\ failed' = failed \cup {m}
  /\ UNCHANGED <<setup, line, pos, object, fresh, given, output, combined, ran,
                 ctxDone>>

(* The output is the next input; a loop may be told that it is complete.   *)
MemberSucceeds(m) ==
  /\ at = "running" /\ member[m] = "running"
  /\ member' = [member EXCEPT ![m] = "off"]
  /\ \/ object' = View(m) /\ UNCHANGED fresh
     \/ object' \in {View(m) \cup {m}, {m}} /\ fresh' = TRUE
  /\ \/ at' = "chain" /\ UNCHANGED answer
     \/ Loops /\ Complete(object', TRUE)
  /\ UNCHANGED <<setup, line, pos, given, output, combined, failed, ran,
                 ctxDone>>

ChainEnds ==
  /\ at = "chain" /\ ~Left
  /\ Complete(object, FALSE)
  /\ UNCHANGED <<setup, line, pos, object, fresh, member, given, output,
                 combined, failed, ran, ctxDone>>
-----------------------------------------------------------------------------
TeamStep(m)  == FinishOnTeam(m) \/ Collect(m)
ChainStep    == \/ ChainCancelled \/ ChainEnds
                \/ \E i \in DOMAIN Order : SkipMissing(i) \/ RunMember(i)
ChainDone(m) == MemberFails(m) \/ MemberSucceeds(m)

EnsembleNext ==
  \/ \E m \in Members : RegisterAgent(m) \/ Write(m) \/ TeamStep(m)
                         \/ ChainDone(m)
  \/ Stop \/ Dispatch \/ ContextEnds \/ Gathered \/ ChainStep

EnsembleSpec == EnsembleInit /\ [][EnsembleNext]_ensembleVars

(* Members return and the dispatch goes on; writing, stopping, cancelling  *)
(* and the next dispatch are up to others.                                 *)
EnsembleFairSpec ==
  /\ EnsembleSpec
  /\ WF_ensembleVars(Gathered) /\ WF_ensembleVars(ChainStep)
  /\ \A m \in Members : /\ WF_ensembleVars(TeamStep(m))
                        /\ WF_ensembleVars(ChainDone(m))
-----------------------------------------------------------------------------
(* What the members that succeeded returned is in the State the dispatch   *)
(* returns, also when others failed.  (Of a State the members share, what  *)
(* the member itself wrote.)                                               *)
SuccessesKept ==
  at = "returned" /\ Concurrent /\ answer.error \in {"none", "partial"} =>
    \A m \in Members :
       output[m] # Failure =>
         (IF output[m].how = "same" THEN View(m) \cap {m}
                                    ELSE output[m].state)
            \subseteq answer.state

(* parallel.go:21 "It merges the results from successful agents", and      *)
(* sequential.go:127 "Return the state *before* the error occurred":       *)
(* nothing of a member that failed is in the State an agent returns.       *)
FailedLeaveNothing ==
  at = "returned" /\ kind \in {"ParallelAgent", "SequentialAgent"} =>
    failed \cap answer.state = {}

(* The State returned is what the members that succeeded made of it.       *)
StateReturned == SuccessesKept /\ FailedLeaveNothing

(* A dispatch that reports no error had none, except that the mixed one    *)
(* tolerates failures of some of its collaborative members.                *)
ErrorsSurface ==
  at = "returned" /\ answer.error = "none" =>
    IF kind = "mixed"
    THEN failed \subseteq Collaborative
         /\ (failed # {} => \E m \in Collaborative : output[m] # Failure)
    ELSE failed = {}

(* A sequence that reports success ran every name of it that has a         *)
(* handler, each once and in order: no Stop comes between.                 *)
EveryoneRan ==
  [][(Busy /\ at' = "returned" /\ answer'.error = "none") =>
       (kind \in {"sequential", "SequentialAgent"} =>
          /\ ToSet(ran) = Registered(line)
          /\ \A j, k \in DOMAIN ran : j < k => ran[j] < ran[k])]_ensembleVars

(* When the dispatch has returned no member is still running.              *)
NobodyLeft == at = "returned" => \A m \in Members : member[m] # "running"

(* A dispatch that has returned is over, and says so if it went wrong.     *)
EnsembleInv == EnsembleTypeOK /\ NobodyLeft /\ ErrorsSurface

(* Every dispatch returns, however often a loop's member asks for more.    *)
Returns == Busy ~> at = "returned"

(* A dispatch comes to its end with nobody passed over.                    *)
Completes == EveryoneRan /\ Returns
=============================================================================
