--------------------------- MODULE AgentRunProofs ---------------------------
(***************************************************************************)
(* Proofs about AgentRun, for any tools, middlewares, options and numbers  *)
(* of calls, iterations and runs.                                          *)
(***************************************************************************)
EXTENDS AgentRun, SequenceTheorems, FiniteSetTheorems, TLAPS

(* One goroutine uses the agent: what two runs at once do to the fields    *)
(* they share is not covered by what a run promises.                       *)
OneCaller == \E c \in Callers : Callers = {c}

Temperatures == {"base", "override"}
Outcomes == [call : Calls, ran : BOOLEAN]
Hooks == {"before", "after"} \X Nat
Messages == [role : {"user", "assistant"}, by : 1..MaxRuns]

Runs ==
  [at : Points, id : 0..MaxRuns, restores : BOOLEAN, opts : Options,
   saved : [tools : SUBSET Tools, temperature : Temperatures],
   stage : 0..Len(Middlewares), trail : Seq(Hooks), native : BOOLEAN,
   reply : Replies, todo : Replies, executed : Seq(Outcomes),
   reported : Seq(Outcomes), iteration : 0..MaxIterations, llm : Nat,
   failed : BOOLEAN, used : Temperatures, result : {"none", "ok", "error"}]

Typed ==
  /\ policy \in Policies /\ reasoning \in BOOLEAN
  /\ tools \subseteq Tools /\ base \subseteq Tools
  /\ temperature \in Temperatures /\ memory \in BOOLEAN
  /\ chat \in Seq(Messages)
  /\ metrics \in [runs : Nat, errors : Nat]
  /\ runs \in 0..MaxRuns
  /\ run \in [Callers -> Runs]

(* How far a run is in its loop of n iterations, as its calls of the       *)
(* provider count it.                                                      *)
Loop(r, n) ==
  /\ r.at = "idle" => r = NoRun
  /\ r.at # "idle" => r.id # 0
  /\ r.at \in {"idle", "before", "call"} =>
       /\ r.llm = 0 /\ r.iteration = 0 /\ ~r.failed
       /\ r.executed = <<>> /\ r.reported = <<>>
  /\ r.at \in {"tools", "execute"} => r.llm = r.iteration + 1
  /\ r.at = "continue" => r.llm = r.iteration
  /\ r.at \in {"tools", "execute", "continue"} => r.iteration < n
  /\ r.llm <= n
  /\ r.llm = 0 \/ r.failed =>
       r.at \in {"idle", "before", "call", "after", "return"}
  /\ r.failed => r.llm > 0

(* A run with structured calls has executed no call twice.                 *)
NoRepeats(r) ==
  r.native => \A i, j \in DOMAIN r.executed :
                 r.executed[i].call = r.executed[j].call => i = j

(* Of the middlewares that options keep, the first ones have begun, and    *)
(* the last ones have ended: those beyond the stage the run has reached.   *)
Whole(o) == Cardinality(Kept(o))

Begun(o, trail, k) ==
  \A j \in Kept(o) : j <= k => trail[Rank(o, j)] = <<"before", j>>

Ended(o, trail, k) ==
  \A j \in Kept(o) :
     j > k => trail[2 * Whole(o) + 1 - Rank(o, j)] = <<"after", j>>

(* The last hook to begin failed.                                          *)
Broken(o, trail) ==
  \E last \in Kept(o) : Begun(o, trail, last) /\ Len(trail) = Rank(o, last)

Middle == Points \ {"idle", "before", "after", "return"}

Nested(r) ==
  /\ r.at = "before" =>
       /\ r.stage < Len(Middlewares)
       /\ Begun(r.opts, r.trail, r.stage)
       /\ Len(r.trail) = Rank(r.opts, r.stage)
  /\ r.at \in Middle =>
       /\ r.stage = Len(Middlewares)
       /\ Begun(r.opts, r.trail, Len(Middlewares))
       /\ Len(r.trail) = Whole(r.opts)
  /\ r.at = "after" =>
       /\ r.stage > 0
       /\ Begun(r.opts, r.trail, Len(Middlewares))
       /\ Ended(r.opts, r.trail, r.stage)
       /\ Len(r.trail) = 2 * Whole(r.opts) - Rank(r.opts, r.stage)
  /\ r.at = "return" =>
       \/ Broken(r.opts, r.trail) /\ r.llm = 0 /\ r.result = "error"
       \/ /\ Begun(r.opts, r.trail, Len(Middlewares))
          /\ Ended(r.opts, r.trail, 0)
          /\ Len(r.trail) = 2 * Whole(r.opts)

(* What a run may do whoever else uses the agent.                          *)
Fine(r, n) == Loop(r, n) /\ NoRepeats(r) /\ Nested(r)

LocalInv == Typed /\ \A c \in Callers : Fine(run[c], Iterations)

(* The fields are those the options of the run ask for.                    *)
Overridden(r) ==
  /\ tools = Narrow(base, r.opts)
  /\ temperature = IF r.opts.hot THEN "override" ELSE "base"
  /\ memory = r.opts.memory
  /\ r.restores => r.saved = [tools |-> base, temperature |-> "base"]
  /\ ~r.restores => r.opts = PlainRun

Used(r) ==
  /\ r.llm > 0 => (r.used = "override") = r.opts.hot
  /\ \A i \in DOMAIN r.executed :
        r.executed[i].ran => r.executed[i].call.tool \in Narrow(base, r.opts)

(* With one tool, one call an iteration, and one call reported.            *)
Single(r) == Cardinality(Narrow(base, r.opts)) = 1 /\ policy # "all"

OneEach(r) ==
  Single(r) =>
    Len(r.executed) + (IF r.at = "execute" THEN Len(r.todo) ELSE 0) <=
      r.iteration + (IF r.at = "execute" THEN 1 ELSE 0)

Reported(r) ==
  r.at \in {"question", "answer", "handler", "after", "return"} =>
    \/ r.reported = r.executed
    \/ /\ Single(r) /\ Len(r.reported) = 1
       /\ r.reported[1] \in ToSet(r.executed)

(* The history: whole exchanges, but for the one that is being stored, by  *)
(* runs that may leave one.                                                *)
Silent(r) ==
  \/ r.at \in {"before", "call", "tools", "execute", "continue", "report",
               "question"}
  \/ ~r.opts.memory \/ r.llm = 0 \/ r.failed

Pending(r) == r.at \notin {"idle", "after", "return"}

Stored(r) ==
  /\ r.at = "answer" =>
       chat # <<>> /\ chat[Len(chat)] = [role |-> "user", by |-> r.id]
  /\ Silent(r) => \A i \in DOMAIN chat : chat[i].by # r.id
  /\ metrics.runs + (IF Pending(r) THEN 1 ELSE 0) <= runs
  /\ r.id <= runs

History ==
  /\ AnswerFollowsQuestion
  /\ \A i \in DOMAIN chat : chat[i].by <= runs
  /\ metrics.errors <= metrics.runs

SoleInv ==
  /\ LocalInv /\ History
  /\ \A c \in Callers :
        /\ Overridden(run[c]) /\ Used(run[c])
        /\ OneEach(run[c]) /\ Reported(run[c]) /\ Stored(run[c])
-----------------------------------------------------------------------------
(* Replies                                                                 *)

LEMMA Bounds == MaxCalls \in Nat /\ MaxRuns \in Nat
                /\ MaxIterations \in Nat \ {0}
BY AgentRunAssumption

LEMMA RepliesAre ==
  \A r : r \in Replies <=> r \in Seq(Calls) /\ Len(r) <= MaxCalls
<1>1. ASSUME NEW r \in Replies PROVE r \in Seq(Calls) /\ Len(r) <= MaxCalls
  <2>1. PICK m \in 0..MaxCalls : r \in [1..m -> Calls]
    BY <1>1 DEF Replies, BoundedSeq, SeqOf
  <2>2. m \in Nat /\ m <= MaxCalls
    BY <2>1, AgentRunAssumption
  <2>3. r \in Seq(Calls)
    BY <2>1, <2>2, SeqDef
  <2>4. Len(r) \in Nat /\ DOMAIN r = 1..Len(r) /\ DOMAIN r = 1..m
    BY <2>1, <2>3, LenProperties
  <2> QED
    BY <2>2, <2>3, <2>4, AgentRunAssumption
<1>2. ASSUME NEW r \in Seq(Calls), Len(r) <= MaxCalls PROVE r \in Replies
  <2>1. Len(r) \in 0..MaxCalls /\ r \in [1..Len(r) -> Calls]
    BY <1>2, LenProperties, AgentRunAssumption
  <2> QED
    BY <2>1 DEF Replies, BoundedSeq, SeqOf
<1> QED
  BY <1>1, <1>2

LEMMA ReplyParts ==
  /\ <<>> \in Replies
  /\ \A r \in Replies :
       /\ r \in Seq(Calls) /\ Len(r) \in Nat
       /\ r # <<>> => /\ Head(r) \in Calls /\ Tail(r) \in Replies
                      /\ Len(Tail(r)) = Len(r) - 1
                      /\ <<r[1]>> \in Replies
       /\ \A call \in ToSet(r) : call \in Calls /\ <<call>> \in Replies
<1> USE Bounds
<1>1. <<>> \in Replies
  <2>1. <<>> \in Seq(Calls) /\ Len(<<>>) = 0
    OBVIOUS
  <2>2. Len(<<>>) <= MaxCalls
    BY <2>1
  <2> QED
    BY <2>1, <2>2, RepliesAre, Zenon
<1>2. ASSUME NEW r \in Replies
      PROVE  /\ r \in Seq(Calls) /\ Len(r) \in Nat
             /\ r # <<>> => /\ Head(r) \in Calls /\ Tail(r) \in Replies
                            /\ Len(Tail(r)) = Len(r) - 1
                            /\ <<r[1]>> \in Replies
             /\ \A call \in ToSet(r) : call \in Calls /\ <<call>> \in Replies
  <2>1. r \in Seq(Calls) /\ Len(r) <= MaxCalls /\ Len(r) \in Nat
    BY RepliesAre, LenProperties
  <2>2. r # <<>> => Len(r) > 0 /\ Head(r) = r[1] /\ r[1] \in Calls
    BY <2>1, ElementOfSeq, EmptySeq, HeadTailProperties
  <2>3. r # <<>> => /\ Tail(r) \in Seq(Calls) /\ Len(Tail(r)) = Len(r) - 1
    BY <2>1, HeadTailProperties
  <2>4. r # <<>> => Tail(r) \in Replies
    <3>1. r # <<>> => Len(Tail(r)) <= MaxCalls
      BY <2>1, <2>3
    <3> QED
      BY <2>3, <3>1, RepliesAre, Zenon
  <2>5. ASSUME r # <<>>, NEW call \in Calls PROVE <<call>> \in Replies
    <3>1. <<call>> \in Seq(Calls) /\ Len(<<call>>) = 1 /\ 1 <= MaxCalls
      BY <2>1, <2>2, <2>5
    <3> QED
      BY <3>1, RepliesAre
  <2>6. ASSUME NEW call \in ToSet(r)
        PROVE  call \in Calls /\ <<call>> \in Replies
    <3>1. PICK i \in DOMAIN r : call = r[i]
      BY DEF ToSet
    <3>2. i \in 1..Len(r)
      BY <2>1, LenProperties
    <3>3. call \in Calls /\ r # <<>>
      BY <2>1, <3>1, <3>2, ElementOfSeq, EmptySeq
    <3> QED
      BY <2>5, <3>3
  <2> QED
    BY <2>1, <2>2, <2>3, <2>4, <2>5, <2>6
<1> QED
  BY <1>1, <1>2
-----------------------------------------------------------------------------
(* Ranks                                                                   *)

LEMMA Ranks ==
  ASSUME NEW o
  PROVE  /\ Len(Middlewares) \in Nat /\ Kept(o) \subseteq 1..Len(Middlewares)
         /\ Whole(o) \in Nat /\ Rank(o, 0) = 0
         /\ Rank(o, Len(Middlewares)) = Whole(o)
         /\ \A k \in 0..Len(Middlewares) : Rank(o, k) \in 0..Whole(o)
         /\ \A j, k \in 0..Len(Middlewares) :
              j <= k => Rank(o, j) <= Rank(o, k)
         /\ \A k \in 1..Len(Middlewares) :
              /\ k \in Kept(o) <=> ~Skips(o, k)
              /\ Rank(o, k) = IF Skips(o, k) THEN Rank(o, k - 1)
                              ELSE Rank(o, k - 1) + 1
<1> DEFINE n == Len(Middlewares)
           K(k) == {j \in Kept(o) : j <= k}
<1>1. n \in Nat /\ DOMAIN Middlewares = 1..n
  BY AgentRunAssumption, LenProperties
<1>2. Kept(o) \subseteq 1..n
  BY <1>1 DEF Kept
<1>3. IsFiniteSet(1..n)
  BY <1>1, FS_Interval
<1>4. IsFiniteSet(Kept(o)) /\ Whole(o) \in Nat
  BY <1>2, <1>3, FS_Subset, FS_CardinalityType DEF Whole
<1>5. \A k : IsFiniteSet(K(k)) /\ Cardinality(K(k)) <= Whole(o)
  BY <1>4, FS_Subset DEF Whole
<1>6. \A k : Cardinality(K(k)) \in Nat
  BY <1>5, FS_CardinalityType
<1>7. ASSUME NEW j \in 0..n, NEW k \in 0..n, j <= k
      PROVE  Cardinality(K(j)) <= Cardinality(K(k))
  <2>1. K(j) \subseteq K(k)
    BY <1>1, <1>2, <1>7
  <2> QED
    BY <2>1, <1>5, FS_Subset
<1>8. K(0) = {} /\ K(n) = Kept(o)
  BY <1>1, <1>2
<1>9. ASSUME NEW k \in 1..n
      PROVE  /\ k \in Kept(o) <=> ~Skips(o, k)
             /\ Cardinality(K(k)) = IF Skips(o, k) THEN Cardinality(K(k - 1))
                                    ELSE Cardinality(K(k - 1)) + 1
  <2>1. k \in Kept(o) <=> ~Skips(o, k)
    BY <1>1 DEF Kept
  <2>2. CASE Skips(o, k)
    <3>1. K(k) = K(k - 1)
      BY <1>1, <1>2, <2>1, <2>2
    <3> QED
      BY <2>1, <2>2, <3>1
  <2>3. CASE ~Skips(o, k)
    <3>1. K(k) = K(k - 1) \cup {k} /\ k \notin K(k - 1)
      BY <1>1, <1>2, <2>1, <2>3
    <3>2. Cardinality(K(k)) = Cardinality(K(k - 1)) + 1
      BY ZenonT(40), <1>5, <3>1, FS_AddElement
    <3> QED
      BY <2>1, <2>3, <3>2
  <2> QED
    BY <2>2, <2>3
<1>10. \A k : Rank(o, k) = Cardinality(K(k))
  BY DEF Rank
<1>11. Rank(o, 0) = 0 /\ Rank(o, n) = Whole(o)
  BY <1>8, <1>10, FS_EmptySet DEF Whole
<1>12. \A k \in 0..n : Rank(o, k) \in 0..Whole(o)
  <2>1. \A k : Rank(o, k) \in Nat /\ Rank(o, k) <= Whole(o)
    BY <1>5, <1>6, <1>10
  <2> QED
    BY <1>4, <2>1
<1> HIDE DEF K
<1> QED
  BY <1>1, <1>2, <1>4, <1>7, <1>9, <1>10, <1>11, <1>12

(* A hook that begins or ends takes the place of its rank.                 *)
LEMMA HookBegins ==
  ASSUME NEW o, NEW t \in Seq(Hooks), NEW k \in 1..Len(Middlewares),
         Begun(o, t, k - 1), Len(t) = Rank(o, k - 1), ~Skips(o, k)
  PROVE  /\ Append(t, <<"before", k>>) \in Seq(Hooks)
         /\ Begun(o, Append(t, <<"before", k>>), k)
         /\ Len(Append(t, <<"before", k>>)) = Rank(o, k)
<1> DEFINE s == Append(t, <<"before", k>>)
<1>1. Len(Middlewares) \in Nat /\ Len(t) \in Nat
  BY Ranks, LenProperties
<1>2. Rank(o, k) = Rank(o, k - 1) + 1 /\ Rank(o, k - 1) \in Nat
  BY Ranks, <1>1
<1>3. /\ s \in Seq(Hooks) /\ Len(s) = Len(t) + 1
      /\ s[Len(t) + 1] = <<"before", k>>
      /\ \A i \in 1..Len(t) : s[i] = t[i]
  BY <1>1, AppendProperties DEF Hooks
<1>4. ASSUME NEW j \in Kept(o), j <= k PROVE s[Rank(o, j)] = <<"before", j>>
  <2>1. j \in 1..Len(Middlewares)
    BY Ranks
  <2>2. CASE j = k
    BY <1>2, <1>3, <2>2
  <2>3. CASE j # k
    <3>1. j <= k - 1
      BY <1>1, <1>4, <2>1, <2>3
    <3>2. Rank(o, j) <= Rank(o, k - 1)
      BY Ranks, <1>1, <2>1, <3>1
    <3>3. Rank(o, j) = Rank(o, j - 1) + 1 /\ Rank(o, j - 1) \in Nat
      BY Ranks, <1>1, <2>1
    <3>4. Rank(o, j) \in 1..Len(t)
      BY <1>1, <1>2, <3>2, <3>3
    <3>5. t[Rank(o, j)] = <<"before", j>>
      BY <3>1 DEF Begun
    <3> QED
      BY <1>3, <3>4, <3>5
  <2> QED
    BY <2>2, <2>3
<1>5. Begun(o, s, k)
  BY <1>4 DEF Begun
<1> QED
  BY <1>2, <1>3, <1>5

LEMMA HookEnds ==
  ASSUME NEW o, NEW t \in Seq(Hooks), NEW k \in 1..Len(Middlewares),
         Begun(o, t, Len(Middlewares)), Ended(o, t, k),
         Len(t) = 2 * Whole(o) - Rank(o, k), ~Skips(o, k)
  PROVE  /\ Append(t, <<"after", k>>) \in Seq(Hooks)
         /\ Begun(o, Append(t, <<"after", k>>), Len(Middlewares))
         /\ Ended(o, Append(t, <<"after", k>>), k - 1)
         /\ Len(Append(t, <<"after", k>>)) = 2 * Whole(o) - Rank(o, k - 1)
<1> DEFINE s == Append(t, <<"after", k>>)
<1>1. /\ Len(Middlewares) \in Nat /\ Len(t) \in Nat /\ Whole(o) \in Nat
      /\ Rank(o, k) \in 0..Whole(o)
  BY Ranks, LenProperties
<1>2. Rank(o, k) = Rank(o, k - 1) + 1 /\ Rank(o, k - 1) \in Nat
  BY Ranks, <1>1
<1>3. /\ s \in Seq(Hooks) /\ Len(s) = Len(t) + 1
      /\ s[Len(t) + 1] = <<"after", k>>
      /\ \A i \in 1..Len(t) : s[i] = t[i]
  BY <1>1, AppendProperties DEF Hooks
<1>4. ASSUME NEW j \in Kept(o)
      PROVE  /\ j \in 1..Len(Middlewares) /\ Rank(o, j) \in 1..Whole(o)
  <2>1. j \in 1..Len(Middlewares)
    BY Ranks
  <2>2. Rank(o, j) = Rank(o, j - 1) + 1 /\ Rank(o, j - 1) \in Nat
    BY Ranks, <1>1, <2>1
  <2>3. Rank(o, j) <= Whole(o)
    BY Ranks, <1>1, <2>1
  <2> QED
    BY <1>1, <2>1, <2>2, <2>3
<1>5. ASSUME NEW j \in Kept(o) PROVE s[Rank(o, j)] = <<"before", j>>
  <2>1. Rank(o, j) \in 1..Len(t)
    BY <1>1, <1>4
  <2>2. t[Rank(o, j)] = <<"before", j>>
    BY <1>1, <1>4 DEF Begun
  <2> QED
    BY <1>3, <2>1, <2>2
<1>6. ASSUME NEW j \in Kept(o), j > k - 1
      PROVE  s[2 * Whole(o) + 1 - Rank(o, j)] = <<"after", j>>
  <2>1. CASE j = k
    <3>1. 2 * Whole(o) + 1 - Rank(o, j) = Len(t) + 1
      BY <1>1, <2>1
    <3> QED
      BY <1>3, <2>1, <3>1
  <2>2. CASE j # k
    <3>1. j > k /\ k <= j - 1
      BY <1>1, <1>4, <1>6, <2>2
    <3>2. Rank(o, j) = Rank(o, j - 1) + 1 /\ Rank(o, j - 1) \in Nat
      BY Ranks, <1>1, <1>4
    <3>3. Rank(o, k) <= Rank(o, j - 1)
      BY Ranks, <1>1, <1>4, <3>1
    <3>4. 2 * Whole(o) + 1 - Rank(o, j) \in 1..Len(t)
      BY <1>1, <1>4, <3>2, <3>3
    <3>5. t[2 * Whole(o) + 1 - Rank(o, j)] = <<"after", j>>
      BY <3>1 DEF Ended
    <3> QED
      BY <1>3, <3>4, <3>5
  <2> QED
    BY <2>1, <2>2
<1>7. Begun(o, s, Len(Middlewares)) /\ Ended(o, s, k - 1)
  BY <1>5, <1>6 DEF Begun, Ended
<1> QED
  BY <1>1, <1>2, <1>3, <1>7

(* One that is skipped leaves the trail as it is.                          *)
LEMMA HookSkipped ==
  ASSUME NEW o, NEW t, NEW k \in 1..Len(Middlewares), Skips(o, k)
  PROVE  /\ Rank(o, k) = Rank(o, k - 1)
         /\ Begun(o, t, k - 1) => Begun(o, t, k)
         /\ Ended(o, t, k) => Ended(o, t, k - 1)
<1>1. Len(Middlewares) \in Nat /\ k \notin Kept(o)
      /\ Kept(o) \subseteq 1..Len(Middlewares)
  BY Ranks
<1>2. Rank(o, k) = Rank(o, k - 1)
  BY Ranks
<1>3. \A j \in Kept(o) : (j <= k => j <= k - 1) /\ (j > k - 1 => j > k)
  BY <1>1
<1> QED
  BY <1>2, <1>3 DEF Begun, Ended

------
-----------------------------------------------------------------------------
(* A run on its own                                                        *)

LEMMA Budget ==
  ASSUME reasoning \in BOOLEAN
  PROVE  Iterations \in Nat \ {0} /\ Iterations <= MaxIterations
BY Bounds DEF Iterations

LEMMA NoRunFine ==
  /\ NoRun \in Runs /\ PlainRun \in Options
  /\ \A n \in Nat : Fine(NoRun, n)
<1> USE Bounds
<1>1. PlainRun \in Options
  BY DEF PlainRun, Options
<1>2. 0 \in 0..Len(Middlewares)
  BY Ranks
<1>3. <<>> \in Seq(Hooks) /\ <<>> \in Seq(Outcomes) /\ <<>> \in Replies
  BY ReplyParts
<1>4. NoRun \in Runs
  BY <1>1, <1>2, <1>3 DEF NoRun, Runs, Points, Temperatures
<1>5. \A n \in Nat : Loop(NoRun, n)
  BY DEF NoRun, Loop
<1>6. NoRepeats(NoRun) /\ Nested(NoRun)
  BY DEF NoRun, NoRepeats, Nested, Middle
<1> QED
  BY <1>1, <1>4, <1>5, <1>6 DEF Fine

(* A step of one run leaves the others alone.                              *)
LEMMA OneMoves ==
  ASSUME LocalInv, NEW c \in Callers, UNCHANGED <<policy, reasoning>>,
         base' \subseteq Tools, tools' \subseteq Tools,
         temperature' \in Temperatures,
         memory' \in BOOLEAN, chat' \in Seq(Messages),
         metrics' \in [runs : Nat, errors : Nat], runs' \in 0..MaxRuns,
         run' = [run EXCEPT ![c] = run'[c]], run'[c] \in Runs,
         Fine(run'[c], Iterations)
  PROVE  LocalInv'
<1>1. Iterations' = Iterations /\ policy' = policy /\ reasoning' = reasoning
  BY DEF Iterations
<1>2. /\ run' \in [Callers -> Runs]
      /\ \A d \in Callers : d # c => run'[d] = run[d]
  BY DEF LocalInv, Typed
<1>3. Typed'
  BY <1>1, <1>2 DEF LocalInv, Typed
<1>4. \A d \in Callers : Fine(run'[d], Iterations)
  BY <1>2 DEF LocalInv
<1> QED
  BY <1>1, <1>3, <1>4 DEF LocalInv

LEMMA LocalRun ==
  ASSUME LocalInv, NEW c \in Callers, NEW o \in Options, Bounded,
         NEW restores \in BOOLEAN,
         NEW saved \in [tools : SUBSET Tools, temperature : Temperatures],
         NEW r, r = [NoRun EXCEPT !.at = FirstStop, !.id = runs + 1,
                                  !.opts = o, !.restores = restores,
                                  !.saved = saved]
  PROVE  r \in Runs /\ Fine(r, Iterations)
<1> USE Bounds
<1>1. /\ runs \in 0..MaxRuns /\ runs + 1 \in 1..MaxRuns
      /\ Iterations \in Nat
  BY Budget DEF LocalInv, Typed, Bounded
<1>2. r \in Runs
  <2>1. FirstStop \in Points /\ NoRun \in Runs
    BY NoRunFine DEF FirstStop, Points
  <2>2. runs + 1 \in 0..MaxRuns
    BY <1>1
  <2> QED
    BY <2>1, <2>2 DEF Runs
<1>3. Loop(r, Iterations) /\ NoRepeats(r)
  BY <1>1 DEF NoRun, Loop, NoRepeats, FirstStop
<1>4. /\ Len(Middlewares) \in Nat /\ Kept(o) \subseteq 1..Len(Middlewares)
      /\ Rank(o, 0) = 0 /\ Rank(o, Len(Middlewares)) = Whole(o)
  BY Ranks
<1>5. Begun(o, <<>>, 0)
  BY <1>4 DEF Begun
<1>6. /\ r.opts = o /\ r.trail = <<>> /\ r.stage = 0 /\ r.at = FirstStop
      /\ Len(<<>>) = 0
  BY DEF NoRun
<1>7. CASE Middlewares = <<>>
  <2>1. Len(Middlewares) = 0 /\ r.at = "call"
    BY <1>6, <1>7 DEF FirstStop
  <2> QED
    BY <1>2, <1>3, <1>4, <1>5, <1>6, <2>1 DEF Nested, Middle, Fine
<1>8. CASE Middlewares # <<>>
  <2>1. Len(Middlewares) > 0 /\ r.at = "before"
    BY <1>4, <1>6, <1>8, AgentRunAssumption, EmptySeq DEF FirstStop
  <2> QED
    BY <1>2, <1>3, <1>4, <1>5, <1>6, <2>1 DEF Nested, Middle, Fine
<1> QED
  BY <1>7, <1>8

(* The hooks are nested as long as the run is between them ...             *)
LEMMA StaysMiddle ==
  ASSUME NEW r, NEW s, Nested(r), r.at \in Middle, s.at \in Middle,
         s.stage = r.stage, s.trail = r.trail, s.opts = r.opts
  PROVE  Nested(s)
BY DEF Nested, Middle

(* ... and when executeInner is over.                                      *)
LEMMA EndsMiddle ==
  ASSUME NEW r, NEW s, Nested(r), r.at \in Middle,
         s.at = IF r.stage = 0 THEN "return" ELSE "after",
         s.stage = r.stage, s.trail = r.trail, s.opts = r.opts
  PROVE  Nested(s)
<1> DEFINE n == Len(Middlewares)
           o == r.opts
           t == r.trail
<1>1. r.stage = n /\ Begun(o, t, n) /\ Len(t) = Whole(o)
  BY DEF Nested
<1>2. /\ n \in Nat /\ Kept(o) \subseteq 1..n /\ Whole(o) \in Nat
      /\ Rank(o, 0) = 0 /\ Rank(o, n) = Whole(o)
  BY Ranks
<1>3. Ended(o, t, n)
  BY <1>2 DEF Ended
<1>4. CASE n = 0
  <2>1. Whole(o) = 0 /\ s.at = "return"
    BY <1>1, <1>2, <1>4
  <2>2. Len(t) = 2 * Whole(o)
    BY <1>1, <2>1
  <2> HIDE DEF n
  <2>3. Begun(s.opts, s.trail, n) /\ Ended(s.opts, s.trail, 0)
        /\ Len(s.trail) = 2 * Whole(s.opts)
    BY <1>1, <1>3, <1>4, <2>2
  <2> QED
    BY <2>1, <2>3 DEF Nested, Middle, n
<1>5. CASE n # 0
  <2>1. s.at = "after" /\ s.stage > 0
    BY <1>1, <1>2, <1>5
  <2>2. Len(t) = 2 * Whole(o) - Rank(o, n)
    BY <1>1, <1>2
  <2> HIDE DEF n
  <2>3. /\ Begun(s.opts, s.trail, n) /\ Ended(s.opts, s.trail, s.stage)
        /\ Len(s.trail) = 2 * Whole(s.opts) - Rank(s.opts, s.stage)
    BY <1>1, <1>3, <2>2
  <2> QED
    BY <2>1, <2>3 DEF Nested, Middle, n
<1> QED
  BY <1>4, <1>5

LEMMA Facts ==
  ASSUME LocalInv, NEW c \in Callers
  PROVE  /\ run[c] \in Runs /\ Loop(run[c], Iterations)
         /\ NoRepeats(run[c]) /\ Nested(run[c])
         /\ Iterations \in Nat \ {0} /\ Iterations <= MaxIterations
         /\ MaxIterations \in Nat
         /\ tools \subseteq Tools /\ base \subseteq Tools
         /\ temperature \in Temperatures
         /\ memory \in BOOLEAN /\ chat \in Seq(Messages)
         /\ metrics \in [runs : Nat, errors : Nat] /\ runs \in 0..MaxRuns
         /\ run \in [Callers -> Runs]
BY Budget, Bounds DEF LocalInv, Typed, Fine

LEMMA LocalBeforeRun ==
  ASSUME LocalInv, NEW c \in Callers, BeforeRun(c)
  PROVE  LocalInv'
<1> DEFINE r == run[c]
           k == r.stage + 1
           n == Len(Middlewares)
           o == r.opts
           t == IF Skips(o, k) THEN r.trail
                ELSE Append(r.trail, <<"before", k>>)
<1>1. PICK s : /\ run' = [run EXCEPT ![c] = s]
               /\ \/ s = [r EXCEPT !.trail = t, !.stage = k,
                                   !.at = IF k = n THEN "call" ELSE @]
                  \/ /\ ~Skips(o, k)
                     /\ s = [r EXCEPT !.trail = t, !.result = "error",
                                      !.at = "return"]
  <2>1. \/ run' = [run EXCEPT ![c] =
                      [r EXCEPT !.trail = t, !.stage = k,
                                !.at = IF k = n THEN "call" ELSE @]]
        \/ /\ ~Skips(o, k)
           /\ run' = [run EXCEPT ![c] =
                        [r EXCEPT !.trail = t, !.result = "error",
                                  !.at = "return"]]
    BY Facts DEF BeforeRun
  <2> QED
    BY <2>1
<1>2. /\ r \in Runs /\ r.at = "before" /\ Loop(r, Iterations)
      /\ NoRepeats(r) /\ r.trail \in Seq(Hooks) /\ r.stage \in 0..n
      /\ r.stage < n /\ Begun(o, r.trail, r.stage)
      /\ Len(r.trail) = Rank(o, r.stage)
  BY Facts DEF BeforeRun, At, Runs, Nested
<1>3. /\ n \in Nat /\ k \in 1..n /\ k - 1 = r.stage /\ Rank(o, n) = Whole(o)
      /\ \A j \in 1..n : j \in Kept(o) <=> ~Skips(o, j)
  BY <1>2, Ranks
<1>4. t \in Seq(Hooks) /\ Begun(o, t, k) /\ Len(t) = Rank(o, k)
  <2>1. Begun(o, r.trail, k - 1) /\ Len(r.trail) = Rank(o, k - 1)
    BY <1>2, <1>3
  <2>2. CASE Skips(o, k)
    BY <1>2, <1>3, <2>1, <2>2, HookSkipped
  <2>3. CASE ~Skips(o, k)
    BY <1>2, <1>3, <2>1, <2>3, HookBegins
  <2> QED
    BY <2>2, <2>3
<1> HIDE DEF t
<1>5. s \in Runs /\ Loop(s, Iterations) /\ NoRepeats(s)
  <2>1. CASE s = [r EXCEPT !.trail = t, !.stage = k,
                           !.at = IF k = n THEN "call" ELSE @]
    <3>1. k \in 0..n /\ (IF k = n THEN "call" ELSE r.at) \in Points
      BY <1>2, <1>3 DEF Points
    <3>2. s \in Runs
      BY <1>2, <1>4, <2>1, <3>1 DEF Runs
    <3> QED
      BY <1>2, <2>1, <3>2 DEF Loop, NoRepeats, Runs
  <2>2. CASE s = [r EXCEPT !.trail = t, !.result = "error", !.at = "return"]
    <3>1. s \in Runs
      BY <1>2, <1>4, <2>2 DEF Runs, Points
    <3> QED
      BY <1>2, <2>2, <3>1 DEF Loop, NoRepeats, Runs
  <2> QED
    BY <1>1, <2>1, <2>2
<1>6. Nested(s)
  <2>1. CASE s = [r EXCEPT !.trail = t, !.stage = k,
                           !.at = IF k = n THEN "call" ELSE @]
    <3>1. /\ s.opts = o /\ s.trail = t /\ s.stage = k
          /\ s.at = IF k = n THEN "call" ELSE "before"
      BY <1>2, <2>1 DEF Runs
    <3>2. CASE k = n
      BY <1>3, <1>4, <3>1, <3>2 DEF Nested, Middle
    <3>3. CASE k # n
      BY <1>3, <1>4, <3>1, <3>3 DEF Nested, Middle
    <3> QED
      BY <3>2, <3>3
  <2>2. CASE /\ ~Skips(o, k)
             /\ s = [r EXCEPT !.trail = t, !.result = "error", !.at = "return"]
    <3>1. /\ s.opts = o /\ s.trail = t /\ s.at = "return"
          /\ s.result = "error" /\ s.llm = r.llm
      BY <1>2, <2>2 DEF Runs
    <3>2. Broken(o, t) /\ r.llm = 0
      BY <1>2, <1>3, <1>4, <2>2 DEF Broken, Loop
    <3> QED
      BY <3>1, <3>2 DEF Nested, Middle
  <2> QED
    BY <1>1, <2>1, <2>2
<1>7. run'[c] = s
  BY <1>1, Facts
<1>8. UNCHANGED <<config, tools, temperature, memory, chat, metrics, runs>>
  BY DEF BeforeRun, agentFields
<1> QED
  BY <1>1, <1>5, <1>6, <1>7, <1>8, OneMoves, Facts DEF Fine, config

LEMMA LocalAfterRun ==
  ASSUME LocalInv, NEW c \in Callers, AfterRun(c)
  PROVE  LocalInv'
<1> DEFINE r == run[c]
           k == r.stage
           n == Len(Middlewares)
           o == r.opts
           t == IF Skips(o, k) THEN r.trail
                ELSE Append(r.trail, <<"after", k>>)
<1>1. PICK s, x : /\ run' = [run EXCEPT ![c] = s]
                  /\ x \in AfterOutcomes(c, k)
                  /\ s = [r EXCEPT !.trail = t, !.stage = k - 1, !.result = x,
                                   !.at = IF k = 1 THEN "return" ELSE @]
  <2>1. \E x \in AfterOutcomes(c, k) :
           run' = [run EXCEPT ![c] =
                     [r EXCEPT !.trail = t, !.stage = k - 1, !.result = x,
                               !.at = IF k = 1 THEN "return" ELSE @]]
    BY ZenonT(40), Facts DEF AfterRun
  <2> QED
    BY <2>1
<1>2. /\ r \in Runs /\ r.at = "after" /\ Loop(r, Iterations)
      /\ NoRepeats(r) /\ r.trail \in Seq(Hooks) /\ k \in 0..n
      /\ k > 0 /\ Begun(o, r.trail, n) /\ Ended(o, r.trail, k)
      /\ Len(r.trail) = 2 * Whole(o) - Rank(o, k)
  BY Facts DEF AfterRun, At, Runs, Nested
<1>3. /\ n \in Nat /\ k \in 1..n /\ k - 1 \in 0..n /\ Rank(o, 0) = 0
      /\ Whole(o) \in Nat
  BY <1>2, Ranks
<1>4. /\ t \in Seq(Hooks) /\ Begun(o, t, n) /\ Ended(o, t, k - 1)
      /\ Len(t) = 2 * Whole(o) - Rank(o, k - 1)
  BY <1>2, <1>3, HookEnds, HookSkipped
<1>5. x \in {"none", "ok", "error"}
  BY <1>1, <1>2 DEF AfterOutcomes, Runs
<1> HIDE DEF t
<1>6. s \in Runs
  BY <1>1, <1>2, <1>3, <1>4, <1>5 DEF Runs, Points
<1>7. Loop(s, Iterations) /\ NoRepeats(s)
  BY <1>1, <1>2 DEF Loop, NoRepeats, Runs
<1>8. Nested(s)
  <2>1. /\ s.opts = o /\ s.trail = t /\ s.stage = k - 1
        /\ s.at = IF k = 1 THEN "return" ELSE "after"
    BY <1>1, <1>2 DEF Runs
  <2>2. CASE k = 1
    <3>1. k - 1 = 0 /\ Len(t) = 2 * Whole(o)
      BY <1>3, <1>4, <2>2
    <3> QED
      BY <1>4, <2>1, <2>2, <3>1 DEF Nested, Middle
  <2>3. CASE k # 1
    <3>1. k - 1 > 0
      BY <1>3, <2>3
    <3> QED
      BY <1>4, <2>1, <2>3, <3>1 DEF Nested, Middle
  <2> QED
    BY <2>2, <2>3
<1>9. run'[c] = s
  BY <1>1, Facts
<1>10. UNCHANGED <<config, tools, temperature, memory, chat, metrics, runs>>
  BY DEF AfterRun, agentFields
<1> QED
  BY <1>1, <1>6, <1>7, <1>8, <1>9, <1>10, OneMoves, Facts DEF Fine, config

(* The call of the provider                                                *)

LEMMA LocalPromptFails ==
  ASSUME LocalInv, NEW c \in Callers, PromptFails(c)
  PROVE  LocalInv'
<1> DEFINE r == run[c]
           s == ToAfter(r, "error")
<1>1. run' = [run EXCEPT ![c] = s] /\ r.at = "call"
  BY DEF PromptFails, At
<1>2. r \in Runs /\ Loop(r, Iterations) /\ NoRepeats(r) /\ Nested(r)
  BY Facts
<1>3. /\ s \in Runs /\ s.at = (IF r.stage = 0 THEN "return" ELSE "after")
      /\ s.stage = r.stage /\ s.trail = r.trail /\ s.opts = r.opts
  BY <1>2 DEF ToAfter, Runs, Points
<1>4. Loop(s, Iterations) /\ NoRepeats(s)
  BY <1>1, <1>2 DEF ToAfter, Loop, NoRepeats, Runs
<1>5. Nested(s)
  BY <1>1, <1>2, <1>3, EndsMiddle DEF Middle, Points
<1> HIDE DEF s
<1>6. run'[c] = s
  BY <1>1, Facts
<1>7. UNCHANGED <<config, tools, temperature, memory, chat, metrics, runs>>
  BY DEF PromptFails, agentFields
<1> QED
  BY <1>1, <1>3, <1>4, <1>5, <1>6, <1>7, OneMoves, Facts DEF Fine, config

LEMMA LocalCallFails ==
  ASSUME LocalInv, NEW c \in Callers, CallFails(c)
  PROVE  LocalInv'
<1> DEFINE r == run[c]
           q == [r EXCEPT !.llm = 1, !.failed = TRUE, !.used = temperature]
           s == ToAfter(q, "error")
<1>1. run' = [run EXCEPT ![c] = s] /\ r.at = "call"
  BY DEF CallFails, At
<1>2. /\ r \in Runs /\ Loop(r, Iterations) /\ NoRepeats(r) /\ Nested(r)
      /\ temperature \in Temperatures /\ Iterations \in Nat \ {0}
      /\ metrics \in [runs : Nat, errors : Nat]
  BY Facts
<1>3. /\ s \in Runs /\ s.at = (IF r.stage = 0 THEN "return" ELSE "after")
      /\ s.stage = r.stage /\ s.trail = r.trail /\ s.opts = r.opts
  BY <1>2 DEF ToAfter, Runs, Points
<1>4. Loop(s, Iterations) /\ NoRepeats(s)
  BY <1>1, <1>2 DEF ToAfter, Loop, NoRepeats, Runs
<1>5. Nested(s)
  BY <1>1, <1>2, <1>3, EndsMiddle DEF Middle, Points
<1> HIDE DEF s
<1>6. run'[c] = s
  BY <1>1, Facts
<1>7. /\ UNCHANGED <<config, tools, temperature, memory, chat, runs>>
      /\ metrics' \in [runs : Nat, errors : Nat]
  BY <1>2 DEF CallFails, agentFields
<1> QED
  BY <1>1, <1>3, <1>4, <1>5, <1>6, <1>7, OneMoves, Facts DEF Fine, config

LEMMA LocalCallSucceeds ==
  ASSUME LocalInv, NEW c \in Callers, CallSucceeds(c)
  PROVE  LocalInv'
<1> DEFINE r == run[c]
<1>1. PICK reply \in Replies, structured \in BOOLEAN :
        run' = [run EXCEPT
                  ![c].llm = 1, ![c].used = temperature,
                  ![c].reply = IF tools = {} THEN <<>> ELSE reply,
                  ![c].native = structured,
                  ![c].at = IF tools = {} THEN "question" ELSE "tools"]
  BY DEF CallSucceeds
<1> DEFINE s == [r EXCEPT
                   !.llm = 1, !.used = temperature,
                   !.reply = IF tools = {} THEN <<>> ELSE reply,
                   !.native = structured,
                   !.at = IF tools = {} THEN "question" ELSE "tools"]
<1>2. run' = [run EXCEPT ![c] = s] /\ r.at = "call"
  BY ZenonT(40), <1>1, Facts DEF CallSucceeds, At
<1>3. /\ r \in Runs /\ Loop(r, Iterations) /\ NoRepeats(r) /\ Nested(r)
      /\ temperature \in Temperatures /\ Iterations \in Nat \ {0}
  BY Facts
<1>4. s \in Runs
  BY <1>3, ReplyParts DEF Runs, Points
<1>5. /\ s.at \in {"question", "tools"} /\ s.stage = r.stage
      /\ s.trail = r.trail /\ s.opts = r.opts
  BY <1>3 DEF Runs
<1>6. Loop(s, Iterations) /\ NoRepeats(s)
  BY <1>2, <1>3 DEF Loop, NoRepeats, Runs
<1> HIDE DEF s
<1>7. Nested(s)
  BY <1>2, <1>3, <1>5, StaysMiddle DEF Middle, Points
<1>8. run'[c] = s
  BY <1>2, Facts
<1>9. UNCHANGED <<config, tools, temperature, memory, chat, metrics, runs>>
  BY DEF CallSucceeds, agentFields
<1> QED
  BY <1>2, <1>4, <1>6, <1>7, <1>8, <1>9, OneMoves, Facts DEF Fine, config

(* The loop of tool calls                                                  *)

LEMMA LocalSelectCalls ==
  ASSUME LocalInv, NEW c \in Callers, SelectCalls(c)
  PROVE  LocalInv'
<1> DEFINE r == run[c]
<1>1. /\ r \in Runs /\ Loop(r, Iterations) /\ NoRepeats(r) /\ Nested(r)
      /\ r.at = "tools" /\ r.reply \in Replies
  BY Facts DEF SelectCalls, At, Runs
<1>2. PICK s : /\ run' = [run EXCEPT ![c] = s]
               /\ \/ s = [r EXCEPT !.at = "report"]
                  \/ \E todo \in Replies :
                        s = [r EXCEPT !.todo = todo, !.at = "execute"]
  <2>1. CASE r.reply = <<>> /\ run' = [run EXCEPT ![c].at = "report"]
    <3>1. run' = [run EXCEPT ![c] = [r EXCEPT !.at = "report"]]
      BY <2>1, Facts
    <3> QED
      BY <3>1
  <2>2. ASSUME r.reply # <<>>,
               NEW todo \in IF ~OnlyOne(r.reply) THEN {r.reply}
                            ELSE IF policy = "first" THEN {<<r.reply[1]>>}
                            ELSE Best(r.reply),
               run' = [run EXCEPT ![c].todo = todo, ![c].at = "execute"]
        PROVE  \E x \in Replies :
                  run' = [run EXCEPT ![c] =
                            [r EXCEPT !.todo = x, !.at = "execute"]]
    <3>1. <<r.reply[1]>> \in Replies /\ Best(r.reply) \subseteq Replies
      BY <1>1, <2>2, ReplyParts DEF Best
    <3>2. todo \in Replies
      BY <1>1, <2>2, <3>1
    <3>3. run' = [run EXCEPT ![c] =
                    [r EXCEPT !.todo = todo, !.at = "execute"]]
      BY <2>2, Facts
    <3> QED
      BY <3>2, <3>3
  <2> QED
    BY <2>1, <2>2 DEF SelectCalls
<1>3. s \in Runs /\ s.at \in {"report", "execute"}
  <2>1. CASE s = [r EXCEPT !.at = "report"]
    BY <1>1, <2>1 DEF Runs, Points
  <2>2. ASSUME NEW todo \in Replies,
               s = [r EXCEPT !.todo = todo, !.at = "execute"]
        PROVE  s \in Runs /\ s.at \in {"report", "execute"}
    BY <1>1, <2>2 DEF Runs, Points
  <2> QED
    BY <1>2, <2>1, <2>2
<1>4. s.stage = r.stage /\ s.trail = r.trail /\ s.opts = r.opts
  BY <1>1, <1>2 DEF Runs
<1>5. Loop(s, Iterations) /\ NoRepeats(s)
  <2>1. /\ s.id = r.id /\ s.llm = r.llm /\ s.iteration = r.iteration
        /\ s.failed = r.failed /\ s.executed = r.executed
        /\ s.native = r.native
    BY ZenonT(40), <1>1, <1>2 DEF Runs
  <2> QED
    BY <1>1, <1>3, <2>1 DEF Loop, NoRepeats
<1>6. Nested(s)
  BY <1>1, <1>3, <1>4, StaysMiddle DEF Middle, Points
<1>7. run'[c] = s
  BY <1>2, Facts
<1>8. UNCHANGED <<config, tools, temperature, memory, chat, metrics, runs>>
  BY DEF SelectCalls, agentFields
<1> QED
  BY <1>2, <1>3, <1>5, <1>6, <1>7, <1>8, OneMoves, Facts DEF Fine, config

LEMMA LocalExecuteTool ==
  ASSUME LocalInv, NEW c \in Callers, ExecuteTool(c)
  PROVE  LocalInv'
<1> DEFINE r == run[c]
           call == Head(r.todo)
           out == Outcome(call, call.tool \in tools)
           more == IF Seen(c, call) THEN r.executed
                   ELSE Append(r.executed, out)
           s == [r EXCEPT !.todo = Tail(r.todo), !.executed = more]
<1>1. /\ r \in Runs /\ Loop(r, Iterations) /\ NoRepeats(r) /\ Nested(r)
      /\ r.at = "execute" /\ r.todo \in Replies /\ r.todo # <<>>
      /\ r.executed \in Seq(Outcomes)
  BY Facts DEF ExecuteTool, At, Runs
<1>2. run' = [run EXCEPT ![c] = s]
  BY Facts DEF ExecuteTool
<1>3. call \in Calls /\ Tail(r.todo) \in Replies
  BY <1>1, ReplyParts
<1>4. out \in Outcomes /\ out.call = call
  BY <1>3 DEF Outcome, Outcomes
<1> HIDE DEF out, call
<1>5. more \in Seq(Outcomes)
  BY <1>1, <1>4, AppendProperties
<1>6. NoRepeats(s)
  <2>1. s.native = r.native /\ s.executed = more
    BY <1>1 DEF Runs
  <2>2. CASE Seen(c, call) \/ ~r.native
    BY <1>1, <2>1, <2>2 DEF NoRepeats, Runs
  <2>3. CASE ~Seen(c, call) /\ r.native
    <3>1. /\ more = Append(r.executed, out) /\ Len(r.executed) \in Nat
          /\ DOMAIN r.executed = 1..Len(r.executed)
      BY <1>1, <2>3, LenProperties
    <3>2. /\ DOMAIN more = 1..(Len(r.executed) + 1)
          /\ more[Len(r.executed) + 1] = out
          /\ \A i \in 1..Len(r.executed) : more[i] = r.executed[i]
      BY <1>1, <1>4, <3>1, AppendProperties, LenProperties
    <3>3. \A i \in 1..Len(r.executed) : r.executed[i].call # call
      BY <2>3, <3>1 DEF Seen
    <3>4. \A i, j \in 1..Len(r.executed) :
             r.executed[i].call = r.executed[j].call => i = j
      BY <1>1, <2>3, <3>1 DEF NoRepeats
    <3> HIDE DEF more
    <3>5. ASSUME NEW i \in DOMAIN more, NEW j \in DOMAIN more,
                 more[i].call = more[j].call
          PROVE  i = j
      <4>1. /\ i \in 1..Len(r.executed) \/ i = Len(r.executed) + 1
            /\ j \in 1..Len(r.executed) \/ j = Len(r.executed) + 1
        BY <3>1, <3>2, <3>5
      <4> QED
        BY <1>4, <3>2, <3>3, <3>4, <3>5, <4>1
    <3> QED
      BY <2>1, <3>5 DEF NoRepeats
  <2> QED
    BY <2>2, <2>3
<1> HIDE DEF more
<1>7. s \in Runs
  BY <1>1, <1>3, <1>5 DEF Runs
<1>8. Loop(s, Iterations)
  BY <1>1 DEF Loop, Runs
<1>9. Nested(s)
  BY ZenonT(40), <1>1, StaysMiddle DEF Middle, Points, Runs
<1> HIDE DEF s
<1>10. run'[c] = s
  BY <1>2, Facts
<1>11. UNCHANGED <<config, tools, temperature, memory, chat, metrics, runs>>
  BY DEF ExecuteTool, agentFields
<1> QED
  BY <1>2, <1>6, <1>7, <1>8, <1>9, <1>10, <1>11, OneMoves, Facts
  DEF Fine, config

LEMMA LocalEndIteration ==
  ASSUME LocalInv, NEW c \in Callers, EndIteration(c)
  PROVE  LocalInv'
<1> DEFINE r == run[c]
           s == [r EXCEPT !.iteration = r.iteration + 1,
                          !.at = IF r.iteration + 1 >= Iterations
                                 THEN "report" ELSE "continue"]
<1>1. /\ r \in Runs /\ Loop(r, Iterations) /\ NoRepeats(r) /\ Nested(r)
      /\ r.at = "execute" /\ r.iteration \in 0..MaxIterations
      /\ Iterations \in Nat /\ Iterations <= MaxIterations
      /\ MaxIterations \in Nat
  BY Facts DEF EndIteration, At, Runs
<1>2. run' = [run EXCEPT ![c] = s]
  BY Facts DEF EndIteration
<1>3. r.iteration < Iterations /\ r.iteration + 1 \in 0..MaxIterations
  BY <1>1 DEF Loop
<1>4. s \in Runs /\ s.at \in {"report", "continue"}
  BY <1>1, <1>3 DEF Runs, Points
<1>5. Loop(s, Iterations) /\ NoRepeats(s)
  BY <1>1, <1>3 DEF Loop, NoRepeats, Runs
<1>6. s.stage = r.stage /\ s.trail = r.trail /\ s.opts = r.opts
  BY <1>1 DEF Runs
<1> HIDE DEF s
<1>7. Nested(s)
  BY <1>1, <1>4, <1>6, StaysMiddle DEF Middle, Points
<1>8. run'[c] = s
  BY <1>2, Facts
<1>9. UNCHANGED <<config, tools, temperature, memory, chat, metrics, runs>>
  BY DEF EndIteration, agentFields
<1> QED
  BY <1>2, <1>4, <1>5, <1>7, <1>8, <1>9, OneMoves, Facts DEF Fine, config

LEMMA LocalContinue ==
  ASSUME LocalInv, NEW c \in Callers, Continue(c)
  PROVE  LocalInv'
<1> DEFINE r == run[c]
<1>1. /\ r \in Runs /\ Loop(r, Iterations) /\ NoRepeats(r) /\ Nested(r)
      /\ r.at = "continue" /\ r.reply \in Replies /\ r.llm \in Nat
      /\ r.iteration \in 0..MaxIterations /\ MaxIterations \in Nat
      /\ Iterations \in Nat
  BY Facts DEF Continue, At, Runs
<1>2. PICK reply \in Replies, p \in {"report", "tools"} :
        run' = [run EXCEPT ![c] = [r EXCEPT !.llm = r.llm + 1, !.at = p,
                                            !.reply = reply]]
  <2>1. CASE run' = [run EXCEPT ![c].llm = @ + 1, ![c].at = "report"]
    <3>1. run' = [run EXCEPT ![c] = [r EXCEPT !.llm = r.llm + 1,
                                              !.at = "report"]]
      BY <2>1, Facts
    <3>2. [r EXCEPT !.llm = r.llm + 1, !.at = "report"] =
            [r EXCEPT !.llm = r.llm + 1, !.at = "report", !.reply = r.reply]
      BY <1>1 DEF Runs
    <3> QED
      BY <1>1, <3>1, <3>2
  <2>2. ASSUME NEW reply \in Replies,
               run' = [run EXCEPT ![c].llm = @ + 1, ![c].at = "tools",
                                  ![c].reply = reply]
        PROVE  run' = [run EXCEPT ![c] = [r EXCEPT !.llm = r.llm + 1,
                                            !.at = "tools", !.reply = reply]]
    BY <2>2, Facts
  <2> QED
    BY <2>1, <2>2 DEF Continue
<1> DEFINE s == [r EXCEPT !.llm = r.llm + 1, !.at = p, !.reply = reply]
<1>3. s \in Runs /\ s.at \in {"report", "tools"}
  <2>1. p \in Points /\ r.llm + 1 \in Nat
    BY <1>1 DEF Points
  <2>2. s \in Runs
    BY <1>1, <2>1 DEF Runs
  <2>3. s.at = p
    BY <1>1 DEF Runs
  <2> QED
    BY <2>2, <2>3
<1>4. Loop(s, Iterations) /\ NoRepeats(s)
  BY <1>1 DEF Loop, NoRepeats, Runs
<1>5. s.stage = r.stage /\ s.trail = r.trail /\ s.opts = r.opts
  BY <1>1 DEF Runs
<1>6. run' = [run EXCEPT ![c] = s]
  BY <1>2
<1> HIDE DEF s
<1>7. Nested(s)
  BY <1>1, <1>3, <1>5, StaysMiddle DEF Middle, Points
<1>8. run'[c] = s
  BY <1>6, Facts
<1>9. UNCHANGED <<config, tools, temperature, memory, chat, metrics, runs>>
  BY DEF Continue, agentFields
<1> QED
  BY <1>3, <1>4, <1>6, <1>7, <1>8, <1>9, OneMoves, Facts DEF Fine, config

LEMMA BestOf ==
  ASSUME NEW S, NEW q \in Seq(S), NEW b \in Best(q)
  PROVE  b \in Seq(S) /\ Len(b) = 1 /\ b[1] \in ToSet(q)
<1>1. PICK call \in ToSet(q) : b = <<call>>
  BY DEF Best
<1>2. call \in S
  <2>1. PICK i \in DOMAIN q : call = q[i]
    BY DEF ToSet
  <2> QED
    BY <2>1, LenProperties, ElementOfSeq
<1> QED
  BY <1>1, <1>2

LEMMA LocalReport ==
  ASSUME LocalInv, NEW c \in Callers, Report(c)
  PROVE  LocalInv'
<1> DEFINE r == run[c]
<1>1. /\ r \in Runs /\ Loop(r, Iterations) /\ NoRepeats(r) /\ Nested(r)
      /\ r.at = "report" /\ r.executed \in Seq(Outcomes)
  BY Facts DEF Report, At, Runs
<1>2. PICK calls \in IF OnlyOne(r.executed) THEN Best(r.executed)
                     ELSE {r.executed} :
        run' = [run EXCEPT ![c].reported = calls, ![c].at = "question"]
  BY DEF Report
<1>3. calls \in Seq(Outcomes)
  BY <1>1, BestOf
<1> DEFINE s == [r EXCEPT !.reported = calls, !.at = "question"]
<1>4. run' = [run EXCEPT ![c] = s]
  BY <1>2, Facts
<1>5. s \in Runs /\ s.at = "question"
  BY <1>1, <1>3 DEF Runs, Points
<1>6. Loop(s, Iterations) /\ NoRepeats(s)
  BY <1>1 DEF Loop, NoRepeats, Runs
<1>7. s.stage = r.stage /\ s.trail = r.trail /\ s.opts = r.opts
  BY <1>1 DEF Runs
<1> HIDE DEF s
<1>8. Nested(s)
  BY <1>1, <1>5, <1>7, StaysMiddle DEF Middle, Points
<1>9. run'[c] = s
  BY <1>4, Facts
<1>10. UNCHANGED <<config, tools, temperature, memory, chat, metrics, runs>>
  BY DEF Report, agentFields
<1> QED
  BY <1>4, <1>5, <1>6, <1>8, <1>9, <1>10, OneMoves, Facts DEF Fine, config

(* The history and the handler                                             *)

LEMMA MessageTyped ==
  ASSUME LocalInv, NEW c \in Callers, ~At(c, "idle"),
         NEW role \in {"user", "assistant"}
  PROVE  Message(c, role) \in Messages
         /\ Append(chat, Message(c, role)) \in Seq(Messages)
<1>1. run[c].id \in 0..MaxRuns /\ run[c].id # 0 /\ MaxRuns \in Nat
  BY Facts, Bounds DEF At, Loop, Runs
<1>2. Message(c, role) \in Messages
  BY <1>1 DEF Message, Messages
<1> QED
  BY <1>2, Facts, AppendProperties

LEMMA LocalStore ==
  ASSUME LocalInv, NEW c \in Callers, StoreQuestion(c) \/ StoreAnswer(c)
  PROVE  LocalInv'
<1> DEFINE r == run[c]
<1>1. /\ r \in Runs /\ Loop(r, Iterations) /\ NoRepeats(r) /\ Nested(r)
      /\ chat \in Seq(Messages) /\ r.at \in {"question", "answer"}
  BY Facts DEF StoreQuestion, StoreAnswer, At
<1>2. chat' \in Seq(Messages)
  BY <1>1, MessageTyped DEF StoreQuestion, StoreAnswer, At
<1>3. PICK p \in {"handler", "answer"} :
        run' = [run EXCEPT ![c] = [r EXCEPT !.at = p]]
  <2>1. \E p \in {"handler", "answer"} : run' = [run EXCEPT ![c].at = p]
    BY DEF StoreQuestion, StoreAnswer
  <2> QED
    BY <2>1, Facts
<1> DEFINE s == [r EXCEPT !.at = p]
<1>4. s \in Runs /\ s.at \in {"handler", "answer"}
  BY <1>1 DEF Runs, Points
<1>5. Loop(s, Iterations) /\ NoRepeats(s)
  BY <1>1 DEF Loop, NoRepeats, Runs
<1>6. s.stage = r.stage /\ s.trail = r.trail /\ s.opts = r.opts
  BY <1>1 DEF Runs
<1>7. run' = [run EXCEPT ![c] = s]
  BY <1>3
<1> HIDE DEF s
<1>8. Nested(s)
  BY <1>1, <1>4, <1>6, StaysMiddle DEF Middle, Points
<1>9. run'[c] = s
  BY <1>7, Facts
<1>10. UNCHANGED <<config, tools, temperature, memory, metrics, runs>>
  BY DEF StoreQuestion, StoreAnswer, agentFields
<1> QED
  BY <1>2, <1>4, <1>5, <1>7, <1>8, <1>9, <1>10, OneMoves, Facts
  DEF Fine, config

LEMMA LocalHandle ==
  ASSUME LocalInv, NEW c \in Callers, Handle(c)
  PROVE  LocalInv'
<1> DEFINE r == run[c]
           s == ToAfter(r, "ok")
<1>1. run' = [run EXCEPT ![c] = s] /\ r.at = "handler"
  BY DEF Handle, At
<1>2. /\ r \in Runs /\ Loop(r, Iterations) /\ NoRepeats(r) /\ Nested(r)
      /\ metrics \in [runs : Nat, errors : Nat]
  BY Facts
<1>3. /\ s \in Runs /\ s.at = (IF r.stage = 0 THEN "return" ELSE "after")
      /\ s.stage = r.stage /\ s.trail = r.trail /\ s.opts = r.opts
  BY <1>2 DEF ToAfter, Runs, Points
<1>4. Loop(s, Iterations) /\ NoRepeats(s)
  BY <1>1, <1>2 DEF ToAfter, Loop, NoRepeats, Runs
<1> HIDE DEF s
<1>5. Nested(s)
  BY <1>1, <1>2, <1>3, EndsMiddle DEF Middle, Points
<1>6. run'[c] = s
  BY <1>1, Facts
<1>7. /\ UNCHANGED <<config, tools, temperature, memory, chat, runs>>
      /\ metrics' \in [runs : Nat, errors : Nat]
  BY <1>2 DEF Handle, agentFields
<1> QED
  BY <1>1, <1>3, <1>4, <1>5, <1>6, <1>7, OneMoves, Facts DEF Fine, config

(* How a run begins and returns                                            *)

LEMMA Narrowed ==
  ASSUME NEW ts, NEW o PROVE Narrow(ts, o) \subseteq ts
BY DEF Narrow

LEMMA LocalReturn ==
  ASSUME LocalInv, NEW c \in Callers, Return(c)
  PROVE  LocalInv'
<1>1. run' = [run EXCEPT ![c] = NoRun] /\ run'[c] = NoRun
  BY Facts DEF Return
<1>2. NoRun \in Runs /\ Fine(NoRun, Iterations)
  BY Facts, NoRunFine
<1>3. /\ run[c].saved.tools \subseteq Tools
      /\ run[c].saved.temperature \in Temperatures
      /\ run[c].opts.memory \in BOOLEAN
  BY Facts DEF Runs, Options
<1>4. /\ tools' \subseteq Tools /\ temperature' \in Temperatures
      /\ memory' \in BOOLEAN
  BY <1>3, Facts DEF Return, agentFields
<1>5. UNCHANGED <<config, chat, metrics, runs>>
  BY DEF Return
<1> QED
  BY <1>1, <1>2, <1>4, <1>5, OneMoves, Facts DEF config

LEMMA LocalBegin ==
  ASSUME LocalInv, NEW c \in Callers,
         \/ Run(c)
         \/ \E o \in OptionSet : RunWithOptions(c, o)
         \/ \E o \in StreamOptions : RunStreamWithOptions(c, o)
  PROVE  LocalInv'
<1>1. CASE Run(c)
  <2> DEFINE s == [NoRun EXCEPT !.at = FirstStop, !.id = runs + 1]
  <2>1. /\ run' = [run EXCEPT ![c] = s] /\ Bounded
        /\ runs' = runs + 1
        /\ UNCHANGED <<config, tools, temperature, memory, chat, metrics>>
    BY <1>1 DEF Run, agentFields
  <2>2. /\ PlainRun \in Options
        /\ NoRun.saved \in [tools : SUBSET Tools, temperature : Temperatures]
    BY NoRunFine DEF NoRun, Temperatures
  <2>3. s = [NoRun EXCEPT !.at = FirstStop, !.id = runs + 1, !.opts = PlainRun,
                          !.restores = FALSE, !.saved = NoRun.saved]
    <3>1. NoRun.opts = PlainRun /\ NoRun.restores = FALSE
      BY DEF NoRun
    <3> QED
      BY <3>1, NoRunFine DEF Runs
  <2> HIDE DEF s
  <2>4. s \in Runs /\ Fine(s, Iterations)
    BY <2>1, <2>2, <2>3, LocalRun
  <2>5. runs' \in 0..MaxRuns
    BY <2>1, Facts, Bounds DEF Bounded
  <2>6. run'[c] = s
    BY <2>1, Facts
  <2> QED
    BY <2>1, <2>4, <2>5, <2>6, OneMoves, Facts DEF config
<1>2. ASSUME NEW o \in OptionSet, RunWithOptions(c, o) PROVE LocalInv'
  <2> DEFINE saved == [tools |-> tools, temperature |-> temperature]
             s == [NoRun EXCEPT !.at = FirstStop, !.id = runs + 1, !.opts = o,
                                !.restores = TRUE, !.saved = saved]
  <2>1. /\ run' = [run EXCEPT ![c] = s] /\ Bounded
        /\ runs' = runs + 1 /\ UNCHANGED <<config, chat, metrics>>
    BY <1>2 DEF RunWithOptions
  <2>2. /\ o \in Options /\ o.hot \in BOOLEAN /\ o.memory \in BOOLEAN
        /\ saved \in [tools : SUBSET Tools, temperature : Temperatures]
    BY Facts, AgentRunAssumption DEF Options
  <2>3. /\ tools' \subseteq Tools /\ temperature' \in Temperatures
        /\ memory' \in BOOLEAN
    BY <1>2, <2>2, Facts, Narrowed DEF RunWithOptions, Temperatures
  <2>4. s \in Runs /\ Fine(s, Iterations)
    BY <2>1, <2>2, LocalRun
  <2> HIDE DEF s
  <2>5. runs' \in 0..MaxRuns
    BY <2>1, Facts, Bounds DEF Bounded
  <2>6. run'[c] = s
    BY <2>1, Facts
  <2> QED
    BY <2>1, <2>3, <2>4, <2>5, <2>6, OneMoves, Facts DEF config
<1>3. ASSUME NEW o \in StreamOptions, RunStreamWithOptions(c, o)
      PROVE  LocalInv'
  <2>1. /\ UNCHANGED <<policy, reasoning, temperature, memory, chat, metrics,
                       run>>
        /\ tools' \subseteq Tools /\ base' \subseteq Tools
        /\ runs' = runs + 1 /\ Bounded
    BY <1>3, Facts, Narrowed DEF RunStreamWithOptions
  <2>2. runs' \in 0..MaxRuns
    BY <2>1, Facts, Bounds DEF Bounded
  <2>3. run' = [run EXCEPT ![c] = run'[c]] /\ run'[c] = run[c]
    BY <2>1, Facts
  <2>4. run[c] \in Runs /\ Fine(run[c], Iterations)
    BY Facts DEF Fine
  <2> QED
    BY <2>1, <2>2, <2>3, <2>4, OneMoves, Facts DEF config
<1> QED
  BY <1>1, <1>2, <1>3

LEMMA LocalInit == Init => LocalInv
<1> SUFFICES ASSUME Init PROVE LocalInv
  OBVIOUS
<1>1. NoRun \in Runs /\ Fine(NoRun, Iterations)
  BY NoRunFine, Budget DEF Init
<1>2. run \in [Callers -> Runs] /\ \A c \in Callers : run[c] = NoRun
  BY <1>1 DEF Init
<1>3. /\ chat \in Seq(Messages) /\ runs \in 0..MaxRuns
      /\ metrics \in [runs : Nat, errors : Nat]
  BY Bounds DEF Init
<1>4. Typed
  BY <1>2, <1>3 DEF Init, Typed, Temperatures
<1> QED
  BY <1>1, <1>2, <1>4 DEF LocalInv

LEMMA LocalNext == LocalInv /\ [Next]_vars => LocalInv'
<1> SUFFICES ASSUME LocalInv, [Next]_vars PROVE LocalInv'
  OBVIOUS
<1>1. CASE UNCHANGED vars
  <2>1. Iterations' = Iterations
    BY <1>1 DEF vars, config, Iterations
  <2> QED
    BY <1>1, <2>1 DEF LocalInv, Typed, vars, config, agentFields
<1>2. ASSUME NEW c \in Callers, Step(c) PROVE LocalInv'
  BY <1>2, LocalBeforeRun, LocalPromptFails, LocalCallFails,
     LocalCallSucceeds, LocalSelectCalls, LocalExecuteTool, LocalEndIteration,
     LocalContinue, LocalReport, LocalStore, LocalHandle, LocalAfterRun,
     LocalReturn
     DEF Step
<1> QED
  BY <1>1, <1>2, LocalBegin DEF Next

(* Of a run that returns, every middleware it keeps has begun and ended,   *)
(* in reverse order, or the last one that began failed                     *)
(* (runBeforeMiddleware and runAfterMiddleware), however many use the      *)
(* agent at once.                                                          *)
THEOREM MiddlewaresNest == Spec => []MiddlewareNesting
<1>1. LocalInv => MiddlewareNesting
  <2> SUFFICES ASSUME LocalInv, NEW c \in Callers, At(c, "return")
               PROVE  LET kept == Kept(run[c].opts)
                          rank(k) == Rank(run[c].opts, k)
                          n == Cardinality(kept)
                          trail == run[c].trail
                      IN  \/ /\ Len(trail) = 2 * n
                             /\ \A k \in kept :
                                  /\ trail[rank(k)] = <<"before", k>>
                                  /\ trail[2 * n + 1 - rank(k)] =
                                       <<"after", k>>
                          \/ \E last \in kept :
                               /\ Len(trail) = rank(last)
                               /\ \A k \in kept :
                                    k <= last =>
                                      trail[rank(k)] = <<"before", k>>
                               /\ run[c].llm = 0 /\ run[c].result = "error"
    BY DEF MiddlewareNesting
  <2> DEFINE r == run[c]
  <2>1. Nested(r) /\ r.at = "return"
    BY Facts DEF At
  <2>2. /\ Len(Middlewares) \in Nat
        /\ Kept(r.opts) \subseteq 1..Len(Middlewares)
    BY Ranks
  <2>3. CASE Broken(r.opts, r.trail) /\ r.llm = 0 /\ r.result = "error"
    BY <2>3 DEF Broken, Begun
  <2>4. CASE /\ Begun(r.opts, r.trail, Len(Middlewares))
             /\ Ended(r.opts, r.trail, 0)
             /\ Len(r.trail) = 2 * Whole(r.opts)
    <3>1. \A k \in Kept(r.opts) : k <= Len(Middlewares) /\ k > 0
      BY <2>2
    <3> QED
      BY <2>4, <3>1 DEF Begun, Ended, Whole
  <2> QED
    BY <2>1, <2>3, <2>4 DEF Nested
<1> QED
  BY <1>1, LocalInit, LocalNext, PTL DEF Spec
-----------------------------------------------------------------------------
(* A run that has the agent to itself                                      *)

LEMMA SoleFacts ==
  ASSUME SoleInv, NEW c \in Callers
  PROVE  /\ LocalInv /\ History /\ Overridden(run[c]) /\ Used(run[c])
         /\ OneEach(run[c]) /\ Reported(run[c]) /\ Stored(run[c])
BY DEF SoleInv

(* A step inside a run that stores nothing.                                *)
LEMMA Quiet ==
  ASSUME SoleInv, NEW c \in Callers, Callers = {c}, LocalInv',
         UNCHANGED <<config, tools, temperature, memory, chat, metrics, runs>>,
         run'[c].opts = run[c].opts, run'[c].restores = run[c].restores,
         run'[c].saved = run[c].saved, run'[c].id = run[c].id,
         run'[c].at # "answer", Silent(run'[c]) => Silent(run[c]),
         Pending(run'[c]) => Pending(run[c]),
         Used(run'[c]), OneEach(run'[c]), Reported(run'[c])
  PROVE  SoleInv'
<1>1. History'
  BY SoleFacts DEF History, AnswerFollowsQuestion
<1>2. Overridden(run[c])'
  BY SoleFacts DEF Overridden, config
<1>3. Used(run[c])' /\ OneEach(run[c])' /\ Reported(run[c])'
  BY DEF Used, OneEach, Reported, Single, config
<1>4. Stored(run[c])'
  <2>1. /\ metrics.runs \in Nat /\ runs \in Nat
    BY SoleFacts, Facts
  <2> QED
    BY <2>1, SoleFacts DEF Stored, Silent, Pending
<1> QED
  BY <1>1, <1>2, <1>3, <1>4 DEF SoleInv

(* Of a run whose loop is not in question.                                 *)
LEMMA QuietLoop ==
  ASSUME NEW r, NEW s, Used(r), OneEach(r), s.opts = r.opts, s.llm = r.llm,
         s.used = r.used, s.executed = r.executed, s.iteration = r.iteration,
         s.at # "execute", r.at # "execute"
  PROVE  Used(s) /\ OneEach(s)
BY DEF Used, OneEach, Single

LEMMA SoleHooks ==
  ASSUME SoleInv, NEW c \in Callers, Callers = {c}, LocalInv',
         BeforeRun(c) \/ AfterRun(c)
  PROVE  SoleInv'
<1> DEFINE r == run[c]
           s == run'[c]
<1>1. /\ r \in Runs /\ run \in [Callers -> Runs] /\ Used(r) /\ OneEach(r)
      /\ Reported(r) /\ Stored(r) /\ Loop(r, Iterations)
  BY SoleFacts, Facts
<1>2. /\ s.opts = r.opts /\ s.restores = r.restores /\ s.saved = r.saved
      /\ s.id = r.id /\ s.llm = r.llm /\ s.used = r.used
      /\ s.executed = r.executed /\ s.reported = r.reported
      /\ s.iteration = r.iteration /\ s.failed = r.failed
      /\ \/ r.at = "before" /\ s.at \in {"before", "call", "return"}
         \/ r.at = "after" /\ s.at \in {"after", "return"}
  <2>1. CASE BeforeRun(c)
    <3> DEFINE k == r.stage + 1
               t == IF Skips(r.opts, k) THEN r.trail
                    ELSE Append(r.trail, <<"before", k>>)
    <3>1. /\ r.at = "before"
          /\ \/ run' = [run EXCEPT ![c].trail = t, ![c].stage = k,
                                   ![c].at = IF k = Len(Middlewares)
                                             THEN "call" ELSE @]
             \/ run' = [run EXCEPT ![c].trail = t, ![c].result = "error",
                                   ![c].at = "return"]
      BY <2>1 DEF BeforeRun, At
    <3> HIDE DEF k, t
    <3>2. CASE run' = [run EXCEPT ![c].trail = t, ![c].stage = k,
                                  ![c].at = IF k = Len(Middlewares)
                                            THEN "call" ELSE @]
      BY <1>1, <3>1, <3>2 DEF Runs
    <3>3. CASE run' = [run EXCEPT ![c].trail = t, ![c].result = "error",
                                  ![c].at = "return"]
      BY <1>1, <3>1, <3>3 DEF Runs
    <3> QED
      BY <3>1, <3>2, <3>3
  <2>2. CASE AfterRun(c)
    <3> DEFINE k == r.stage
               t == IF Skips(r.opts, k) THEN r.trail
                    ELSE Append(r.trail, <<"after", k>>)
    <3>1. r.at = "after"
      BY <2>2 DEF AfterRun, At
    <3>2. PICK x \in AfterOutcomes(c, k) :
            run' = [run EXCEPT ![c].trail = IF Skips(r.opts, k) THEN @
                                            ELSE Append(@, <<"after", k>>),
                               ![c].stage = k - 1, ![c].result = x,
                               ![c].at = IF k = 1 THEN "return" ELSE @]
      BY <2>2 DEF AfterRun
    <3>3. run' = [run EXCEPT ![c].trail = t, ![c].stage = k - 1,
                             ![c].result = x,
                             ![c].at = IF k = 1 THEN "return" ELSE @]
      BY <1>1, <3>2
    <3> HIDE DEF k, t
    <3> QED
      BY <1>1, <3>1, <3>3 DEF Runs
  <2> QED
    BY <2>1, <2>2
<1>3. Used(s) /\ OneEach(s)
  BY <1>1, <1>2, QuietLoop
<1>4. Reported(s)
  BY <1>1, <1>2 DEF Reported, Single, Loop
<1>5. /\ Silent(s) => Silent(r)
      /\ Pending(s) => Pending(r)
  BY <1>2 DEF Silent, Pending
<1>6. UNCHANGED <<config, tools, temperature, memory, chat, metrics, runs>>
  BY DEF BeforeRun, AfterRun, agentFields
<1> QED
  BY <1>2, <1>3, <1>4, <1>5, <1>6, Quiet

LEMMA SoleFieldFacts ==
  ASSUME SoleInv, NEW c \in Callers
  PROVE  /\ tools = Narrow(base, run[c].opts)
         /\ run[c].opts.hot \in BOOLEAN /\ run[c].opts.memory \in BOOLEAN
         /\ (temperature = "override") = run[c].opts.hot
         /\ memory = run[c].opts.memory
BY SoleFacts, Facts DEF Overridden, Runs, Options

LEMMA SolePromptFails ==
  ASSUME SoleInv, NEW c \in Callers, Callers = {c}, LocalInv', PromptFails(c)
  PROVE  SoleInv'
<1> DEFINE r == run[c]
           s == run'[c]
<1>1. /\ r \in Runs /\ run \in [Callers -> Runs] /\ Used(r) /\ OneEach(r)
      /\ Reported(r) /\ Stored(r) /\ Loop(r, Iterations)
  BY SoleFacts, Facts
<1>2. /\ s.opts = r.opts /\ s.restores = r.restores /\ s.saved = r.saved
      /\ s.id = r.id /\ s.llm = r.llm /\ s.used = r.used
      /\ s.executed = r.executed /\ s.reported = r.reported
      /\ s.iteration = r.iteration /\ s.failed = r.failed
      /\ r.at = "call" /\ s.at \in {"after", "return"}
  BY <1>1 DEF PromptFails, ToAfter, At, Runs
<1>3. Used(s) /\ OneEach(s)
  BY <1>1, <1>2, QuietLoop
<1>4. Reported(s)
  BY <1>1, <1>2 DEF Reported, Loop
<1>5. Silent(r) /\ ~Pending(s)
  BY <1>2 DEF Silent, Pending
<1>6. UNCHANGED <<config, tools, temperature, memory, chat, metrics, runs>>
  BY DEF PromptFails, agentFields
<1> QED
  BY <1>2, <1>3, <1>4, <1>5, <1>6, Quiet

LEMMA SoleCallSucceeds ==
  ASSUME SoleInv, NEW c \in Callers, Callers = {c}, LocalInv', CallSucceeds(c)
  PROVE  SoleInv'
<1> DEFINE r == run[c]
           s == run'[c]
<1>1. /\ r \in Runs /\ run \in [Callers -> Runs] /\ Used(r) /\ OneEach(r)
      /\ Reported(r) /\ Stored(r) /\ Loop(r, Iterations)
  BY SoleFacts, Facts
<1>2. /\ s.opts = r.opts /\ s.restores = r.restores /\ s.saved = r.saved
      /\ s.id = r.id /\ s.used = temperature
      /\ s.executed = r.executed /\ s.reported = r.reported
      /\ s.iteration = r.iteration
      /\ r.at = "call" /\ s.at \in {"question", "tools"}
  <2>1. PICK reply, structured :
          run' = [run EXCEPT
                    ![c].llm = 1, ![c].used = temperature,
                    ![c].reply = reply, ![c].native = structured,
                    ![c].at = IF tools = {} THEN "question" ELSE "tools"]
    BY DEF CallSucceeds
  <2> QED
    BY <1>1, <2>1 DEF CallSucceeds, At, Runs
<1>3. r.executed = <<>> /\ r.reported = <<>> /\ r.iteration = 0
  BY <1>1, <1>2 DEF Loop
<1>4. Used(s)
  BY <1>2, <1>3, SoleFieldFacts DEF Used
<1>5. OneEach(s)
  BY <1>2, <1>3 DEF OneEach
<1>6. Reported(s)
  BY <1>2, <1>3 DEF Reported
<1>7. Silent(r) /\ Pending(r)
  BY <1>2 DEF Silent, Pending
<1>8. UNCHANGED <<config, tools, temperature, memory, chat, metrics, runs>>
  BY DEF CallSucceeds, agentFields
<1> QED
  BY <1>2, <1>4, <1>5, <1>6, <1>7, <1>8, Quiet

LEMMA SoleSelectCalls ==
  ASSUME SoleInv, NEW c \in Callers, Callers = {c}, LocalInv', SelectCalls(c)
  PROVE  SoleInv'
<1> DEFINE r == run[c]
           s == run'[c]
<1>1. /\ r \in Runs /\ run \in [Callers -> Runs] /\ Used(r) /\ OneEach(r)
      /\ Reported(r) /\ Stored(r) /\ Loop(r, Iterations)
      /\ r.reply \in Replies /\ Len(r.reply) \in Nat
      /\ r.executed \in Seq(Outcomes) /\ Len(r.executed) \in Nat
  BY SoleFacts, Facts, ReplyParts, LenProperties DEF Runs
<1>2. /\ s.opts = r.opts /\ s.restores = r.restores /\ s.saved = r.saved
      /\ s.id = r.id /\ s.llm = r.llm /\ s.used = r.used
      /\ s.executed = r.executed /\ s.reported = r.reported
      /\ s.iteration = r.iteration
      /\ r.at = "tools" /\ s.at \in {"report", "execute"}
      /\ s.at = "execute" =>
            s.todo \in IF ~OnlyOne(r.reply) THEN {r.reply}
                       ELSE IF policy = "first" THEN {<<r.reply[1]>>}
                       ELSE Best(r.reply)
  <2>1. r.at = "tools"
    BY DEF SelectCalls, At
  <2>2. CASE run' = [run EXCEPT ![c].at = "report"]
    <3>1. s = [r EXCEPT !.at = "report"]
      BY <1>1, <2>2
    <3> QED
      BY <1>1, <2>1, <3>1 DEF Runs
  <2>3. ASSUME NEW todo \in IF ~OnlyOne(r.reply) THEN {r.reply}
                            ELSE IF policy = "first" THEN {<<r.reply[1]>>}
                            ELSE Best(r.reply),
               run' = [run EXCEPT ![c].todo = todo, ![c].at = "execute"]
        PROVE  /\ s = [r EXCEPT !.todo = todo, !.at = "execute"]
               /\ s.todo = todo
    BY <1>1, <2>3 DEF Runs
  <2>4. \/ run' = [run EXCEPT ![c].at = "report"]
        \/ \E todo \in IF ~OnlyOne(r.reply) THEN {r.reply}
                       ELSE IF policy = "first" THEN {<<r.reply[1]>>}
                       ELSE Best(r.reply) :
              run' = [run EXCEPT ![c].todo = todo, ![c].at = "execute"]
    BY DEF SelectCalls
  <2>5. ASSUME NEW todo \in IF ~OnlyOne(r.reply) THEN {r.reply}
                            ELSE IF policy = "first" THEN {<<r.reply[1]>>}
                            ELSE Best(r.reply),
               s = [r EXCEPT !.todo = todo, !.at = "execute"]
        PROVE  /\ s.opts = r.opts /\ s.restores = r.restores
               /\ s.saved = r.saved /\ s.id = r.id /\ s.llm = r.llm
               /\ s.used = r.used /\ s.executed = r.executed
               /\ s.reported = r.reported /\ s.iteration = r.iteration
               /\ s.at = "execute"
    BY <1>1, <2>5 DEF Runs
  <2> QED
    BY <2>1, <2>2, <2>3, <2>4, <2>5
<1>3. r.iteration \in Nat /\ (Single(s) <=> Single(r))
  BY <1>1, <1>2, Bounds DEF Runs, Single
<1>4. Used(s)
  BY <1>1, <1>2 DEF Used
<1>5. OneEach(s)
  <2>1. Single(r) => Len(r.executed) <= r.iteration
    BY <1>1, <1>2, <1>3 DEF OneEach
  <2>2. s.at = "execute" /\ Single(r) => Len(s.todo) <= 1
    <3>1. \A b \in Best(r.reply) : Len(b) = 1
      BY <1>1, ReplyParts, BestOf
    <3>2. Single(r) /\ ~OnlyOne(r.reply) => Len(r.reply) <= 1
      BY <1>1, SoleFieldFacts DEF Single, OnlyOne
    <3>3. Len(<<r.reply[1]>>) = 1
      OBVIOUS
    <3>4. s.at = "execute" => \/ ~OnlyOne(r.reply) /\ s.todo = r.reply
                              \/ s.todo = <<r.reply[1]>>
                              \/ s.todo \in Best(r.reply)
      BY <1>2
    <3>5. 1 <= 1
      OBVIOUS
    <3> QED
      BY <3>1, <3>2, <3>3, <3>4, <3>5, Zenon
  <2>3. s.at = "execute" => Len(s.todo) \in Nat
    <3>1. s \in Runs
      BY Facts DEF LocalInv, Typed
    <3> QED
      BY <3>1, ReplyParts DEF Runs
  <2>4. CASE s.at = "execute"
    <3>1. Single(s) => Len(s.executed) + Len(s.todo) <= s.iteration + 1
      <4>1. ASSUME NEW a \in Nat, NEW b \in Nat, NEW i \in Nat,
                   a <= i, b <= 1
            PROVE  a + b <= i + 1
        BY <4>1
      <4>2. /\ Len(s.executed) = Len(r.executed) /\ Len(r.executed) \in Nat
            /\ s.iteration = r.iteration /\ Len(s.todo) \in Nat
        BY <1>1, <1>2, <2>3, <2>4
      <4> QED
        BY <1>3, <2>1, <2>2, <2>4, <4>1, <4>2, Zenon
    <3> QED
      BY <2>4, <3>1 DEF OneEach
  <2>5. CASE s.at # "execute"
    <3>1. Single(s) => Len(s.executed) + 0 <= s.iteration + 0
      BY <1>1, <1>2, <1>3, <2>1
    <3> QED
      BY <2>5, <3>1 DEF OneEach
  <2> QED
    BY <2>4, <2>5
<1>6. Reported(s)
  BY <1>2 DEF Reported
<1>7. Silent(r) /\ Pending(r)
  BY <1>2 DEF Silent, Pending
<1>8. UNCHANGED <<config, tools, temperature, memory, chat, metrics, runs>>
  BY DEF SelectCalls, agentFields
<1> QED
  BY <1>2, <1>4, <1>5, <1>6, <1>7, <1>8, Quiet

LEMMA SoleExecuteTool ==
  ASSUME SoleInv, NEW c \in Callers, Callers = {c}, LocalInv', ExecuteTool(c)
  PROVE  SoleInv'
<1> DEFINE r == run[c]
           s == run'[c]
           call == Head(r.todo)
           out == Outcome(call, call.tool \in tools)
<1>1. /\ r \in Runs /\ run \in [Callers -> Runs] /\ Used(r) /\ OneEach(r)
      /\ r.todo \in Replies /\ r.todo # <<>> /\ r.executed \in Seq(Outcomes)
  BY SoleFacts, Facts DEF Runs, ExecuteTool
<1>2. /\ s.opts = r.opts /\ s.restores = r.restores /\ s.saved = r.saved
      /\ s.id = r.id /\ s.llm = r.llm /\ s.used = r.used
      /\ s.reported = r.reported /\ s.iteration = r.iteration
      /\ r.at = "execute" /\ s.at = "execute" /\ s.todo = Tail(r.todo)
      /\ s.executed = r.executed \/ s.executed = Append(r.executed, out)
  BY <1>1 DEF ExecuteTool, At, Runs
<1>3. /\ call \in Calls /\ Len(r.todo) \in Nat
      /\ Len(s.todo) = Len(r.todo) - 1 /\ r.todo \in Seq(Calls)
  BY <1>1, <1>2, ReplyParts
<1>4. /\ out \in Outcomes /\ out.call = call
      /\ out.ran => call.tool \in Narrow(base, r.opts)
  <2>1. out \in Outcomes /\ out.call = call
    BY <1>3 DEF Outcome, Outcomes
  <2>2. out.ran <=> call.tool \in tools
    BY DEF Outcome
  <2> QED
    BY <2>1, <2>2, SoleFieldFacts
<1> HIDE DEF out, call
<1>5. /\ Len(r.executed) \in Nat /\ DOMAIN r.executed = 1..Len(r.executed)
      /\ Len(s.executed) <= Len(r.executed) + 1 /\ Len(s.executed) \in Nat
      /\ \A i \in DOMAIN s.executed :
            \/ i \in DOMAIN r.executed /\ s.executed[i] = r.executed[i]
            \/ s.executed[i] = out
  <2>1. Len(r.executed) \in Nat /\ DOMAIN r.executed = 1..Len(r.executed)
    BY <1>1, LenProperties
  <2>2. CASE s.executed = r.executed
    BY <2>1, <2>2
  <2>3. CASE s.executed = Append(r.executed, out)
    <3>1. /\ Len(s.executed) = Len(r.executed) + 1
          /\ DOMAIN s.executed = 1..Len(s.executed)
          /\ s.executed[Len(r.executed) + 1] = out
          /\ \A i \in 1..Len(r.executed) : s.executed[i] = r.executed[i]
      BY <1>1, <1>4, <2>1, <2>3, AppendProperties, LenProperties
    <3>2. \A i \in DOMAIN s.executed :
             i \in 1..Len(r.executed) \/ i = Len(r.executed) + 1
      BY <2>1, <3>1
    <3> QED
      BY <2>1, <3>1, <3>2
  <2> QED
    BY <1>2, <2>2, <2>3
<1>6. Used(s)
  BY <1>1, <1>2, <1>4, <1>5 DEF Used
<1>7. OneEach(s)
  <2>1. Single(s) <=> Single(r)
    BY <1>2 DEF Single
  <2>2. r.iteration \in Nat
    BY <1>1, Bounds DEF Runs
  <2>3. Single(r) => Len(r.executed) + Len(r.todo) <= r.iteration + 1
    BY <1>1, <1>2 DEF OneEach
  <2>4. Single(r) => Len(s.executed) + Len(s.todo) <= r.iteration + 1
    <3>1. /\ Len(r.executed) \in Nat /\ Len(s.executed) \in Nat
          /\ Len(s.executed) <= Len(r.executed) + 1
      BY <1>5
    <3>2. Len(r.todo) \in Nat /\ Len(s.todo) = Len(r.todo) - 1
      BY <1>3
    <3>3. ASSUME NEW a \in Nat, NEW b \in Nat, NEW d \in Nat, NEW i \in Nat,
                 NEW e, e = d - 1, a <= b + 1, b + d <= i + 1
          PROVE  a + e <= i + 1
      BY <3>3
    <3> QED
      BY <2>2, <2>3, <3>1, <3>2, <3>3, Zenon
  <2> QED
    BY <1>2, <2>1, <2>4 DEF OneEach
<1>8. Reported(s)
  BY <1>2 DEF Reported
<1>9. Silent(r) /\ Pending(r)
  BY <1>2 DEF Silent, Pending
<1>10. UNCHANGED <<config, tools, temperature, memory, chat, metrics, runs>>
  BY DEF ExecuteTool, agentFields
<1> QED
  BY <1>2, <1>6, <1>7, <1>8, <1>9, <1>10, Quiet

LEMMA SoleEndIteration ==
  ASSUME SoleInv, NEW c \in Callers, Callers = {c}, LocalInv', EndIteration(c)
  PROVE  SoleInv'
<1> DEFINE r == run[c]
           s == run'[c]
<1>1. /\ r \in Runs /\ run \in [Callers -> Runs] /\ Used(r) /\ OneEach(r)
      /\ r.todo = <<>> /\ Len(r.executed) \in Nat /\ r.iteration \in Nat
  BY SMTT(20), SoleFacts, Facts, Bounds, LenProperties DEF Runs, EndIteration
<1>2. /\ s.opts = r.opts /\ s.restores = r.restores /\ s.saved = r.saved
      /\ s.id = r.id /\ s.llm = r.llm /\ s.used = r.used
      /\ s.executed = r.executed /\ s.iteration = r.iteration + 1
      /\ r.at = "execute" /\ s.at \in {"report", "continue"}
  BY <1>1 DEF EndIteration, At, Runs
<1>3. Used(s) /\ (Single(s) <=> Single(r))
  BY <1>1, <1>2 DEF Used, Single
<1>4. OneEach(s)
  <2>1. Single(r) => Len(r.executed) + 0 <= r.iteration + 1
    BY <1>1, <1>2 DEF OneEach
  <2>2. Single(s) => Len(s.executed) + 0 <= s.iteration + 0
    BY <1>1, <1>2, <1>3, <2>1
  <2> QED
    BY <1>2, <2>2 DEF OneEach
<1>5. Reported(s)
  BY <1>2 DEF Reported
<1>6. Silent(r) /\ Pending(r)
  BY <1>2 DEF Silent, Pending
<1>7. UNCHANGED <<config, tools, temperature, memory, chat, metrics, runs>>
  BY DEF EndIteration, agentFields
<1> QED
  BY <1>2, <1>3, <1>4, <1>5, <1>6, <1>7, Quiet

LEMMA SoleContinue ==
  ASSUME SoleInv, NEW c \in Callers, Callers = {c}, LocalInv', Continue(c)
  PROVE  SoleInv'
<1> DEFINE r == run[c]
           s == run'[c]
<1>1. /\ r \in Runs /\ run \in [Callers -> Runs] /\ Used(r) /\ OneEach(r)
      /\ Loop(r, Iterations)
  BY SoleFacts, Facts
<1>2. /\ s.opts = r.opts /\ s.restores = r.restores /\ s.saved = r.saved
      /\ s.id = r.id /\ s.used = r.used /\ s.executed = r.executed
      /\ s.iteration = r.iteration
      /\ r.at = "continue" /\ s.at \in {"report", "tools"}
  <2>1. r.at = "continue"
    BY DEF Continue, At
  <2>2. PICK p \in {"report", "tools"} : \E reply :
          run' = [run EXCEPT ![c].llm = @ + 1, ![c].at = p,
                             ![c].reply = reply]
    <3>1. CASE run' = [run EXCEPT ![c].llm = @ + 1, ![c].at = "report"]
      <4>1. run' = [run EXCEPT ![c].llm = @ + 1, ![c].at = "report",
                               ![c].reply = r.reply]
        BY ZenonT(40), <1>1, <3>1 DEF Runs
      <4> QED
        BY <4>1
    <3>2. CASE \E reply : run' = [run EXCEPT ![c].llm = @ + 1,
                                   ![c].at = "tools", ![c].reply = reply]
      BY <3>2
    <3> QED
      BY <3>1, <3>2 DEF Continue
  <2> QED
    BY <1>1, <2>1, <2>2 DEF Runs
<1>3. r.llm > 0
  BY <1>1, <1>2 DEF Loop, Runs
<1>4. Used(s) /\ OneEach(s)
  BY <1>1, <1>2, <1>3 DEF Used, OneEach, Single
<1>5. Reported(s)
  BY <1>2 DEF Reported
<1>6. Silent(r) /\ Pending(r)
  BY <1>2 DEF Silent, Pending
<1>7. UNCHANGED <<config, tools, temperature, memory, chat, metrics, runs>>
  BY DEF Continue, agentFields
<1> QED
  BY <1>2, <1>4, <1>5, <1>6, <1>7, Quiet

LEMMA SoleReport ==
  ASSUME SoleInv, NEW c \in Callers, Callers = {c}, LocalInv', Report(c)
  PROVE  SoleInv'
<1> DEFINE r == run[c]
           s == run'[c]
<1>1. /\ r \in Runs /\ run \in [Callers -> Runs] /\ Used(r) /\ OneEach(r)
      /\ r.executed \in Seq(Outcomes)
  BY SoleFacts, Facts DEF Runs
<1>2. PICK calls \in IF OnlyOne(r.executed) THEN Best(r.executed)
                     ELSE {r.executed} :
        run' = [run EXCEPT ![c].reported = calls, ![c].at = "question"]
  BY DEF Report
<1>3. /\ s.opts = r.opts /\ s.restores = r.restores /\ s.saved = r.saved
      /\ s.id = r.id /\ s.llm = r.llm /\ s.used = r.used
      /\ s.executed = r.executed /\ s.iteration = r.iteration
      /\ s.reported = calls /\ r.at = "report" /\ s.at = "question"
  BY <1>1, <1>2 DEF Report, At, Runs
<1>4. Used(s) /\ OneEach(s)
  BY <1>1, <1>3, QuietLoop
<1>5. Reported(s)
  <2>1. CASE OnlyOne(r.executed)
    <3>1. calls \in Best(r.executed)
      BY <1>2, <2>1
    <3>2. Len(calls) = 1 /\ calls[1] \in ToSet(r.executed)
      BY <1>1, <3>1, BestOf
    <3>3. Single(r)
      BY <2>1, SoleFieldFacts DEF OnlyOne, Single
    <3> QED
      BY <1>3, <3>2, <3>3 DEF Reported, Single
  <2>2. CASE ~OnlyOne(r.executed)
    BY <1>2, <1>3, <2>2 DEF Reported
  <2> QED
    BY <2>1, <2>2
<1>6. Silent(r) /\ Pending(r)
  BY <1>3 DEF Silent, Pending
<1>7. UNCHANGED <<config, tools, temperature, memory, chat, metrics, runs>>
  BY DEF Report, agentFields
<1> QED
  BY <1>3, <1>4, <1>5, <1>6, <1>7, Quiet

(* The steps that count a run, or store what it said.                      *)
LEMMA SoleCallFails ==
  ASSUME SoleInv, NEW c \in Callers, Callers = {c}, LocalInv', CallFails(c)
  PROVE  SoleInv'
<1> DEFINE r == run[c]
           s == run'[c]
<1>1. /\ r \in Runs /\ run \in [Callers -> Runs] /\ OneEach(r) /\ Stored(r)
      /\ Overridden(r) /\ History /\ Loop(r, Iterations)
      /\ metrics.runs \in Nat /\ metrics.errors \in Nat /\ runs \in Nat
  BY SoleFacts, Facts
<1>2. /\ s.opts = r.opts /\ s.restores = r.restores /\ s.saved = r.saved
      /\ s.id = r.id /\ s.llm = 1 /\ s.used = temperature
      /\ s.executed = r.executed /\ s.reported = r.reported
      /\ s.iteration = r.iteration /\ s.failed
      /\ r.at = "call" /\ s.at \in {"after", "return"}
  BY <1>1 DEF CallFails, ToAfter, At, Runs
<1>3. r.executed = <<>> /\ r.reported = <<>> /\ r.iteration = 0
  BY <1>1, <1>2 DEF Loop
<1>4. /\ UNCHANGED <<config, tools, temperature, memory, chat, runs>>
      /\ metrics'.runs = metrics.runs + 1
      /\ metrics'.errors = metrics.errors + 1
  BY DEF CallFails, agentFields
<1>5. History'
  BY <1>1, <1>4 DEF History, AnswerFollowsQuestion
<1>6. Overridden(run[c])'
  BY <1>1, <1>2, <1>4 DEF Overridden, config
<1>7. Used(run[c])'
  BY <1>2, <1>3, SoleFieldFacts DEF Used
<1>8. OneEach(run[c])' /\ Reported(run[c])'
  BY <1>2, <1>3 DEF OneEach, Reported
<1>9. Stored(run[c])'
  <2>1. \A i \in DOMAIN chat : chat[i].by # r.id
    BY <1>1, <1>2 DEF Stored, Silent
  <2>2. metrics.runs + 1 <= runs
    BY <1>1, <1>2 DEF Stored, Pending
  <2>3. metrics'.runs + 0 <= runs'
    BY <1>1, <1>4, <2>2
  <2> QED
    BY <1>1, <1>2, <1>4, <2>1, <2>3 DEF Stored, Pending
<1> QED
  BY <1>5, <1>6, <1>7, <1>8, <1>9 DEF SoleInv

LEMMA SoleHandle ==
  ASSUME SoleInv, NEW c \in Callers, Callers = {c}, LocalInv', Handle(c)
  PROVE  SoleInv'
<1> DEFINE r == run[c]
           s == run'[c]
<1>1. /\ r \in Runs /\ run \in [Callers -> Runs] /\ OneEach(r) /\ Stored(r)
      /\ Overridden(r) /\ History /\ Used(r) /\ Reported(r)
      /\ metrics \in [runs : Nat, errors : Nat] /\ runs \in Nat
  BY SoleFacts, Facts
<1>2. /\ s.opts = r.opts /\ s.restores = r.restores /\ s.saved = r.saved
      /\ s.id = r.id /\ s.llm = r.llm /\ s.used = r.used
      /\ s.executed = r.executed /\ s.reported = r.reported
      /\ s.iteration = r.iteration /\ s.failed = r.failed
      /\ r.at = "handler" /\ s.at \in {"after", "return"}
  BY <1>1 DEF Handle, ToAfter, At, Runs
<1>3. /\ UNCHANGED <<config, tools, temperature, memory, chat, runs>>
      /\ metrics'.runs = metrics.runs + 1
      /\ metrics'.errors = metrics.errors
  BY <1>1 DEF Handle, agentFields
<1>4. History'
  <2>1. metrics'.errors <= metrics'.runs
    BY <1>1, <1>3 DEF History
  <2> QED
    BY <1>1, <1>3, <2>1 DEF History, AnswerFollowsQuestion
<1>5. Overridden(run[c])'
  BY <1>1, <1>2, <1>3 DEF Overridden, config
<1>6. Used(s) /\ OneEach(s) /\ Reported(s)
  BY <1>1, <1>2, QuietLoop DEF Reported, Single
<1>7. Used(run[c])' /\ OneEach(run[c])' /\ Reported(run[c])'
  BY <1>3, <1>6 DEF Used, OneEach, Reported, Single, config
<1>8. Stored(run[c])'
  <2>1. metrics.runs + 1 <= runs
    BY <1>1, <1>2 DEF Stored, Pending
  <2>2. metrics'.runs + 0 <= runs'
    BY <1>1, <1>3, <2>1
  <2>3. Silent(s) => Silent(r)
    BY <1>2 DEF Silent
  <2> QED
    BY <1>1, <1>2, <1>3, <2>2, <2>3 DEF Stored, Pending, Silent
<1> QED
  BY <1>4, <1>5, <1>7, <1>8 DEF SoleInv

(* A message at the end of the history.                                    *)
LEMMA Says ==
  ASSUME LocalInv, NEW m \in Messages, chat' = Append(chat, m)
  PROVE  /\ DOMAIN chat = 1..Len(chat) /\ Len(chat) \in Nat
         /\ DOMAIN chat' = 1..(Len(chat) + 1) /\ Len(chat') = Len(chat) + 1
         /\ chat'[Len(chat) + 1] = m /\ chat' # <<>>
         /\ \A i \in 1..Len(chat) : chat'[i] = chat[i]
<1>1. chat \in Seq(Messages)
  BY Facts DEF LocalInv, Typed
<1>2. /\ DOMAIN chat = 1..Len(chat) /\ Len(chat) \in Nat
  BY <1>1, LenProperties
<1>3. /\ chat' \in Seq(Messages) /\ Len(chat') = Len(chat) + 1
      /\ chat'[Len(chat) + 1] = m
      /\ \A i \in 1..Len(chat) : chat'[i] = chat[i]
  BY <1>1, AppendProperties
<1>4. DOMAIN chat' = 1..(Len(chat) + 1) /\ chat' # <<>>
  BY <1>2, <1>3, LenProperties, EmptySeq
<1> QED
  BY <1>2, <1>3, <1>4

LEMMA AppendGrows ==
  ASSUME NEW S, NEW q \in Seq(S), NEW m, q = Append(q, m)
  PROVE  FALSE
<1>1. Len(q) \in Nat /\ Len(Append(q, m)) = Len(q) + 1
  BY LenProperties, SMT
<1> QED
  BY <1>1

LEMMA SoleStore ==
  ASSUME SoleInv, NEW c \in Callers, Callers = {c}, LocalInv',
         StoreQuestion(c) \/ StoreAnswer(c)
  PROVE  SoleInv'
<1> DEFINE r == run[c]
           s == run'[c]
<1>1. /\ r \in Runs /\ run \in [Callers -> Runs] /\ OneEach(r) /\ Stored(r)
      /\ Overridden(r) /\ History /\ Used(r) /\ Reported(r) /\ LocalInv
      /\ metrics.runs \in Nat /\ runs \in Nat /\ Loop(r, Iterations)
  BY SoleFacts, Facts
<1>2. /\ s.opts = r.opts /\ s.restores = r.restores /\ s.saved = r.saved
      /\ s.id = r.id /\ s.llm = r.llm /\ s.used = r.used
      /\ s.executed = r.executed /\ s.reported = r.reported
      /\ s.iteration = r.iteration /\ s.failed = r.failed
      /\ r.at \in {"question", "answer"} /\ s.at \in {"answer", "handler"}
  <2>1. \E p \in {"answer", "handler"} : run' = [run EXCEPT ![c].at = p]
    BY DEF StoreQuestion, StoreAnswer
  <2>2. r.at \in {"question", "answer"}
    BY DEF StoreQuestion, StoreAnswer, At
  <2> QED
    BY <1>1, <2>1, <2>2 DEF Runs
<1>3. UNCHANGED <<config, tools, temperature, memory, metrics, runs>>
  BY DEF StoreQuestion, StoreAnswer, agentFields
<1>4. /\ r.id \in 1..MaxRuns /\ r.id <= runs
      /\ r.llm # 0 /\ ~r.failed
  <2>1. r.id \in 0..MaxRuns /\ r.id # 0 /\ MaxRuns \in Nat
    BY <1>1, <1>2, Bounds DEF Loop, Runs
  <2> QED
    BY <1>1, <1>2, <2>1 DEF Loop, Stored
<1>5. Used(s) /\ OneEach(s) /\ Reported(s)
  BY <1>1, <1>2, QuietLoop DEF Reported, Single
<1>6. CASE chat' = chat
  <2>1. s.at = "handler"
    <3>1. Len(chat) \in Nat
      BY <1>1, Facts, LenProperties
    <3>2. \A role : chat' # Append(chat, Message(c, role))
      <4>1. ASSUME NEW role, chat' = Append(chat, Message(c, role))
            PROVE  FALSE
        BY <1>1, <1>6, <4>1, Facts, AppendGrows
      <4> QED
        BY <4>1
    <3>3. StoreQuestion(c) => run' = [run EXCEPT ![c].at = "handler"]
      BY <3>2 DEF StoreQuestion
    <3>4. StoreAnswer(c) => run' = [run EXCEPT ![c].at = "handler"]
      BY DEF StoreAnswer
    <3> QED
      BY <1>1, <3>3, <3>4 DEF Runs
  <2>2. (Silent(s) => Silent(r)) /\ Pending(r)
    BY <1>2, <2>1 DEF Silent, Pending
  <2> QED
    BY <1>2, <1>3, <1>5, <1>6, <2>1, <2>2, Quiet
<1>7. ASSUME NEW role \in {"user", "assistant"},
             chat' = Append(chat, Message(c, role)),
             r.opts.memory,
             \/ role = "user" /\ s.at = "answer"
             \/ role = "assistant" /\ s.at = "handler" /\ r.at = "answer"
      PROVE  SoleInv'
  <2> DEFINE m == Message(c, role)
             n == Len(chat)
  <2>1. m = [role |-> role, by |-> r.id] /\ m \in Messages
    BY <1>1, <1>2, MessageTyped DEF At, Message
  <2> HIDE DEF m
  <2>2. /\ DOMAIN chat = 1..n /\ n \in Nat /\ Len(chat') = n + 1
        /\ DOMAIN chat' = 1..(n + 1) /\ chat'[n + 1] = m /\ chat' # <<>>
        /\ \A i \in 1..n : chat'[i] = chat[i]
    BY <1>1, <1>7, <2>1, Says DEF m
  <2> HIDE DEF n
  <2>3. r.at = "answer" =>
          n \in 1..n /\ chat[n] = [role |-> "user", by |-> r.id]
    <3>1. r.at = "answer" => chat # <<>> /\ chat \in Seq(Messages)
      BY <1>1, Facts DEF Stored
    <3>2. r.at = "answer" => n # 0
      BY <3>1, EmptySeq DEF n
    <3> QED
      BY <1>1, <2>2, <3>2 DEF Stored, n
  <2>4. ASSUME NEW i \in DOMAIN chat', chat'[i].role = "assistant"
        PROVE  i > 1 /\ chat'[i - 1] = [role |-> "user", by |-> chat'[i].by]
    <3>1. CASE i = n + 1
      <4>1. role = "assistant" /\ r.at = "answer" /\ chat'[i].by = r.id
        BY <1>7, <2>1, <2>2, <2>4, <3>1
      <4>2. i - 1 = n /\ i > 1
        BY <2>2, <2>3, <3>1, <4>1
      <4> QED
        BY <2>2, <2>3, <4>1, <4>2
    <3>2. CASE i # n + 1
      <4>1. i \in 1..n /\ chat'[i] = chat[i]
        BY <2>2, <3>2
      <4>2. i > 1 /\ chat[i - 1] = [role |-> "user", by |-> chat[i].by]
        BY <1>1, <2>2, <2>4, <4>1 DEF History, AnswerFollowsQuestion
      <4>3. i - 1 \in 1..n
        BY <2>2, <4>1, <4>2
      <4> QED
        BY <2>2, <4>1, <4>2, <4>3
    <3> QED
      BY <3>1, <3>2
  <2>5. ASSUME NEW i \in DOMAIN chat' PROVE chat'[i].by <= runs'
    <3>1. CASE i = n + 1
      BY <1>3, <1>4, <2>1, <2>2, <3>1
    <3>2. CASE i # n + 1
      <4>1. i \in 1..n /\ chat'[i] = chat[i]
        BY <2>2, <3>2
      <4> QED
        BY <1>1, <1>3, <2>2, <4>1 DEF History
    <3> QED
      BY <3>1, <3>2
  <2>6. History'
    BY <1>1, <1>3, <2>4, <2>5 DEF History, AnswerFollowsQuestion
  <2>7. Overridden(run[c])'
    BY <1>1, <1>2, <1>3 DEF Overridden, config
  <2>8. Used(run[c])' /\ OneEach(run[c])' /\ Reported(run[c])'
    BY <1>3, <1>5 DEF Used, OneEach, Reported, Single, config
  <2>9. Stored(run[c])'
    <3>1. ~Silent(s)
      BY <1>2, <1>4, <1>7 DEF Silent
    <3>2. s.at = "answer" => chat'[Len(chat')] = [role |-> "user", by |-> s.id]
      BY <1>2, <1>7, <2>1, <2>2
    <3>3. metrics.runs + 1 <= runs
      BY <1>1, <1>2 DEF Stored, Pending
    <3>4. metrics'.runs + (IF Pending(s) THEN 1 ELSE 0) <= runs'
      BY <1>2, <1>3, <3>3 DEF Pending
    <3> QED
      BY <1>2, <1>3, <1>4, <2>2, <3>1, <3>2, <3>4 DEF Stored, Silent, Pending
  <2> QED
    BY <2>6, <2>7, <2>8, <2>9 DEF SoleInv
<1>8. CASE StoreQuestion(c) /\ chat' # chat
  <2>1. /\ chat' = Append(chat, Message(c, "user")) /\ memory
        /\ run' = [run EXCEPT ![c].at = "answer"]
    BY <1>8 DEF StoreQuestion
  <2>2. r.opts.memory /\ s.at = "answer"
    BY <1>1, <2>1, SoleFieldFacts DEF Runs
  <2> QED
    BY <1>7, <2>1, <2>2
<1>9. CASE StoreAnswer(c) /\ chat' # chat
  <2>1. /\ chat' = Append(chat, Message(c, "assistant")) /\ r.at = "answer"
        /\ run' = [run EXCEPT ![c].at = "handler"]
    BY <1>9 DEF StoreAnswer, At
  <2>2. s.at = "handler"
    BY <1>1, <2>1 DEF Runs
  <2>3. r.opts.memory
    <3>1. chat # <<>> /\ chat[Len(chat)].by = r.id /\ chat \in Seq(Messages)
      BY <1>1, <2>1, Facts DEF Stored
    <3>2. Len(chat) \in DOMAIN chat
      BY <3>1, EmptySeq, LenProperties
    <3>3. ~Silent(r)
      BY <1>1, <3>1, <3>2 DEF Stored
    <3> QED
      BY <3>3 DEF Silent
  <2> QED
    BY <1>7, <2>1, <2>2, <2>3
<1> QED
  BY <1>6, <1>8, <1>9

(* How the run begins and returns.                                         *)

LEMMA PlainFields ==
  /\ (\A ts : Narrow(ts, PlainRun) = ts) /\ PlainRun.hot = FALSE
  /\ PlainRun.memory = TRUE /\ NoRun.opts = PlainRun /\ NoRun.at = "idle"
  /\ NoRun.id = 0 /\ NoRun.llm = 0 /\ NoRun.restores = FALSE
  /\ NoRun.executed = <<>> /\ NoRun.reported = <<>> /\ NoRun.iteration = 0
BY DEF NoRun, PlainRun, Narrow

LEMMA EmptyLoop ==
  ASSUME NEW r, r.llm = 0, r.executed = <<>>, r.reported = <<>>,
         r.iteration = 0, r.at \in {"idle", "before", "call"}
  PROVE  Used(r) /\ OneEach(r) /\ Reported(r)
BY DEF Used, OneEach, Reported

LEMMA SoleReturn ==
  ASSUME SoleInv, NEW c \in Callers, Callers = {c}, LocalInv', Return(c)
  PROVE  SoleInv'
<1> DEFINE r == run[c]
<1>1. /\ r \in Runs /\ run \in [Callers -> Runs] /\ Stored(r)
      /\ Overridden(r) /\ History /\ chat \in Seq(Messages)
      /\ metrics.runs \in Nat /\ runs \in Nat
      /\ memory \in BOOLEAN /\ r.opts.memory \in BOOLEAN
      /\ r.restores \in BOOLEAN
  BY SoleFacts, Facts DEF Runs, Options
<1>2. /\ run'[c] = NoRun /\ r.at = "return"
      /\ UNCHANGED <<config, chat, metrics, runs>>
  BY <1>1 DEF Return, At
<1>3. tools' = base /\ temperature' = "base" /\ memory' = TRUE
  <2>1. CASE r.restores
    <3>1. /\ tools' = r.saved.tools /\ temperature' = r.saved.temperature
          /\ memory' = (memory \/ ~r.opts.memory)
      BY <2>1 DEF Return
    <3>2. r.saved = [tools |-> base, temperature |-> "base"]
      BY <1>1, <2>1 DEF Overridden
    <3>3. memory = r.opts.memory
      BY <1>1 DEF Overridden
    <3>4. memory \/ ~r.opts.memory
      BY <1>1, <3>3
    <3>5. memory' = TRUE
      BY <3>1, <3>4, Zenon
    <3> QED
      BY <3>1, <3>2, <3>5
  <2>2. CASE ~r.restores
    <3>1. UNCHANGED <<tools, temperature, memory>>
      BY <2>2 DEF Return, agentFields
    <3>2. r.opts = PlainRun
      BY <1>1, <2>2 DEF Overridden
    <3> QED
      BY <1>1, <3>1, <3>2, PlainFields DEF Overridden
  <2> QED
    BY <2>1, <2>2
<1>4. History'
  BY <1>1, <1>2 DEF History, AnswerFollowsQuestion
<1>5. Overridden(run[c])'
  BY <1>2, <1>3, PlainFields DEF Overridden, config
<1>6. Used(run[c])' /\ OneEach(run[c])' /\ Reported(run[c])'
  <2>1. Used(NoRun) /\ OneEach(NoRun) /\ Reported(NoRun)
    BY PlainFields, EmptyLoop
  <2> QED
    BY <1>2, <2>1 DEF Used, OneEach, Reported, Single, config
<1>7. Stored(run[c])'
  <2>1. \A i \in DOMAIN chat : chat[i].by # 0
    <3>1. \A i \in DOMAIN chat : chat[i] \in Messages
      BY <1>1, LenProperties, ElementOfSeq
    <3> QED
      BY <3>1, Bounds DEF Messages
  <2>2. metrics.runs + 0 <= runs /\ 0 <= runs
    BY <1>1, <1>2 DEF Stored, Pending
  <2> QED
    BY <1>2, <2>1, <2>2, PlainFields DEF Stored, Pending
<1> QED
  BY <1>4, <1>5, <1>6, <1>7 DEF SoleInv

(* The run that begins has the next number, and nothing said under it.     *)
LEMMA SoleBegins ==
  ASSUME SoleInv, NEW c \in Callers, Callers = {c}, LocalInv',
         NEW o, NEW restores, NEW saved, At(c, "idle"), runs' = runs + 1,
         run'[c] = [NoRun EXCEPT !.at = FirstStop, !.id = runs + 1, !.opts = o,
                                 !.restores = restores, !.saved = saved],
         UNCHANGED <<config, chat, metrics>>,
         Overridden(run[c])'
  PROVE  SoleInv'
<1> DEFINE s == run'[c]
<1>1. /\ Stored(run[c]) /\ History /\ metrics.runs \in Nat /\ runs \in Nat
      /\ chat \in Seq(Messages) /\ NoRun \in Runs
  BY SoleFacts, Facts, NoRunFine
<1>2. /\ s.at = FirstStop /\ s.id = runs + 1
      /\ s.executed = <<>> /\ s.reported = <<>> /\ s.iteration = 0
      /\ s.llm = 0
  BY <1>1, PlainFields DEF Runs
<1>3. s.at \in {"before", "call"}
  BY <1>2 DEF FirstStop
<1>4. \A i \in DOMAIN chat : chat[i].by <= runs /\ chat[i].by \in Nat
  <2>1. \A i \in DOMAIN chat : chat[i] \in Messages
    BY <1>1, LenProperties, ElementOfSeq
  <2>2. \A m \in Messages : m.by \in Nat
    BY Bounds DEF Messages
  <2> QED
    BY <1>1, <2>1, <2>2 DEF History
<1>5. History'
  <2>1. \A i \in DOMAIN chat : chat[i].by <= runs + 1
    BY <1>1, <1>4
  <2> QED
    BY <1>1, <2>1 DEF History, AnswerFollowsQuestion
<1>6. Used(run[c])' /\ OneEach(run[c])' /\ Reported(run[c])'
  <2>1. Used(s) /\ OneEach(s) /\ Reported(s)
    BY <1>2, <1>3, EmptyLoop
  <2> HIDE DEF s
  <2>2. UNCHANGED <<policy, base>>
    BY DEF config
  <2> QED
    BY <2>1, <2>2 DEF Used, OneEach, Reported, Single, s
<1>7. Stored(run[c])'
  <2>1. \A i \in DOMAIN chat : chat[i].by # runs + 1
    BY <1>1, <1>4
  <2>2. metrics.runs + 0 <= runs
    BY <1>1 DEF Stored, Pending, At
  <2>3. metrics.runs + 1 <= runs + 1 /\ runs + 1 <= runs + 1
    BY <1>1, <2>2
  <2>4. Pending(s)
    BY <1>3 DEF Pending
  <2> QED
    BY <1>2, <1>3, <2>1, <2>3, <2>4 DEF Stored, Pending
<1> QED
  BY <1>5, <1>6, <1>7 DEF SoleInv

LEMMA SoleBegin ==
  ASSUME SoleInv, NEW c \in Callers, Callers = {c}, LocalInv',
         \/ Run(c)
         \/ \E o \in OptionSet : RunWithOptions(c, o)
         \/ \E o \in StreamOptions : RunStreamWithOptions(c, o)
  PROVE  SoleInv'
<1>1. /\ run \in [Callers -> Runs] /\ Overridden(run[c]) /\ At(c, "idle")
      /\ Loop(run[c], Iterations) /\ NoRun \in Runs
  BY SoleFacts, Facts, NoRunFine DEF Run, RunWithOptions, RunStreamWithOptions
<1>2. run[c] = NoRun
  BY <1>1 DEF Loop, At
<1>3. tools = base /\ temperature = "base" /\ memory = TRUE
  BY <1>1, <1>2, PlainFields DEF Overridden
<1>4. CASE Run(c)
  <2> DEFINE s == [NoRun EXCEPT !.at = FirstStop, !.id = runs + 1]
  <2>1. /\ run'[c] = s /\ runs' = runs + 1
        /\ UNCHANGED <<config, tools, temperature, memory, chat, metrics>>
    BY <1>1, <1>4 DEF Run, agentFields
  <2>2. s = [NoRun EXCEPT !.at = FirstStop, !.id = runs + 1, !.opts = PlainRun,
                          !.restores = FALSE, !.saved = NoRun.saved]
    BY <1>1, PlainFields DEF Runs
  <2>3. s.opts = PlainRun /\ s.restores = FALSE
    BY <1>1, PlainFields DEF Runs
  <2> HIDE DEF s
  <2>4. Overridden(run[c])'
    BY <1>3, <2>1, <2>3, PlainFields DEF Overridden, config
  <2> QED
    BY <1>1, <2>1, <2>2, <2>4, SoleBegins
<1>5. ASSUME NEW o \in OptionSet, RunWithOptions(c, o) PROVE SoleInv'
  <2> DEFINE saved == [tools |-> tools, temperature |-> temperature]
             s == [NoRun EXCEPT !.at = FirstStop, !.id = runs + 1, !.opts = o,
                                !.restores = TRUE, !.saved = saved]
  <2>1. /\ run'[c] = s /\ runs' = runs + 1
        /\ UNCHANGED <<config, chat, metrics>>
    BY <1>1, <1>5 DEF RunWithOptions
  <2>2. o.memory \in BOOLEAN
    BY AgentRunAssumption DEF Options
  <2>3. /\ tools' = Narrow(base, o) /\ memory' = o.memory
        /\ temperature' = IF o.hot THEN "override" ELSE "base"
    BY <1>3, <1>5, <2>2 DEF RunWithOptions
  <2>4. /\ s.opts = o /\ s.restores = TRUE
        /\ s.saved = [tools |-> base, temperature |-> "base"]
    BY <1>1, <1>3 DEF Runs
  <2> HIDE DEF s
  <2>5. Overridden(run[c])'
    BY <2>1, <2>3, <2>4 DEF Overridden, config
  <2> QED
    BY <1>1, <2>1, <2>5, SoleBegins DEF s
<1>6. ASSUME NEW o \in StreamOptions, RunStreamWithOptions(c, o)
      PROVE  SoleInv'
  <2>2. /\ runs' = runs + 1 /\ run' = run
        /\ UNCHANGED <<policy, reasoning, temperature, memory, chat, metrics>>
    BY <1>6 DEF RunStreamWithOptions
  <2>3. tools' = Narrow(base, o) /\ base' = Narrow(base, o)
    BY <1>3, <1>6 DEF RunStreamWithOptions
  <2>4. /\ Stored(NoRun) /\ History /\ metrics.runs \in Nat /\ runs \in Nat
        /\ chat \in Seq(Messages)
    BY <1>2, SoleFacts, Facts
  <2>5. \A i \in DOMAIN chat : chat[i].by \in Nat
    <3>1. \A i \in DOMAIN chat : chat[i] \in Messages
      BY <2>4, LenProperties, ElementOfSeq
    <3> QED
      BY <3>1, Bounds DEF Messages
  <2>6. History'
    <3>1. \A i \in DOMAIN chat : chat[i].by <= runs + 1
      BY <2>4, <2>5 DEF History
    <3> QED
      BY <2>2, <2>4, <3>1 DEF History, AnswerFollowsQuestion
  <2>7. Overridden(run[c])'
    BY <1>2, <1>3, <2>2, <2>3, PlainFields DEF Overridden
  <2>8. Used(run[c])' /\ OneEach(run[c])' /\ Reported(run[c])'
    <3>1. run'[c] = NoRun
      BY <1>2, <2>2
    <3>2. /\ NoRun.llm = 0 /\ NoRun.executed = <<>> /\ NoRun.reported = <<>>
          /\ NoRun.iteration = 0 /\ NoRun.at = "idle"
      BY PlainFields
    <3> QED
      BY <3>1, <3>2 DEF Used, OneEach, Reported
  <2>9. Stored(run[c])'
    <3>1. metrics.runs + 0 <= runs /\ 0 <= runs
      BY <2>4, PlainFields DEF Stored, Pending
    <3>2. metrics.runs + 0 <= runs + 1 /\ 0 <= runs + 1
      BY <2>4, <3>1
    <3> QED
      BY <1>2, <2>2, <2>4, <3>2, PlainFields DEF Stored, Pending, Silent
  <2> QED
    BY <2>6, <2>7, <2>8, <2>9 DEF SoleInv
<1> QED
  BY <1>4, <1>5, <1>6

LEMMA SoleInit ==
  ASSUME Init, OneCaller PROVE SoleInv
<1>1. PICK c \in Callers : Callers = {c}
  BY DEF OneCaller
<1>2. LocalInv /\ run[c] = NoRun
  BY LocalInit DEF Init
<1>3. History
  BY DEF Init, History, AnswerFollowsQuestion
<1>4. Overridden(run[c]) /\ Stored(run[c])
  <2>1. Overridden(run[c])
    BY <1>2, PlainFields DEF Init, Overridden
  <2>2. /\ chat = <<>> /\ metrics.runs = 0 /\ runs = 0
    BY DEF Init
  <2>3. metrics.runs + 0 <= runs /\ 0 <= runs
    BY <2>2
  <2> QED
    BY <1>2, <2>1, <2>2, <2>3, PlainFields DEF Stored, Pending
<1>5. Used(run[c]) /\ OneEach(run[c]) /\ Reported(run[c])
  BY <1>2, PlainFields DEF Used, OneEach, Reported
<1> QED
  BY <1>1, <1>2, <1>3, <1>4, <1>5 DEF SoleInv

LEMMA SoleNext ==
  ASSUME SoleInv, [Next]_vars, OneCaller
  PROVE  SoleInv'
<1>1. LocalInv'
  BY LocalNext DEF SoleInv
<1>2. CASE UNCHANGED vars
  <2>1. UNCHANGED <<policy, reasoning, base, tools, temperature, memory, chat,
                    metrics, runs, run>>
    BY <1>2 DEF vars, config, agentFields
  <2>2. History'
    BY <2>1 DEF SoleInv, History, AnswerFollowsQuestion
  <2>3. ASSUME NEW c \in Callers
        PROVE  /\ Overridden(run[c])' /\ Used(run[c])' /\ OneEach(run[c])'
               /\ Reported(run[c])' /\ Stored(run[c])'
    <3>1. /\ Overridden(run[c]) /\ Used(run[c]) /\ OneEach(run[c])
          /\ Reported(run[c]) /\ Stored(run[c])
      BY SoleFacts
    <3>2. Overridden(run[c])' /\ Used(run[c])'
      BY <2>1, <3>1 DEF Overridden, Used
    <3>3. OneEach(run[c])' /\ Reported(run[c])'
      BY <2>1, <3>1 DEF OneEach, Reported, Single
    <3>4. Stored(run[c])'
      BY <2>1, <3>1 DEF Stored, Silent, Pending
    <3> QED
      BY <3>2, <3>3, <3>4
  <2> QED
    BY <1>1, <2>2, <2>3 DEF SoleInv
<1>3. ASSUME NEW c \in Callers, Callers = {c}, Step(c) PROVE SoleInv'
  BY <1>1, <1>3, SoleHooks, SolePromptFails, SoleCallFails, SoleCallSucceeds,
     SoleSelectCalls, SoleExecuteTool, SoleEndIteration, SoleContinue,
     SoleReport, SoleStore, SoleHandle, SoleReturn
     DEF Step
<1>4. \A c \in Callers : Callers = {c}
  BY DEF OneCaller
<1> QED
  BY <1>1, <1>2, <1>3, <1>4, SoleBegin DEF Next

LEMMA SoleAlways ==
  ASSUME OneCaller PROVE Spec => []SoleInv
BY SoleInit, SoleNext, PTL DEF Spec

(* RunWithOptions of an agent one goroutine uses leaves its tools,         *)
(* temperature and memory as they were, however the run ends, and what the *)
(* options ask for holds for the whole of the run.  RunStreamWithOptions   *)
(* leaves the agent with the tools it selected and no others: base counts  *)
(* what it took, for good, and every later run gives back the rest.        *)
THEOREM OptionsKept ==
  ASSUME OneCaller PROVE Spec => []OptionsScoped
<1>1. SoleInv => OptionsScoped
  <2> SUFFICES ASSUME SoleInv PROVE OptionsScoped
    OBVIOUS
  <2>1. BaseConfigKept
    <3> SUFFICES ASSUME \A c \in Callers : At(c, "idle")
                 PROVE  tools = base /\ temperature = "base" /\ memory
      BY DEF BaseConfigKept
    <3>1. PICK c \in Callers : Callers = {c}
      BY DEF OneCaller
    <3>2. run[c] = NoRun
      BY SoleFacts, Facts DEF Loop, At
    <3> QED
      BY <3>2, SoleFacts, PlainFields DEF Overridden
  <2>2. OptionsHold
    BY SoleFacts DEF OptionsHold, Used
  <2> QED
    BY <2>1, <2>2 DEF OptionsScoped
<1> QED
  BY <1>1, SoleAlways, PTL

(* The loop between provider and tools stays within its budget and with a  *)
(* single tool executes one call an iteration; structured calls are        *)
(* executed once; the result reports calls that were executed.             *)
THEOREM ToolLoopBounded ==
  ASSUME OneCaller PROVE Spec => []ToolInv
<1>1. SoleInv => ToolInv
  <2> SUFFICES ASSUME SoleInv PROVE ToolInv
    OBVIOUS
  <2>1. PICK c \in Callers : Callers = {c}
    BY DEF OneCaller
  <2> DEFINE r == run[c]
  <2>2. /\ r \in Runs /\ Loop(r, Iterations) /\ NoRepeats(r) /\ OneEach(r)
        /\ Reported(r) /\ Stored(r) /\ History
        /\ r.iteration \in Nat /\ Len(r.executed) \in Nat
    BY SoleFacts, Facts, Bounds, LenProperties DEF Runs
  <2>3. TypeOK
    <3>1. /\ policy \in Policies /\ reasoning \in BOOLEAN
          /\ tools \subseteq Tools /\ base \subseteq Tools
          /\ temperature \in {"base", "override"}
          /\ memory \in BOOLEAN /\ runs \in 0..MaxRuns
      BY SoleFacts DEF LocalInv, Typed, Temperatures
    <3>2. \A i \in DOMAIN chat :
             chat[i] \in [role : {"user", "assistant"}, by : 1..MaxRuns]
      <4>1. chat \in Seq(Messages)
        BY <2>1, SoleFacts, Facts
      <4>2. \A i \in DOMAIN chat : chat[i] \in Messages
        BY <4>1, LenProperties, ElementOfSeq
      <4> QED
        BY <4>2 DEF Messages
    <3>3. /\ metrics \in [runs : 0..MaxRuns, errors : 0..MaxRuns]
          /\ metrics.errors <= metrics.runs
      <4>1. /\ metrics.runs \in Nat /\ metrics.errors \in Nat
            /\ runs \in 0..MaxRuns /\ metrics.errors <= metrics.runs
            /\ metrics \in [runs : Nat, errors : Nat]
        BY SoleFacts, Facts DEF History
      <4>2. metrics.runs <= runs
        BY <2>2, <4>1 DEF Stored
      <4>3. metrics.runs \in 0..MaxRuns /\ metrics.errors \in 0..MaxRuns
        BY <4>1, <4>2, Bounds
      <4> QED
        BY <4>1, <4>3
    <3>4. \A d \in Callers :
            /\ run[d].at \in Points /\ run[d].opts \in Options
            /\ run[d].stage \in 0..Len(Middlewares)
            /\ run[d].reply \in Replies /\ run[d].todo \in Replies
            /\ run[d].iteration \in 0..MaxIterations
            /\ run[d].result \in {"none", "ok", "error"}
      BY <2>1, <2>2 DEF Runs
    <3> QED
      BY <3>1, <3>2, <3>3, <3>4 DEF TypeOK
  <2>4. ToolBudget
    <3>1. r.llm <= Iterations
      BY <2>2 DEF Loop
    <3>2. Single(r) => Len(r.executed) <= r.iteration + 1
      <4>1. CASE r.at = "execute"
        <5>1. Len(r.todo) \in Nat
          BY <2>2, ReplyParts DEF Runs
        <5>2. Single(r) => Len(r.executed) + Len(r.todo) <= r.iteration + 1
          BY <2>2, <4>1 DEF OneEach
        <5>3. ASSUME NEW a \in Nat, NEW b \in Nat, NEW i \in Nat,
                     a + b <= i + 1
              PROVE  a <= i + 1
          BY <5>3
        <5> QED
          BY <2>2, <5>1, <5>2, <5>3, Zenon
      <4>2. CASE r.at # "execute"
        <5>1. Single(r) => Len(r.executed) + 0 <= r.iteration + 0
          BY <2>2, <4>2 DEF OneEach
        <5>2. ASSUME NEW a \in Nat, NEW i \in Nat, a + 0 <= i + 0
              PROVE  a <= i + 1
          BY <5>2
        <5> QED
          BY <2>2, <5>1, <5>2, Zenon
      <4> QED
        BY <4>1, <4>2
    <3> QED
      BY <2>1, <3>1, <3>2 DEF ToolBudget, Single
  <2>5. ExecutedOnce
    BY <2>1, <2>2 DEF ExecutedOnce, NoRepeats
  <2>6. ReportedExecuted
    BY <2>1, <2>2 DEF ReportedExecuted, Reported, Single, At
  <2> QED
    BY <2>3, <2>4, <2>5, <2>6 DEF ToolInv
<1> QED
  BY <1>1, SoleAlways, PTL

(* storeInMemory leaves whole exchanges or a question without an answer,   *)
(* and nothing of a run that may not use the memory or got no answer.      *)
THEOREM HistoryWhole ==
  ASSUME OneCaller PROVE Spec => []HistoryPaired
<1>1. SoleInv => HistoryPaired
  <2> SUFFICES ASSUME SoleInv PROVE HistoryPaired
    OBVIOUS
  <2>1. AnswerFollowsQuestion
    BY DEF SoleInv, History
  <2>2. SilentRuns
    BY SoleFacts DEF SilentRuns, Unanswered, Stored, Silent
  <2> QED
    BY <2>1, <2>2 DEF HistoryPaired
<1> QED
  BY <1>1, SoleAlways, PTL
=============================================================================
