---------------------------- MODULE ConfigReload ----------------------------
(***************************************************************************)
(* DefaultConfigReloader of internal/config/reloader.go over the agent     *)
(* manager: a watch loop turns changes of the configuration file into a    *)
(* debounced timer, the timer's goroutine and any caller of ReloadConfig   *)
(* load the file, hand it to the manager and then make it the current one. *)
(* r.mutex covers none of that but the last step, so reloads overlap.      *)
(*                                                                         *)
(* A version of the file is a number and what it says of each agent; the   *)
(* validator and the environment overrides cannot refuse one, they log.    *)
(***************************************************************************)
EXTENDS AgentManager, FiniteSets

CONSTANTS
  TimerRuns,   \* bound: debounce functions that run at one time
  Callers,     \* goroutines that call ReloadConfig
  Contents,    \* what a file can say: functions in [Names -> Says]
  MaxWatches   \* bound: times StartWatching succeeds

Says == {"on", "off", "absent"}
Reloads == TimerRuns \cup Callers

ASSUME ReloadAssumption ==
  /\ Contents \subseteq [Names -> Says]
  /\ TimerRuns \cap Callers = {}
  /\ MaxWatches \in Nat /\ MaxVer # 0   \* the file has a first version

VARIABLES
  file,      \* the configuration file
  event,     \* the watcher has an event for the watch loop
  watching,  \* r.isWatching; r.configPath is set exactly then
  ctxDone,   \* r.cancel was called; the context is never made anew
  session,   \* watches started
  loop,      \* the watchLoop of each watch
  starting,  \* where StartWatching is; other than "no", it holds r.mutex
  initial,   \* the configuration it loaded
  timer,     \* r.debounceTimer has not fired
  reload,    \* each handleConfigChange that runs, and what it loaded
  current,   \* r.currentConfig
  applied,   \* history: what the manager was last updated with
  failing,   \* history: the agents it should have enabled and failed to
  touched,   \* history: the agents the program changed since
  overlap,   \* history: two reloads ran at one time
  seen       \* history: the latest version read

watchVars == <<event, watching, ctxDone, session, loop, starting, initial,
               timer>>
historyVars == <<applied, failing, touched, overlap, seen>>
vars == <<managerVars, watchVars, historyVars, file, reload, current>>

Blank == [n \in Names |-> "absent"]

(* LoadConfig: an empty path gives the defaults, which name no agent.      *)
Defaults == [ver |-> 0, readable |-> TRUE, says |-> Blank]
Config == [ver : 0..MaxVer, readable : BOOLEAN, says : Contents \cup {Blank}]
LoadConfig == IF watching THEN file ELSE Defaults

ResolveAll(c) == [n \in Names |->
  IF c.says[n] = "absent" THEN None
  ELSE [ver |-> c.ver, enabled |-> c.says[n] = "on"]]

Steps == {"idle", "begun", "loaded", "waiting", "updated"}
Busy == {r \in Reloads : reload[r].at # "idle"}

TypeOK ==
  /\ ManagerTypeOK
  /\ {file, initial, current, applied} \subseteq Config
  /\ {event, watching, ctxDone, timer, overlap} \subseteq BOOLEAN
  /\ session \in 0..MaxWatches /\ seen \in 0..MaxVer
  /\ loop \in [1..MaxWatches -> {"none", "select", "debounce", "ended"}]
  /\ starting \in {"no", "loaded", "waiting", "ready"}
  /\ reload \in [Reloads -> [at : Steps, config : Config]]
  /\ failing \subseteq Names /\ touched \subseteq Names

Idle == [at |-> "idle", config |-> Defaults]

Init ==
  /\ ManagerInit
  /\ file \in [ver : {1}, readable : {TRUE}, says : Contents]
  /\ event = FALSE /\ watching = FALSE /\ ctxDone = FALSE /\ timer = FALSE
  /\ session = 0 /\ loop = [s \in 1..MaxWatches |-> "none"]
  /\ starting = "no" /\ initial = Defaults
  /\ reload = [r \in Reloads |-> Idle]
  /\ current = Defaults /\ applied = Defaults
  /\ failing = {} /\ touched = {} /\ overlap = FALSE /\ seen = 0
-----------------------------------------------------------------------------
(* The file is written, with or without a parse error; events of writes    *)
(* that the loop has not taken yet are one.                                *)
Edit ==
  /\ file.ver < MaxVer
  /\ file' \in [ver : {file.ver + 1}, readable : BOOLEAN, says : Contents]
  /\ ~file'.readable => file'.says = file.says
  /\ event' = watching
  /\ UNCHANGED <<managerVars, historyVars, watching, ctxDone, session, loop,
                 starting, initial, timer, reload, current>>

(* The program's own calls of the agent manager.                           *)
ByProgram(names) ==
  /\ touched' = touched \cup names
  /\ UNCHANGED <<watchVars, file, reload, current, applied, failing, overlap,
                 seen>>

ProgramCreates == \E n \in Names : CreateAgent(n) /\ ByProgram({n})
ProgramDisables == \E n \in Names : DisableAgent(n) /\ ByProgram({n})
ProgramInitializes == \E E \in SUBSET Names :
  InitializeAgents(E) /\ ByProgram({n \in E : agents[n] = None})
-----------------------------------------------------------------------------
(* UpdateAgentConfigurations called with configuration c                   *)
Apply(c) ==
  /\ \E F \in SUBSET {n \in Names : c.says[n] # "absent"} :
       /\ UpdateAgentConfigurations(ResolveAll(c), F)
       /\ failing' = {n \in F : c.says[n] = "on"}
  /\ applied' = c
  /\ touched' = {}

(* StartWatching: r.mutex is held from the first to the last of these.     *)
StartWatching ==
  /\ ~watching /\ starting = "no" /\ session < MaxWatches
  /\ watching' = TRUE
  /\ session' = session + 1
  /\ seen' = file.ver
  /\ overlap' = (overlap \/ Busy # {})
  /\ IF file.readable
       THEN starting' = "loaded" /\ initial' = file /\ current' = file
       ELSE starting' = "ready" /\ UNCHANGED <<initial, current>>
  /\ UNCHANGED <<managerVars, file, event, ctxDone, loop, timer, reload,
                 applied, failing, touched>>

InitialUpdate ==
  /\ starting = "loaded"
  /\ Apply(initial)
  /\ starting' = IF held' THEN "waiting" ELSE "ready"
  /\ initial' = Defaults
  /\ UNCHANGED <<file, event, watching, ctxDone, session, loop, timer, reload,
                 current, overlap, seen>>

StartLoop ==
  /\ starting = "ready" /\ starting' = "no"
  /\ loop' = [loop EXCEPT ![session] = "select"]
  /\ UNCHANGED <<managerVars, historyVars, file, event, watching, ctxDone,
                 session, initial, timer, reload, current>>

StopWatching ==
  /\ watching /\ starting = "no"
  /\ watching' = FALSE /\ ctxDone' = TRUE
  /\ timer' = FALSE /\ event' = FALSE
  /\ UNCHANGED <<managerVars, historyVars, file, session, loop, starting,
                 initial, reload, current>>
-----------------------------------------------------------------------------
(* watchLoop                                                               *)

TakeEvent(s) ==
  /\ loop[s] = "select" /\ event
  /\ loop' = [loop EXCEPT ![s] = "debounce"]
  /\ event' = FALSE
  /\ UNCHANGED <<managerVars, historyVars, file, watching, ctxDone, session,
                 starting, initial, timer, reload, current>>

(* Slip: a change that comes while a reload runs counts as part of it.    *)
RearmUnlessBusy == timer' = (timer \/ Busy = {})

(* debounceConfigChange: the old timer is stopped, a new one started; a    *)
(* function of the old one that runs already runs on.                      *)
Rearm == timer' = TRUE

Debounce(s) ==
  /\ loop[s] = "debounce" /\ starting = "no"
  /\ loop' = [loop EXCEPT ![s] = "select"]
  /\ Rearm
  /\ UNCHANGED <<managerVars, historyVars, file, event, watching, ctxDone,
                 session, starting, initial, reload, current>>

LoopEnds(s) ==
  /\ loop[s] = "select" /\ ctxDone
  /\ loop' = [loop EXCEPT ![s] = "ended"]
  /\ UNCHANGED <<managerVars, historyVars, file, event, watching, ctxDone,
                 session, starting, initial, timer, reload, current>>
-----------------------------------------------------------------------------
(* handleConfigChange                                                      *)

Begin(r) ==
  /\ reload[r].at = "idle"
  /\ reload' = [reload EXCEPT ![r].at = "begun"]
  /\ UNCHANGED <<managerVars, historyVars, file, event, watching, ctxDone,
                 session, loop, starting, initial, current>>

TimerFires(r) == timer /\ timer' = FALSE /\ Begin(r)

(* ReloadConfig; it returns an error when nothing is watched.              *)
ReloadConfig(r) ==
  watching /\ starting = "no" /\ Begin(r) /\ UNCHANGED timer

(* r.configPath is read without r.mutex: after StopWatching it is empty.   *)
Load(r) ==
  /\ reload[r].at = "begun"
  /\ LET c == LoadConfig IN
       /\ reload' = [reload EXCEPT ![r] =
            IF c.readable THEN [at |-> "loaded", config |-> c] ELSE Idle]
       /\ seen' = IF c.ver > seen THEN c.ver ELSE seen
  /\ overlap' = (overlap \/ Busy # {r} \/ starting # "no")
  /\ UNCHANGED <<managerVars, watchVars, file, current, applied, failing,
                 touched>>

Update(r) ==
  /\ reload[r].at = "loaded"
  /\ Apply(reload[r].config)
  /\ reload' = [reload EXCEPT ![r].at = IF held' THEN "waiting"
                                        ELSE "updated"]
  /\ UNCHANGED <<watchVars, file, current, overlap, seen>>

Store(r) ==
  /\ reload[r].at = "updated" /\ starting = "no"
  /\ current' = reload[r].config
  /\ reload' = [reload EXCEPT ![r] = Idle]
  /\ UNCHANGED <<managerVars, watchVars, historyVars, file>>
-----------------------------------------------------------------------------
Environment ==
  \/ Edit \/ StartWatching \/ StopWatching
  \/ ProgramInitializes \/ ProgramCreates \/ ProgramDisables
  \/ \E r \in Callers : ReloadConfig(r)

LoopStep(s) == TakeEvent(s) \/ Debounce(s) \/ LoopEnds(s)
ReloadStep(r) == Load(r) \/ Update(r) \/ Store(r)
StartStep == InitialUpdate \/ StartLoop

Next ==
  \/ Environment
  \/ StartStep
  \/ \E s \in 1..MaxWatches : LoopStep(s)
  \/ \E r \in TimerRuns : TimerFires(r)
  \/ \E r \in Reloads : ReloadStep(r)

Spec == Init /\ [][Next]_vars

(* The goroutines and the timer run; nobody has to edit, call or stop.     *)
FairSpec ==
  /\ Spec
  /\ WF_vars(StartStep)
  /\ \A s \in 1..MaxWatches : WF_vars(LoopStep(s))
  /\ WF_vars(\E r \in TimerRuns : TimerFires(r))
  /\ \A r \in Reloads : WF_vars(ReloadStep(r))
-----------------------------------------------------------------------------
(* What the last update said of an agent is so, unless the program itself  *)
(* changed the agent since: one that is disabled is not active even if it  *)
(* refused to be, one that is enabled runs with that version unless its    *)
(* update failed, one the configuration does not name has no agent.        *)
(* (manager.go:37-144)                                                     *)
AgentsMatch == ~held => \A n \in Names \ touched :
  CASE applied.says[n] = "on" ->
         n \in failing \/ (Active(n) /\ agents[n] = ResolveAll(applied)[n])
    [] applied.says[n] = "off" -> ~Active(n)
    [] OTHER -> agents[n] = None

(* While no two reloads have overlapped, the configuration the reloader    *)
(* calls current is, between reloads, the one the agents were given last,  *)
(* whatever failed to load, stopped or started again in between.           *)
(* (reloader.go:200-215, 338-353)                                          *)
CurrentApplied ==
  (~overlap /\ ~held /\ Busy = {} /\ starting = "no") => current = applied

ConfigInv == TypeOK /\ ConfigTold /\ AgentsMatch /\ CurrentApplied

(* While the file is watched, every version of it, or a later one, is      *)
(* read in the end: no event is lost between the watcher, the debounce and *)
(* a reload that already runs.  Excepted are a reloader that was stopped,  *)
(* whose context stays cancelled, and a manager whose mutex is never       *)
(* released.  (reloader.go:228-300)                                        *)
ChangeLoaded == \A v \in 1..MaxVer :
  (watching /\ file.ver = v) ~> (seen >= v \/ ctxDone \/ held)

(* "Agent is no longer in configuration, disable it" (manager.go:133): an  *)
(* update with a configuration that does not name an active agent ends     *)
(* with the agent inactive.                                                *)
RemovedDisabled == \A n \in Names :
  (Active(n) /\ \E r \in Reloads : /\ reload[r].at = "waiting"
                                   /\ reload[r].config.says[n] = "absent")
    ~> ~Active(n)
=============================================================================
