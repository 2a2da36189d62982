------------------------- MODULE ConfigReloadProofs -------------------------
(***************************************************************************)
(* Proofs about ConfigReload, and about the AgentManager it extends, for   *)
(* any agents, any contents of the file and any number of reloads.  What   *)
(* the manager tells and what its agents run is inductive as it stands;    *)
(* that the current configuration is the one applied needs the order of    *)
(* the steps of reloads that do not overlap.                               *)
(***************************************************************************)
EXTENDS ConfigReload, TLAPS

(* A name without an entry is told from every configuration.               *)
LEMMA NoneApart == None \notin Resolved /\ None.enabled = FALSE
BY ManagerAssumption DEF None, Resolved

(* A configuration resolves to an entry for each name it has.              *)
LEMMA ResolvedEntries ==
  ASSUME NEW c \in Config
  PROVE  /\ ResolveAll(c) \in [Names -> Resolved \cup {None}]
         /\ \A n \in Names :
              /\ c.says[n] \in Says
              /\ ResolveAll(c)[n] = None <=> c.says[n] = "absent"
              /\ ResolveAll(c)[n] # None =>
                   ResolveAll(c)[n].enabled = (c.says[n] = "on")
<1>1. c.says \in [Names -> Says] /\ c.ver \in 0..MaxVer
  BY ReloadAssumption DEF Config, Blank, Says
<1>2. \A n \in Names :
        [ver |-> c.ver, enabled |-> c.says[n] = "on"] \in Resolved
  BY <1>1 DEF Resolved
<1> QED
  BY <1>1, <1>2, NoneApart DEF ResolveAll

-----------------------------------------------------------------------------
(* The manager                                                             *)

(* What a manager's operation may leave of one name: an entry of the right *)
(* type that tells what the agent runs.                                    *)
Told(e) ==
  /\ e.agent \in Resolved \cup {None} /\ e.config \in Resolved \cup {None}
  /\ e.agent # None /\ e.config.enabled => e.agent = e.config
  /\ e.config.enabled => e.agent # None

MInv == ManagerTypeOK /\ ConfigTold

LEMMA EntryTold ==
  ASSUME MInv, NEW n \in Names
  PROVE  Told(Entry(n))
BY DEF MInv, ManagerTypeOK, ConfigTold, Active, Entry, Told

LEMMA BothTold ==
  ASSUME NEW c \in Resolved \cup {None}
  PROVE  Told(Both(c))
BY NoneApart DEF Both, Told

LEMMA DisabledTold ==
  ASSUME MInv, NEW n \in Names, NEW ok \in BOOLEAN
  PROVE  Told(Disabled(n, ok)) /\ Disabled(n, ok).config.enabled = FALSE
<1>1. ASSUME agentConfigs[n] # None
      PROVE  /\ [agentConfigs[n] EXCEPT !.enabled = FALSE] \in Resolved
             /\ [agentConfigs[n] EXCEPT !.enabled = FALSE].enabled = FALSE
  BY <1>1 DEF MInv, ManagerTypeOK, Resolved
<1>2. None \in Resolved \cup {None} /\ None.enabled = FALSE
  BY NoneApart
<1> QED
  BY <1>1, <1>2, BothTold DEF Disabled, Both

LEMMA UpdatedTold ==
  ASSUME MInv, NEW n \in Names, NEW c \in Resolved, NEW ok \in BOOLEAN
  PROVE  Told(Updated(n, c, ok))
<1>1. CASE ~c.enabled
  <2>1. Disabled(n, ok).agent \in Resolved \cup {None}
    BY DisabledTold DEF Told
  <2> QED
    BY <1>1, <2>1 DEF Updated, Told
<1>2. CASE c.enabled /\ ok
  BY <1>2, BothTold DEF Updated
<1>3. CASE c.enabled /\ ~ok
  BY <1>3, EntryTold DEF Updated
<1> QED
  BY <1>1, <1>2, <1>3 DEF Resolved

LEMMA PutTold ==
  ASSUME NEW e, PutEntries(e), \A n \in Names : Told(e[n]), held' \in BOOLEAN
  PROVE  MInv'
BY DEF PutEntries, Told, MInv, ManagerTypeOK, ConfigTold, Active

LEMMA UpdateTold ==
  ASSUME MInv, NEW cfg \in [Names -> Resolved \cup {None}], NEW F,
         UpdateAgentConfigurations(cfg, F)
  PROVE  MInv'
<1> DEFINE e == [n \in Names |-> IF cfg[n] = None THEN Entry(n)
                                 ELSE Updated(n, cfg[n], n \notin F)]
<1>1. \A n \in Names : Told(e[n])
  <2> SUFFICES ASSUME NEW n \in Names PROVE Told(e[n])
    OBVIOUS
  <2>1. CASE cfg[n] = None
    BY <2>1, EntryTold
  <2>2. CASE cfg[n] # None
    <3>1. cfg[n] \in Resolved /\ (n \notin F) \in BOOLEAN
      BY <2>2
    <3> QED
      BY <2>2, <3>1, UpdatedTold
  <2> QED
    BY <2>1, <2>2
<1>2. PutEntries(e) /\ held' \in BOOLEAN
  BY DEF UpdateAgentConfigurations
<1> HIDE DEF e
<1> QED
  BY <1>1, <1>2, PutTold

LEMMA DisableTold ==
  ASSUME MInv, NEW n \in Names, DisableAgent(n)
  PROVE  MInv'
<1>1. PICK ok \in BOOLEAN : PutEntries([m \in Names |->
        IF m = n THEN Disabled(n, ok) ELSE Entry(m)])
  BY DEF DisableAgent
<1> DEFINE e == [m \in Names |-> IF m = n THEN Disabled(n, ok) ELSE Entry(m)]
<1>2. \A m \in Names : Told(e[m])
  BY EntryTold, DisabledTold
<1>3. held' \in BOOLEAN
  BY DEF DisableAgent, MInv, ManagerTypeOK
<1> HIDE DEF e
<1> QED
  BY <1>1, <1>2, <1>3, PutTold DEF e

(* An agent the program made runs with the program's own configuration.    *)
LEMMA OwnTold == Told(Both([ver |-> 0, enabled |-> TRUE]))
<1>1. [ver |-> 0, enabled |-> TRUE] \in Resolved
  BY ManagerAssumption DEF Resolved
<1> QED
  BY <1>1, BothTold

LEMMA CreateTold ==
  ASSUME MInv, NEW n \in Names, CreateAgent(n)
  PROVE  MInv'
<1> DEFINE e == [m \in Names |-> IF m = n
                  THEN Both([ver |-> 0, enabled |-> TRUE]) ELSE Entry(m)]
<1>1. \A m \in Names : Told(e[m])
  BY EntryTold, OwnTold
<1>2. PutEntries(e) /\ held' \in BOOLEAN
  BY DEF CreateAgent, MInv, ManagerTypeOK
<1> HIDE DEF e
<1> QED
  BY <1>1, <1>2, PutTold

LEMMA InitializeTold ==
  ASSUME MInv, NEW E \in SUBSET Names, InitializeAgents(E)
  PROVE  MInv'
<1> DEFINE e == [m \in Names |-> IF m \in E /\ agents[m] = None
                  THEN Both([ver |-> 0, enabled |-> TRUE]) ELSE Entry(m)]
<1>1. \A m \in Names : Told(e[m])
  BY EntryTold, OwnTold
<1>2. PutEntries(e) /\ held' \in BOOLEAN
  BY DEF InitializeAgents, MInv, ManagerTypeOK
<1> HIDE DEF e
<1> QED
  BY <1>1, <1>2, PutTold
-----------------------------------------------------------------------------
(* The reloader: types                                                     *)

LEMMA DefaultsType ==
  Defaults \in Config /\ Idle \in [at : Steps, config : Config]
BY ManagerAssumption DEF Defaults, Config, Idle, Steps

RestOK ==
  /\ {file, initial, current, applied} \subseteq Config
  /\ {event, watching, ctxDone, timer, overlap} \subseteq BOOLEAN
  /\ session \in 0..MaxWatches /\ seen \in 0..MaxVer
  /\ loop \in [1..MaxWatches -> {"none", "select", "debounce", "ended"}]
  /\ starting \in {"no", "loaded", "waiting", "ready"}
  /\ reload \in [Reloads -> [at : Steps, config : Config]]
  /\ failing \subseteq Names /\ touched \subseteq Names

TInv == MInv /\ RestOK

LEMMA InitTInv == Init => TInv
<1> SUFFICES ASSUME Init PROVE TInv
  OBVIOUS
<1>1. MInv
  BY NoneApart DEF Init, ManagerInit, MInv, ManagerTypeOK, ConfigTold, Active
<1>2. file \in Config
  <2>1. PICK c \in Contents : file = [ver |-> 1, readable |-> TRUE, says |-> c]
    BY DEF Init
  <2>2. 1 \in 0..MaxVer
    BY ManagerAssumption, ReloadAssumption
  <2> QED
    BY <2>1, <2>2 DEF Config
<1>3. reload \in [Reloads -> [at : Steps, config : Config]]
  BY DefaultsType DEF Init
<1>4. session \in 0..MaxWatches /\ seen \in 0..MaxVer
  BY ManagerAssumption, ReloadAssumption DEF Init
<1>5. loop \in [1..MaxWatches -> {"none", "select", "debounce", "ended"}]
  BY DEF Init
<1> QED
  BY <1>1, <1>2, <1>3, <1>4, <1>5, DefaultsType DEF Init, TInv, RestOK

(* Apply keeps what its callers leave alone to them.                       *)
LEMMA ApplyTold ==
  ASSUME MInv, NEW c \in Config, Apply(c)
  PROVE  /\ MInv'
         /\ failing' \subseteq Names /\ touched' = {} /\ applied' = c
         /\ held' \in BOOLEAN
<1>1. PICK F \in SUBSET {n \in Names : c.says[n] # "absent"} :
        /\ UpdateAgentConfigurations(ResolveAll(c), F)
        /\ failing' = {n \in F : c.says[n] = "on"}
  BY DEF Apply
<1>2. MInv'
  BY <1>1, ResolvedEntries, UpdateTold
<1> QED
  BY <1>1, <1>2 DEF Apply, UpdateAgentConfigurations

LEMMA NextTInv == TInv /\ [Next]_vars => TInv'
<1> SUFFICES ASSUME TInv, [Next]_vars PROVE TInv'
  OBVIOUS
<1> USE ManagerAssumption, ReloadAssumption
    DEF TInv, managerVars, watchVars, historyVars
<1>0. UNCHANGED managerVars => MInv'
  BY DEF MInv, ManagerTypeOK, ConfigTold, Active
<1>1. CASE Edit
  <2>1. file' \in Config
    BY <1>1 DEF Edit, RestOK, Config
  <2> QED
    BY <1>0, <1>1, <2>1 DEF Edit, RestOK
<1>2. CASE StartWatching
  BY <1>0, <1>2 DEF StartWatching, RestOK, Config
<1>3. CASE StopWatching
  BY <1>0, <1>3 DEF StopWatching, RestOK
<1>4. CASE ProgramInitializes
  BY <1>4, InitializeTold DEF ProgramInitializes, ByProgram, RestOK
<1>5. CASE ProgramCreates
  BY <1>5, CreateTold DEF ProgramCreates, ByProgram, RestOK
<1>6. CASE ProgramDisables
  BY <1>6, DisableTold DEF ProgramDisables, ByProgram, RestOK
<1>7. ASSUME NEW r \in Callers, ReloadConfig(r) PROVE TInv'
  BY <1>0, <1>7 DEF ReloadConfig, Begin, RestOK, Reloads, Steps
<1>8. CASE InitialUpdate
  <2>1. initial \in Config /\ Apply(initial)
    BY <1>8 DEF InitialUpdate, RestOK
  <2> QED
    BY <1>8, <2>1, ApplyTold, DefaultsType DEF InitialUpdate, RestOK
<1>9. CASE StartLoop
  BY <1>0, <1>9 DEF StartLoop, RestOK
<1>10. ASSUME NEW s \in 1..MaxWatches, TakeEvent(s) PROVE TInv'
  BY <1>0, <1>10 DEF TakeEvent, RestOK
<1>11. ASSUME NEW s \in 1..MaxWatches, Debounce(s) PROVE TInv'
  BY <1>0, <1>11 DEF Debounce, Rearm, RestOK
<1>12. ASSUME NEW s \in 1..MaxWatches, LoopEnds(s) PROVE TInv'
  BY <1>0, <1>12 DEF LoopEnds, RestOK
<1>13. ASSUME NEW r \in TimerRuns, TimerFires(r) PROVE TInv'
  BY <1>0, <1>13 DEF TimerFires, Begin, RestOK, Reloads, Steps
<1>14. ASSUME NEW r \in Reloads, Load(r) PROVE TInv'
  <2>1. LoadConfig \in Config
    BY DefaultsType DEF LoadConfig, RestOK
  <2>2. /\ reload' \in [Reloads -> [at : Steps, config : Config]]
        /\ seen' \in 0..MaxVer
    BY <1>14, <2>1, DefaultsType DEF Load, RestOK, Steps, Config
  <2> QED
    BY <1>0, <1>14, <2>2 DEF Load, RestOK
<1>15. ASSUME NEW r \in Reloads, Update(r) PROVE TInv'
  <2>1. reload[r].config \in Config /\ Apply(reload[r].config)
    BY <1>15 DEF Update, RestOK
  <2> QED
    BY <1>15, <2>1, ApplyTold DEF Update, RestOK, Steps
<1>16. ASSUME NEW r \in Reloads, Store(r) PROVE TInv'
  BY <1>0, <1>16, DefaultsType DEF Store, RestOK
<1>17. CASE UNCHANGED vars
  BY <1>0, <1>17 DEF vars, RestOK
<1> QED
  BY <1>1, <1>2, <1>3, <1>4, <1>5, <1>6, <1>7, <1>8, <1>9, <1>10, <1>11,
     <1>12, <1>13, <1>14, <1>15, <1>16, <1>17
     DEF Next, Environment, StartStep, LoopStep, ReloadStep
-----------------------------------------------------------------------------
(* The agents and the configuration that was applied                       *)

(* An update leaves each agent as the configuration says: what is absent   *)
(* had no agent or the call never returns, what is off is not active, what *)
(* is on runs with its entry unless it failed.                             *)
LEMMA ApplyMatches ==
  ASSUME TInv, NEW c \in Config, Apply(c)
  PROVE  AgentsMatch'
<1>1. PICK F \in SUBSET {n \in Names : c.says[n] # "absent"} :
        /\ UpdateAgentConfigurations(ResolveAll(c), F)
        /\ failing' = {n \in F : c.says[n] = "on"}
  BY DEF Apply
<1>2. applied' = c
  BY DEF Apply
<1> SUFFICES ASSUME ~held', NEW n \in Names
             PROVE  CASE c.says[n] = "on" ->
                           \/ n \in failing'
                           \/ Active(n)' /\ agents'[n] = ResolveAll(c)[n]
                      [] c.says[n] = "off" -> ~Active(n)'
                      [] OTHER -> agents'[n] = None
  BY <1>2 DEF AgentsMatch
<1> DEFINE cfg == ResolveAll(c)
<1>3. /\ agents'[n] = (IF cfg[n] = None THEN Entry(n)
                       ELSE Updated(n, cfg[n], n \notin F)).agent
      /\ agentConfigs'[n] = (IF cfg[n] = None THEN Entry(n)
                             ELSE Updated(n, cfg[n], n \notin F)).config
      /\ ~(cfg[n] = None /\ agents[n] # None)
  BY <1>1 DEF UpdateAgentConfigurations, PutEntries
<1>4. CASE c.says[n] = "absent"
  <2>1. cfg[n] = None /\ agents[n] = None
    BY <1>3, <1>4, ResolvedEntries
  <2> QED
    BY <1>3, <1>4, <2>1 DEF Entry
<1>5. CASE c.says[n] = "off"
  <2>1. cfg[n] # None /\ cfg[n].enabled = FALSE
    BY <1>5, ResolvedEntries
  <2>2. agentConfigs'[n] = cfg[n]
    BY <1>3, <2>1 DEF Updated
  <2> HIDE DEF cfg
  <2> QED
    BY <1>5, <2>1, <2>2 DEF Active
<1>6. CASE c.says[n] = "on" /\ n \in F
  BY <1>1, <1>6
<1>7. CASE c.says[n] = "on" /\ n \notin F
  <2>1. cfg[n] # None /\ cfg[n].enabled
    BY <1>7, ResolvedEntries
  <2>2. agentConfigs'[n] = cfg[n] /\ agents'[n] = cfg[n]
    BY <1>3, <1>7, <2>1 DEF Updated, Both
  <2> HIDE DEF cfg
  <2>3. Active(n)'
    BY <2>1, <2>2 DEF Active
  <2> QED
    BY <1>7, <2>2, <2>3 DEF cfg
<1> QED
  BY <1>4, <1>5, <1>6, <1>7, ResolvedEntries DEF Says

(* What the program changes itself it touches; the rest stays.             *)
LEMMA ByProgramMatches ==
  ASSUME TInv, AgentsMatch, NEW names, ByProgram(names), held' = held,
         \A n \in Names \ names :
           agents'[n] = agents[n] /\ agentConfigs'[n] = agentConfigs[n]
  PROVE  AgentsMatch'
<1>1. \A n \in Names \ touched' : /\ n \notin touched
                                  /\ Active(n)' = Active(n)
                                  /\ agents'[n] = agents[n]
  BY DEF ByProgram, Active
<1> QED
  BY <1>1 DEF AgentsMatch, ByProgram, ResolveAll

LEMMA QuietMatches ==
  ASSUME AgentsMatch, UNCHANGED <<managerVars, applied, failing, touched>>
  PROVE  AgentsMatch'
BY DEF AgentsMatch, managerVars, Active, ResolveAll

LEMMA NextMatches == TInv /\ AgentsMatch /\ [Next]_vars => AgentsMatch'
<1> SUFFICES ASSUME TInv, AgentsMatch, [Next]_vars PROVE AgentsMatch'
  OBVIOUS
<1>1. CASE ProgramInitializes
  <2>1. PICK E \in SUBSET Names :
          InitializeAgents(E) /\ ByProgram({n \in E : agents[n] = None})
    BY <1>1 DEF ProgramInitializes
  <2> QED
    BY <2>1, ByProgramMatches DEF InitializeAgents, PutEntries, Entry
<1>2. CASE ProgramCreates
  <2>1. PICK n \in Names : CreateAgent(n) /\ ByProgram({n})
    BY <1>2 DEF ProgramCreates
  <2> QED
    BY <2>1, ByProgramMatches DEF CreateAgent, PutEntries, Entry
<1>3. CASE ProgramDisables
  <2>1. PICK n \in Names : DisableAgent(n) /\ ByProgram({n})
    BY <1>3 DEF ProgramDisables
  <2>2. \A m \in Names \ {n} :
          agents'[m] = agents[m] /\ agentConfigs'[m] = agentConfigs[m]
    BY <2>1 DEF DisableAgent, PutEntries, Entry
  <2>3. held' = held
    BY <2>1 DEF DisableAgent
  <2> QED
    BY <2>1, <2>2, <2>3, ByProgramMatches
<1>4. CASE InitialUpdate
  BY <1>4, ApplyMatches DEF InitialUpdate, TInv, RestOK
<1>5. ASSUME NEW r \in Reloads, Update(r) PROVE AgentsMatch'
  <2>1. reload[r].config \in Config /\ Apply(reload[r].config)
    BY <1>5 DEF Update, TInv, RestOK
  <2> QED
    BY <2>1, ApplyMatches
<1>6. CASE UNCHANGED <<managerVars, applied, failing, touched>>
  BY <1>6, QuietMatches
<1> QED
  BY <1>1, <1>2, <1>3, <1>4, <1>5, <1>6
     DEF Next, Environment, StartStep, LoopStep, ReloadStep, vars,
         historyVars, watchVars, Edit, StartWatching, StopWatching,
         ReloadConfig, Begin, StartLoop, TakeEvent, Debounce, LoopEnds,
         TimerFires, Load, Store
-----------------------------------------------------------------------------
(* The current configuration and the one that was applied                  *)

Past(r) == reload[r].at \in {"loaded", "waiting", "updated"}

(* While reloads have not overlapped one at most is past its Load, and     *)
(* none while StartWatching runs; the one that has updated the agents      *)
(* holds what it updated them with; with none under way, nothing was       *)
(* applied that is not current.                                            *)
Serial == ~overlap =>
  /\ \A r, q \in Reloads : Past(r) /\ Past(q) => r = q
  /\ starting # "no" => \A r \in Reloads : ~Past(r)
  /\ starting = "loaded" => current = initial
  /\ \A r \in Reloads : reload[r].at = "updated" => applied = reload[r].config
  /\ (/\ ~held /\ starting \in {"no", "ready"}
      /\ \A r \in Reloads : ~Past(r)) => current = applied

LEMMA BeginSerial ==
  ASSUME TInv, Serial, NEW r \in Reloads, Begin(r)
  PROVE  Serial'
<1>1. \A q \in Reloads : Past(q)' = Past(q)
  BY DEF Begin, Past, TInv, RestOK
<1>2. \A q \in Reloads :
        reload'[q].at = "updated" => reload'[q] = reload[q]
  BY DEF Begin, TInv, RestOK
<1> QED
  BY <1>1, <1>2 DEF Begin, Serial, managerVars, historyVars

LEMMA LoadSerial ==
  ASSUME TInv, Serial, NEW r \in Reloads, Load(r)
  PROVE  Serial'
<1> SUFFICES ASSUME ~overlap' PROVE Serial'
  BY DEF Serial
<1>1. ~overlap /\ Busy = {r} /\ starting = "no"
  BY DEF Load
<1>2. \A q \in Reloads : q # r => ~Past(q) /\ ~Past(q)'
  BY <1>1 DEF Busy, Past, Load, TInv, RestOK
<1>3. ~Past(r) /\ reload'[r].at # "updated"
  BY DEF Load, Past, Idle, TInv, RestOK
<1>4. ~held => current = applied
  BY <1>1, <1>2, <1>3 DEF Serial
<1>5. UNCHANGED <<held, current, applied, starting, initial>>
  BY DEF Load, managerVars, watchVars
<1>6. \A q \in Reloads : reload'[q].at # "updated"
  BY <1>2, <1>3 DEF Past
<1> QED
  BY <1>1, <1>2, <1>4, <1>5, <1>6 DEF Serial

LEMMA UpdateSerial ==
  ASSUME TInv, Serial, NEW r \in Reloads, Update(r)
  PROVE  Serial'
<1> SUFFICES ASSUME ~overlap' PROVE Serial'
  BY DEF Serial
<1>1. ~overlap /\ UNCHANGED <<current, starting, initial>>
  BY DEF Update, watchVars
<1>2. Past(r) /\ Past(r)'
  BY DEF Update, Past, TInv, RestOK
<1>3. \A q \in Reloads : q # r => ~Past(q) /\ reload'[q] = reload[q]
  BY <1>1, <1>2 DEF Serial, Update, TInv, RestOK
<1>4. starting = "no"
  BY <1>1, <1>2 DEF Serial
<1>5. applied' = reload'[r].config
  BY DEF Update, Apply, TInv, RestOK
<1> QED
  BY <1>1, <1>2, <1>3, <1>4, <1>5 DEF Serial, Past

LEMMA StoreSerial ==
  ASSUME TInv, Serial, NEW r \in Reloads, Store(r)
  PROVE  Serial'
<1> SUFFICES ASSUME ~overlap' PROVE Serial'
  BY DEF Serial
<1>1. ~overlap /\ starting = "no"
      /\ UNCHANGED <<applied, starting, held, initial>>
  BY DEF Store, historyVars, watchVars, managerVars
<1>2. Past(r) /\ ~Past(r)' /\ reload[r].at = "updated"
  BY DEF Store, Past, Idle, TInv, RestOK
<1>3. \A q \in Reloads : ~Past(q)'
  BY <1>1, <1>2 DEF Serial, Store, Past, TInv, RestOK
<1>4. current' = applied'
  BY <1>1, <1>2 DEF Serial, Store
<1> QED
  BY <1>1, <1>3, <1>4 DEF Serial, Past

LEMMA StartSerial ==
  ASSUME TInv, Serial, StartWatching
  PROVE  Serial'
<1> SUFFICES ASSUME ~overlap' PROVE Serial'
  BY DEF Serial
<1>1. ~overlap /\ Busy = {} /\ starting = "no"
      /\ UNCHANGED <<applied, held, reload>>
  BY DEF StartWatching, managerVars
<1>2. \A q \in Reloads : ~Past(q) /\ ~Past(q)'
  BY <1>1 DEF Busy, Past
<1>3. ~held => current = applied
  BY <1>1, <1>2 DEF Serial
<1>4. \/ starting' = "loaded" /\ initial' = current'
      \/ starting' = "ready" /\ current' = current
  BY DEF StartWatching
<1> QED
  BY <1>1, <1>2, <1>3, <1>4 DEF Serial, Past

LEMMA InitialSerial ==
  ASSUME TInv, Serial, InitialUpdate
  PROVE  Serial'
<1> SUFFICES ASSUME ~overlap' PROVE Serial'
  BY DEF Serial
<1>1. ~overlap /\ starting = "loaded" /\ current = initial
      /\ UNCHANGED <<current, reload>> /\ applied' = initial
  BY DEF InitialUpdate, Apply, Serial
<1>2. \A q \in Reloads : ~Past(q) /\ ~Past(q)'
  BY <1>1 DEF Serial, Past
<1>3. starting' # "loaded"
  BY DEF InitialUpdate
<1> QED
  BY <1>1, <1>2, <1>3 DEF Serial, Past

LEMMA NextSerial == TInv /\ Serial /\ [Next]_vars => Serial'
<1> SUFFICES ASSUME TInv, Serial, [Next]_vars PROVE Serial'
  OBVIOUS
<1> DEFINE Same == UNCHANGED <<held, starting, initial, reload, current,
                               applied, overlap>>
<1>1. Same => Serial'
  BY DEF Serial, Past
<1>2. CASE ProgramInitializes \/ ProgramCreates \/ ProgramDisables
  <2>1. Same
    BY <1>2 DEF ProgramInitializes, ProgramCreates, ProgramDisables, ByProgram,
         InitializeAgents, CreateAgent, DisableAgent, watchVars
  <2> QED
    BY <1>1, <2>1
<1>3. CASE Edit \/ StopWatching
  BY <1>1, <1>3 DEF Edit, StopWatching, managerVars, historyVars
<1>4. ASSUME NEW s \in 1..MaxWatches, LoopStep(s) PROVE Serial'
  BY <1>1, <1>4 DEF LoopStep, TakeEvent, Debounce, LoopEnds, managerVars,
       historyVars
<1>5. CASE StartLoop
  BY <1>5 DEF StartLoop, Serial, Past, managerVars, historyVars
<1>6. ASSUME NEW r \in Reloads, Begin(r) PROVE Serial'
  BY <1>6, BeginSerial
<1>7. CASE UNCHANGED vars
  BY <1>1, <1>7 DEF vars, managerVars, watchVars, historyVars
<1> QED
  BY <1>2, <1>3, <1>4, <1>5, <1>6, <1>7, StartSerial, InitialSerial,
     LoadSerial, UpdateSerial, StoreSerial
     DEF Next, Environment, StartStep, ReloadStep, ReloadConfig, TimerFires,
         Reloads
-----------------------------------------------------------------------------
IInv == TInv /\ AgentsMatch /\ Serial

LEMMA InitIInv == Init => IInv
<1> SUFFICES ASSUME Init PROVE IInv
  OBVIOUS
<1>1. AgentsMatch
  BY DEF Init, ManagerInit, AgentsMatch, Defaults, Blank
<1>2. Serial
  BY DEF Init, Serial, Past, Idle
<1> QED
  BY <1>1, <1>2, InitTInv DEF IInv

LEMMA Inductive == Spec => []IInv
<1>1. IInv /\ [Next]_vars => IInv'
  BY NextTInv, NextMatches, NextSerial DEF IInv
<1> QED
  BY InitIInv, <1>1, PTL DEF Spec

(* Every variable of the reloader and of the manager keeps its type:       *)
(* versions and watches stay within their bounds, and no reload holds      *)
(* anything but a configuration that a file can have.                      *)
THEOREM TypeCorrect == Spec => []TypeOK
<1>1. IInv => TypeOK
  BY DEF IInv, TInv, MInv, RestOK, TypeOK
<1> QED
  BY <1>1, Inductive, PTL

(* What the manager tells of an agent is what the agent runs with, in any  *)
(* order of updates, creations, refusals and disablings of any number of   *)
(* agents.                                                                 *)
THEOREM ToldTruly == Spec => []ConfigTold
<1>1. IInv => ConfigTold
  BY DEF IInv, TInv, MInv
<1> QED
  BY <1>1, Inductive, PTL

(* The agents are as the last applied configuration says, and that is the  *)
(* current one as long as no two reloads have overlapped, for any agents,  *)
(* contents, callers and debounce functions.                               *)
THEOREM ReloadCorrect == Spec => []ConfigInv
<1>1. IInv => CurrentApplied
  BY DEF IInv, Serial, CurrentApplied, Busy, Past
<1>2. IInv => ConfigInv
  BY <1>1 DEF IInv, TInv, MInv, RestOK, TypeOK, ConfigInv
<1> QED
  BY <1>2, Inductive, PTL
=============================================================================
