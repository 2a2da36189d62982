---------------------------- MODULE AgentManager ----------------------------
(***************************************************************************)
(* DefaultAgentManager of internal/agents/manager.go: the agents a program *)
(* runs, by name, and the configuration each was last given.  Every        *)
(* operation holds am.mutex from start to end and is one action here.      *)
(*                                                                         *)
(* agents[n] is what agent n itself runs with, agentConfigs[n] what the    *)
(* manager tells of it; the two are written in different places.           *)
(***************************************************************************)
EXTENDS Naturals

CONSTANTS
  Names,   \* agent names
  Aware,   \* those whose factory makes a ConfigAwareAgent
  MaxVer   \* bound: versions of the configuration file

ASSUME ManagerAssumption == Aware \subseteq Names /\ MaxVer \in Nat

VARIABLES
  agents,        \* am.agents
  agentConfigs,  \* am.agentConfigs
  held           \* am.mutex is held by a call that waits for it

managerVars == <<agents, agentConfigs, held>>

(* A ResolvedAgentConfig: the version of the file it comes from, where 0   *)
(* is the program's own, and whether it enables the agent.                 *)
Resolved == [ver : 0..MaxVer, enabled : BOOLEAN]
None == [ver |-> MaxVer + 1, enabled |-> FALSE]   \* no entry in the map

ManagerTypeOK ==
  /\ agents \in [Names -> Resolved \cup {None}]
  /\ agentConfigs \in [Names -> Resolved \cup {None}]
  /\ held \in BOOLEAN

ManagerInit ==
  /\ agents = [n \in Names |-> None]
  /\ agentConfigs = [n \in Names |-> None]
  /\ held = FALSE

Entry(n) == [agent |-> agents[n], config |-> agentConfigs[n]]
Both(c) == [agent |-> c, config |-> c]

(* What GetActiveAgents returns. *)
Active(n) == agents[n] # None /\ agentConfigs[n].enabled
-----------------------------------------------------------------------------
(* disableAgentInternal: an agent that takes configurations gets a         *)
(* disabled one; when it refuses (ok is FALSE), and for any other agent,   *)
(* the entry goes away.                                                    *)
Disabled(n, ok) ==
  IF n \in Aware /\ agentConfigs[n] # None /\ ok
    THEN Both([agentConfigs[n] EXCEPT !.enabled = FALSE])
    ELSE Both(None)

(* One iteration of UpdateAgentConfigurations for a name the configuration *)
(* has.  A disabled agent's configuration is stored whatever became of the *)
(* agent; an agent that refuses its update, or that the factory cannot     *)
(* make again, keeps everything it had.                                    *)
Updated(n, c, ok) ==
  CASE ~c.enabled ->
         [agent |-> IF agents[n] = None THEN None ELSE Disabled(n, ok).agent,
          config |-> c]
    [] c.enabled /\ ok -> Both(c)
    [] OTHER -> Entry(n)

PutEntries(e) ==
  /\ agents' = [n \in Names |-> e[n].agent]
  /\ agentConfigs' = [n \in Names |-> e[n].config]

(* Slip: the first agent that cannot take its configuration ends the       *)
(* update; here the map gives that one first.                              *)
UpdateUntilFailure(cfg, failing) ==
  /\ ~held
  /\ PutEntries([n \in Names |->
       IF cfg[n] = None \/ \E m \in failing : cfg[m].enabled
         THEN Entry(n) ELSE Updated(n, cfg[n], TRUE)])
  /\ held' = \E n \in Names : cfg[n] = None /\ agents[n] # None

(* UpdateAgentConfigurations: cfg[n] is None for a name the configuration  *)
(* does not have, failing are the agents that cannot take theirs.  For an  *)
(* agent that is no longer named it calls DisableAgent, which locks the    *)
(* mutex this call holds: neither returns.                                 *)
UpdateAgentConfigurations(cfg, failing) ==
  /\ ~held
  /\ PutEntries([n \in Names |-> IF cfg[n] = None THEN Entry(n)
                                 ELSE Updated(n, cfg[n], n \notin failing)])
  /\ held' = \E n \in Names : cfg[n] = None /\ agents[n] # None
-----------------------------------------------------------------------------
(* The operations a program calls itself                                   *)

DisableAgent(n) ==
  /\ ~held /\ agents[n] # None
  /\ \E ok \in BOOLEAN :
       PutEntries([m \in Names |-> IF m = n THEN Disabled(n, ok)
                                   ELSE Entry(m)])
  /\ UNCHANGED held

(* CreateAgent with a configuration of the program's own; the factory      *)
(* refuses a disabled one, and a failure leaves the maps alone.            *)
CreateAgent(n) ==
  /\ ~held
  /\ PutEntries([m \in Names |->
       IF m = n THEN Both([ver |-> 0, enabled |-> TRUE]) ELSE Entry(m)])
  /\ UNCHANGED held

(* InitializeAgents: enabled are the names the factory's configuration     *)
(* enables and for which an agent could be made; a name that has an agent  *)
(* is skipped.                                                             *)
InitializeAgents(enabled) ==
  /\ ~held
  /\ PutEntries([n \in Names |->
       IF n \in enabled /\ agents[n] = None
         THEN Both([ver |-> 0, enabled |-> TRUE]) ELSE Entry(n)])
  /\ UNCHANGED held
-----------------------------------------------------------------------------
(* What the manager tells of an agent is what the agent runs with: an      *)
(* active agent has the very configuration agentConfigs holds for it, and  *)
(* no configuration is listed as enabled without its agent, whichever of   *)
(* the ways to update, recreate, refuse and disable an agent were taken    *)
(* (manager.go:37-128, 188-221, and the readers at 254-286 and 336-347).   *)
ConfigTold == \A n \in Names :
  /\ Active(n) => agents[n] = agentConfigs[n]
  /\ agentConfigs[n].enabled => agents[n] # None
=============================================================================
