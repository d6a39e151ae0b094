------------------------------- MODULE MCServer ------------------------------
(***************************************************************************)
(* JobTransactions with overlapping requests and, as guests, instances of  *)
(* AgentAlerts: what requests and the background tasks of the server do,   *)
(* in one run of TLC. Each behaviour is one of the instance that its       *)
(* variable instance names.                                                *)
(***************************************************************************)
EXTENDS JobTransactions, TLC

CONSTANTS a1, a2, k1, k2, a3, j1, j2, j3, w1, None

VARIABLES
  instance,  \* the instance that the behaviour is one of
  agent, job, sweep, alerts, debounce, sent, heard, notified, crashes

agentAlertsVars == <<agent, job, sweep, alerts, debounce, sent, heard, notified, crashes>>
varsOne == <<instance, vars, agentAlertsVars>>

Symmetry == Permutations({a1, a2}) \cup Permutations({j1, j2}) \cup Permutations({k1, k2})

Alerts == INSTANCE AgentAlerts WITH
  Agents <- {a1, a2}, Jobs <- {}, Workers <- {w1}, MaxRetries <- 1, Warnings <- FALSE,
  Requests <- FALSE, MaxCrashes <- 0, told <- heard
Releases == INSTANCE AgentAlerts WITH
  Agents <- {a3}, Jobs <- {j3}, Workers <- {w1}, MaxRetries <- 1, Warnings <- FALSE,
  Requests <- TRUE, MaxCrashes <- 1, told <- heard
LastRetries == INSTANCE AgentAlerts WITH
  Agents <- {a3}, Jobs <- {j1, j2}, Workers <- {w1}, MaxRetries <- 2, Warnings <- TRUE,
  Requests <- FALSE, MaxCrashes <- 0, told <- heard

ASSUME ConstantsAssumptions ==
  /\ ConstantsAssumption
  /\ Alerts!ConstantsAssumption
  /\ Releases!ConstantsAssumption
  /\ LastRetries!ConstantsAssumption

(* Variables of components that the instance is not of.                    *)
Absent(v) == v = "absent"
NoAgentAlerts == Absent(agent) /\ Absent(job) /\ Absent(sweep) /\ Absent(alerts) /\
                 Absent(debounce) /\ Absent(sent) /\ Absent(heard) /\ Absent(notified) /\
                 Absent(crashes)

InitOne ==
  \/ /\ instance = "overlapping" /\ Init /\ NoAgentAlerts
  \/ /\ instance = "alerts" /\ Alerts!Init /\ Init
  \/ /\ instance = "releases" /\ Releases!Init /\ Init
  \/ /\ instance = "last_retries" /\ LastRetries!Init /\ Init

NextOne ==
  \/ /\ instance = "overlapping" /\ Next
     /\ UNCHANGED <<instance, agentAlertsVars>>
  \/ /\ instance = "alerts" /\ Alerts!Next
     /\ UNCHANGED <<instance, vars>>
  \/ /\ instance = "releases" /\ Releases!Next
     /\ UNCHANGED <<instance, vars>>
  \/ /\ instance = "last_retries" /\ LastRetries!Next
     /\ UNCHANGED <<instance, vars>>

SpecOne == InitOne /\ [][NextOne]_varsOne

-----------------------------------------------------------------------------
(* Properties of the guests, in the instances that they are checked in.    *)

(* FR-030: when all agents of the team are offline its members have been   *)
(* told, once the requests that were under way have been handled.          *)
PoolOfflineTold == instance = "alerts" => Alerts!PoolOfflineTold

(* FR-036: an agent that was marked offline holds no jobs.                 *)
OfflineHoldsNoJobs ==
  /\ instance = "releases" => Releases!OfflineHoldsNoJobs
  /\ instance = "last_retries" => LastRetries!OfflineHoldsNoJobs
=============================================================================
