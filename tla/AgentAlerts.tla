----------------------------- MODULE AgentAlerts -----------------------------
(***************************************************************************)
(* What a team is told of its agents.  Agents come and go by heartbeats    *)
(* and disconnects; whoever asks for the status of the pool first marks    *)
(* the silent agents offline and releases their jobs, and so does a task   *)
(* of the server, the only one that looks at the outcome.  A warning about *)
(* the last retry of a job is stored with a commit of its own, in the      *)
(* middle of the release.  Alerts of an agent are not repeated within five *)
(* minutes, as far as the memory of one server process goes.               *)
(***************************************************************************)
EXTENDS Naturals, FiniteSets

CONSTANTS
  Agents,
  Jobs,
  Workers,     \* server processes; each handles one request at a time
  None,        \* no agent
  MaxRetries,
  Warnings,    \* some member has asked for retry warnings
  Requests,    \* the status of the pool is asked for
  MaxCrashes   \* bound: crashes of server processes

ConstantsAssumption ==
  /\ None \notin Agents
  /\ MaxRetries \in Nat /\ MaxCrashes \in Nat
  /\ Warnings \in BOOLEAN /\ Requests \in BOOLEAN

VARIABLES
  agent,     \* agent[a]: the status of the agent and whether it was heard of lately
  job,       \* job[j]: the row of the job
  sweep,     \* sweep[w]: the release of jobs that process w is busy with
  alerts,    \* alerts that are to be sent in the background
  debounce,  \* debounce[w]: alerts of the last five minutes that process w remembers
  sent,      \* alerts that any process sent in the last five minutes
  told,      \* the members know of the pool being offline
  notified,  \* failed jobs the members were notified of
  crashes    \* the number of crashes so far

vars == <<agent, job, sweep, alerts, debounce, sent, told, notified, crashes>>

Kinds == {"pool_offline", "pool_recovery", "agent_error"}
Keys == Agents \X Kinds
Job == [state: {"pending", "held", "completed", "failed"}, agent: Agents \cup {None}, retries: 0 .. MaxRetries]
NewJob == [state |-> "pending", agent |-> None, retries |-> 0]

(* found: agents marked offline; left: those whose jobs are to be released *)
(* yet; jobs: the jobs of the present one; gone, rows, dirty: what is not  *)
(* committed yet.                                                          *)
Origins == {"safety_net", "request", "leave", "disconnect"}
Sweep == [phase: {"idle", "release", "conclude"}, origin: Origins, who: Agents \cup {None},
          found: SUBSET Agents, left: SUBSET Agents, jobs: SUBSET Jobs,
          gone: SUBSET Agents, rows: [Jobs -> Job], dirty: SUBSET Jobs]
NoSweep == [phase |-> "idle", origin |-> "request", who |-> None, found |-> {}, left |-> {},
            jobs |-> {}, gone |-> {}, rows |-> [j \in Jobs |-> NewJob], dirty |-> {}]

TypeOK == /\ agent \in [Agents -> [status: {"online", "offline", "error"}, fresh: BOOLEAN]]
          /\ job \in [Jobs -> Job]
          /\ sweep \in [Workers -> Sweep]
          /\ alerts \subseteq [worker: Workers, key: Keys]
          /\ debounce \in [Workers -> SUBSET Keys]
          /\ sent \subseteq Keys
          /\ told \in BOOLEAN
          /\ notified \subseteq Jobs
          /\ crashes \in 0 .. MaxCrashes

Init == /\ agent = [a \in Agents |-> [status |-> "offline", fresh |-> FALSE]]
        /\ job = [j \in Jobs |-> NewJob]
        /\ sweep = [w \in Workers |-> NoSweep]
        /\ alerts = {}
        /\ debounce = [w \in Workers |-> {}]
        /\ sent = {}
        /\ told = TRUE
        /\ notified = {}
        /\ crashes = 0

-----------------------------------------------------------------------------
Online(ag) == {a \in Agents : ag[a].status = "online"}
Silent(ag) == {a \in Online(ag) : ~ ag[a].fresh}
Held(a) == {j \in Jobs : job[j].state = "held" /\ job[j].agent = a}
Free(w) == sweep[w].phase = "idle"

(* check_offline_agents selects the silent agents.                         *)
Started(origin, who, ag) ==
  [NoSweep EXCEPT !.phase = "release", !.origin = origin, !.who = who,
                  !.found = Silent(ag), !.left = Silent(ag)]

(* Members hear of an offline pool once, until an agent is back.           *)
AgentsAre(ag, heard) == agent' = ag /\ told' = (Online(ag) = {} /\ (told \/ heard))

(* notify_agent_status: sent unless sent by this process lately.           *)
Remembered(w, key) == sent' = sent \cup {key} /\ debounce' = [debounce EXCEPT ![w] = @ \cup {key}]

Notify(w, key) == IF key \in debounce[w] THEN UNCHANGED <<debounce, sent>> ELSE Remembered(w, key)

GoSilent(a) ==
  /\ agent[a].fresh
  /\ agent' = [agent EXCEPT ![a].fresh = FALSE]
  /\ UNCHANGED <<job, sweep, alerts, debounce, sent, told, notified, crashes>>

Heartbeat(w, a, status) ==
  LET ag == [agent EXCEPT ![a] = [status |-> status, fresh |-> TRUE]]
      failed == status = "error" /\ agent[a].status # "error"
      recovered == status = "online" /\ Online(agent) = {}
  IN /\ Free(w)
     /\ AgentsAre(ag, FALSE)
     /\ alerts' = alerts \cup {[worker |-> w, key |-> <<a, k>>]
                                 : k \in {x \in Kinds : \/ x = "agent_error" /\ failed
                                                        \/ x = "pool_recovery" /\ recovered}}
     /\ sweep' = [sweep EXCEPT ![w] = Started("request", None, ag)]
     /\ UNCHANGED <<job, debounce, sent, notified, crashes>>

Disconnect(w, a) ==
  /\ Free(w)
  /\ sweep' = [sweep EXCEPT ![w] = [Started("leave", a, agent) EXCEPT !.found = {}, !.left = {a}]]
  /\ UNCHANGED <<agent, job, alerts, debounce, sent, told, notified, crashes>>

AskStatus(w) ==
  /\ Requests /\ Free(w)
  /\ sweep' = [sweep EXCEPT ![w] = Started("request", None, agent)]
  /\ UNCHANGED <<agent, job, alerts, debounce, sent, told, notified, crashes>>

SafetyNet(w) ==
  /\ Free(w)
  /\ sweep' = [sweep EXCEPT ![w] = Started("safety_net", None, agent)]
  /\ UNCHANGED <<agent, job, alerts, debounce, sent, told, notified, crashes>>

NextAgent(w) ==
  /\ sweep[w].phase = "release"
  /\ sweep[w].jobs = {}
  /\ \E a \in sweep[w].left :
       LET s == [sweep[w] EXCEPT !.left = @ \ {a}, !.gone = @ \cup {a}, !.jobs = Held(a)]
       IN sweep' = [sweep EXCEPT ![w] = s]
  /\ UNCHANGED <<agent, job, alerts, debounce, sent, told, notified, crashes>>

(* Mutant: a job keeps its agent.                                          *)
KeepsAgent(row) == IF row.retries < MaxRetries THEN [row EXCEPT !.retries = @ + 1]
                   ELSE [row EXCEPT !.state = "failed", !.agent = None]
(* Mutant: the retries are not limited.                                    *)
Unlimited(row) == [state |-> "pending", agent |-> None, retries |-> row.retries + 1]
Released(row) ==
  IF row.retries < MaxRetries
  THEN [state |-> "pending", agent |-> None, retries |-> row.retries + 1]
  ELSE [row EXCEPT !.state = "failed", !.agent = None]
LastRetry(row) == row.state = "pending" /\ row.retries + 1 = MaxRetries

Commit(s) ==
  /\ AgentsAre([a \in Agents |-> IF a \in s.gone THEN [agent[a] EXCEPT !.status = "offline"] ELSE agent[a]],
               FALSE)
  /\ job' = [j \in Jobs |-> IF j \in s.dirty THEN s.rows[j] ELSE job[j]]

(* The warning of a last retry commits whatever the session has changed.   *)
ReleaseJob(w) ==
  /\ sweep[w].phase = "release"
  /\ \E j \in sweep[w].jobs :
       LET s == [sweep[w] EXCEPT !.jobs = @ \ {j}, !.dirty = @ \cup {j}, !.rows[j] = Released(job[j])]
       IN IF Warnings /\ LastRetry(Released(job[j]))
          THEN /\ Commit(s)
               /\ sweep' = [sweep EXCEPT ![w] = [s EXCEPT !.gone = {}, !.dirty = {}]]
          ELSE /\ sweep' = [sweep EXCEPT ![w] = s]
               /\ UNCHANGED <<agent, job, told>>
  /\ UNCHANGED <<alerts, debounce, sent, notified, crashes>>

FinishRelease(w) ==
  /\ sweep[w].phase = "release"
  /\ sweep[w].jobs = {} /\ sweep[w].left = {}
  /\ Commit(sweep[w])
  /\ sweep' = [sweep EXCEPT ![w] = [@ EXCEPT !.phase = "conclude", !.gone = {}, !.dirty = {}]]
  /\ UNCHANGED <<alerts, debounce, sent, notified, crashes>>

(* Mutant: the task, too, does not look at the outcome.                    *)
ConcludeSilently(w) ==
  /\ sweep[w].phase = "conclude"
  /\ sweep' = [sweep EXCEPT ![w] = IF @.origin = "leave" THEN Started("disconnect", @.who, agent)
                                   ELSE NoSweep]
  /\ UNCHANGED <<agent, job, alerts, debounce, sent, told, notified, crashes>>
(* A disconnect asks for the status next, and looks whether anyone is      *)
(* left; the task sends its alert at once, or has it suppressed because    *)
(* one was sent shortly before, which counts as told too.                  *)
Conclude(w) ==
  LET s == sweep[w]
      empty == Online(agent) = {}
      alarm == s.origin = "safety_net" /\ empty /\ s.found # {}
  IN /\ s.phase = "conclude"
     /\ sweep' = [sweep EXCEPT ![w] = IF s.origin = "leave" THEN Started("disconnect", s.who, agent)
                                      ELSE NoSweep]
     /\ alerts' = IF s.origin = "disconnect" /\ empty
                  THEN alerts \cup {[worker |-> w, key |-> <<s.who, "pool_offline">>]} ELSE alerts
     /\ AgentsAre(agent, alarm)
     /\ IF alarm THEN \E a \in s.found : Notify(w, <<a, "pool_offline">>) ELSE UNCHANGED <<debounce, sent>>
     /\ UNCHANGED <<job, notified, crashes>>

Done(x) ==
  /\ alerts' = alerts \ {x}
  /\ AgentsAre(agent, x.key[2] = "pool_offline")
  /\ UNCHANGED <<agent, job, sweep, notified, crashes>>
Suppress(x) ==
  /\ x \in alerts /\ Free(x.worker)
  /\ x.key \in debounce[x.worker]
  /\ Done(x)
  /\ UNCHANGED <<debounce, sent>>
Send(x) ==
  /\ x \in alerts /\ Free(x.worker)
  /\ x.key \notin debounce[x.worker]
  /\ Done(x)
  /\ Remembered(x.worker, x.key)

(* Five minutes after an alert.                                            *)
Expire(key) ==
  /\ key \in sent
  /\ sent' = sent \ {key}
  /\ debounce' = [w \in Workers |-> debounce[w] \ {key}]
  /\ UNCHANGED <<agent, job, sweep, alerts, told, notified, crashes>>

Claim(w, j, a) ==
  /\ Free(w)
  /\ agent[a].status = "online"
  /\ job[j].state = "pending"
  /\ job' = [job EXCEPT ![j].state = "held", ![j].agent = a]
  /\ UNCHANGED <<agent, sweep, alerts, debounce, sent, told, notified, crashes>>

CompleteJob(w, j) ==
  /\ Free(w)
  /\ job[j].state = "held"
  /\ job' = [job EXCEPT ![j].state = "completed", ![j].agent = None]
  /\ UNCHANGED <<agent, sweep, alerts, debounce, sent, told, notified, crashes>>

(* fail_job notifies the members of a failure that an agent reports.       *)
ReportFailure(w, j) ==
  /\ Free(w)
  /\ job[j].state = "held"
  /\ job' = [job EXCEPT ![j].state = "failed", ![j].agent = None]
  /\ notified' = notified \cup {j}
  /\ UNCHANGED <<agent, sweep, alerts, debounce, sent, told, crashes>>

Crash(w) ==
  /\ crashes < MaxCrashes
  /\ crashes' = crashes + 1
  /\ sweep' = [sweep EXCEPT ![w] = NoSweep]
  /\ debounce' = [debounce EXCEPT ![w] = {}]
  /\ UNCHANGED sent
  /\ alerts' = {x \in alerts : x.worker # w}
  /\ UNCHANGED <<agent, job, told, notified>>

Next ==
  \/ \E w \in Workers :
       \/ \E a \in Agents : \/ \E status \in {"online", "error"} : Heartbeat(w, a, status)
                            \/ Disconnect(w, a)
                            \/ \E j \in Jobs : Claim(w, j, a)
       \/ AskStatus(w) \/ SafetyNet(w)
       \/ NextAgent(w) \/ ReleaseJob(w) \/ FinishRelease(w) \/ Conclude(w)
       \/ \E j \in Jobs : CompleteJob(w, j) \/ ReportFailure(w, j)
       \/ Crash(w)
  \/ \E a \in Agents : GoSilent(a)
  \/ \E x \in alerts : Suppress(x) \/ Send(x)
  \/ \E key \in Keys : Expire(key)

Spec == Init /\ [][Next]_vars

-----------------------------------------------------------------------------
(* Properties.                                                             *)

(* FR-030: when all agents of the team are offline its members have been   *)
(* told, once the requests that were under way have been handled.          *)
PoolOfflineTold ==
  /\ \A a \in Agents : agent[a].status = "offline"
  /\ \A w \in Workers : Free(w)
  /\ \A x \in alerts : x.key[2] # "pool_offline"
  => told

(* FR-033: no alert of an agent is sent twice within five minutes.         *)
Unrepeated == \A x \in alerts : Send(x) => x.key \notin sent
NoSpam == [][Unrepeated]_vars

(* FR-036: an agent that was marked offline holds no jobs.                 *)
OfflineHoldsNoJobs ==
  \A j \in Jobs : job[j].state = "held" /\ (\A w \in Workers : Free(w))
                    => agent[job[j].agent].status # "offline"

(* FR-023: members are notified of every job that failed.                  *)
JobFailuresTold == \A j \in Jobs : job[j].state = "failed" => j \in notified
=============================================================================
