------------------------------ MODULE JobQueue ------------------------------
(***************************************************************************)
(* The persistent job queue of one team: the jobs table, the server's view *)
(* of the agents (status, heartbeat, pending commands) and the agent       *)
(* processes that poll, execute and report over an unreliable network.     *)
(*                                                                         *)
(* Server handlers are atomic here: every action is one request handler or *)
(* one pass of a background task, with every commit it makes.  A handler   *)
(* that ends in get_pool_status also ends in the offline sweep.            *)
(*                                                                         *)
(* A target is a pair (collection, tool).  A job identifier is the order   *)
(* of creation (created_at).                                               *)
(***************************************************************************)
EXTENDS Naturals, FiniteSets

CONSTANTS
  Agents,             \* registered, verified agents of the team
  Targets,            \* (collection, tool) pairs
  Null,               \* SQL NULL
  Bound,              \* Bound[t]: the agent the collection of t is bound to, or Null
  Capable,            \* Capable[a]: targets whose capabilities and credentials a has
  Priority,           \* Priority[t]: job.priority of the jobs on t
  Refreshed,          \* targets whose collection state has a TTL > 0
  Inventory,          \* targets whose FileInfo comes from an inventory import
  OfflineTargets,     \* targets with a result produced offline by the agent CLI
  ManualRetry,        \* whether users retry failed jobs
  HeartbeatStatuses,  \* what a heartbeat may report: "ONLINE", "ERROR"
  MaxRetries,         \* jobs.max_retries
  MaxJobs,            \* bound: rows ever created
  MaxInFlight         \* bound: requests the network still holds

ASSUME ConstantsAssumption ==
  /\ Null \notin Agents
  /\ Bound \in [Targets -> Agents \cup {Null}]
  /\ Capable \in [Agents -> SUBSET Targets]
  /\ Priority \in [Targets -> Nat]
  /\ Refreshed \subseteq Targets
  /\ Inventory \subseteq Targets
  /\ OfflineTargets \subseteq Targets
  /\ ManualRetry \in BOOLEAN
  /\ HeartbeatStatuses \subseteq {"ONLINE", "ERROR"}
  /\ MaxRetries \in Nat
  /\ MaxJobs \in Nat
  /\ MaxInFlight \in Nat

VARIABLES
  jobs,        \* jobs[i]: row i of the jobs table
  status,      \* status[a]: agent_runtime.status
  lapsed,      \* agents not offline whose last_heartbeat is over 90 seconds old
  commands,    \* commands[a]: jobs with a "cancel_job:" command pending for a
  proc,        \* proc[a]: the agent process
  net,         \* reports sent by agents that the server has not handled
  succeeded,   \* targets with a COMPLETED or NO_CHANGE result
  metricsRow   \* whether the team has its storage_metrics row

vars == <<jobs, status, lapsed, commands, proc, net, succeeded, metricsRow>>
serverOnly == <<commands, proc, net>>

JobIds == 1 .. MaxJobs

(* A SCHEDULED row whose scheduled_for has passed is written "DUE".        *)
Scheduled == {"SCHEDULED", "DUE"}
Queued == {"PENDING"} \cup Scheduled
Held == {"ASSIGNED", "RUNNING"}
Terminal == {"COMPLETED", "FAILED", "CANCELLED"}
Open == Queued \cup Held
JobStatus == Open \cup Terminal

(* "none": not yet inserted; "deleted": removed from the table.            *)
Job == [status: JobStatus \cup {"none", "deleted"},
        target: Targets \cup {Null},
        bound: Agents \cup {Null},      \* bound_agent_id
        agent: Agents \cup {Null},      \* agent_id
        retries: Nat,                   \* retry_count
        offline: BOOLEAN]               \* progress holds the offline_result_id

NoRow == [status |-> "none", target |-> Null, bound |-> Null, agent |-> Null,
          retries |-> 0, offline |-> FALSE]

AgentStatus == {"ONLINE", "OFFLINE", "ERROR", "REVOKED"}

(* What the process does.  "noChange", "complete", "fail" and "lastFail"   *)
(* are the waits for the answer to the request of that name.               *)
Awaiting == {"noChange", "complete", "fail", "lastFail"}
Phase == {"down", "idle", "checking", "running"} \cup Awaiting
Proc == [phase: Phase, job: 0 .. MaxJobs, attempt: Nat, cancel: BOOLEAN]
Down == [phase |-> "down", job |-> 0, attempt |-> 0, cancel |-> FALSE]
Idle == [Down EXCEPT !.phase = "idle"]

Request == [kind: Awaiting, agent: Agents, job: JobIds, attempt: Nat]

TypeOK == /\ jobs \in [JobIds -> Job]
          /\ status \in [Agents -> AgentStatus]
          /\ lapsed \subseteq Agents
          /\ commands \in [Agents -> SUBSET JobIds]
          /\ proc \in [Agents -> Proc]
          /\ net \subseteq Request
          /\ succeeded \subseteq Targets
          /\ metricsRow \in BOOLEAN

(* Agents are registered OFFLINE; nothing has been run.                    *)
Init == /\ jobs = [i \in JobIds |-> NoRow]
        /\ status = [a \in Agents |-> "OFFLINE"]
        /\ lapsed = {}
        /\ commands = [a \in Agents |-> {}]
        /\ proc = [a \in Agents |-> Down]
        /\ net = {}
        /\ succeeded = {}
        /\ metricsRow = FALSE

-----------------------------------------------------------------------------
(* The jobs table.                                                         *)

(* The identifier the next inserted row gets (empty: the bound is used up) *)
Fresh(js) == {i \in JobIds : /\ js[i].status = "none"
                             /\ \A k \in JobIds : k < i => js[k].status # "none"}

NewJob(st, t, b) == [NoRow EXCEPT !.status = st, !.target = t, !.bound = b]

HasRow(js, t, Sts) == \E i \in JobIds : js[i].target = t /\ js[i].status \in Sts

(* Mutant: a release that does not count as an attempt.                    *)
ReleasedUncounted(row) == [row EXCEPT !.status = "PENDING", !.agent = Null, !.offline = FALSE]

(* Job.prepare_retry and Job.release, or Job.fail when the retries are     *)
(* used up (Job.fail keeps agent_id and progress).                         *)
Released(row) ==
  IF row.retries < MaxRetries
  THEN [row EXCEPT !.status = "PENDING", !.agent = Null,
                   !.retries = row.retries + 1, !.offline = FALSE]
  ELSE [row EXCEPT !.status = "FAILED"]

Delete(js, S) ==
  [i \in JobIds |-> IF i \in S THEN [NoRow EXCEPT !.status = "deleted", !.target = js[i].target]
                    ELSE js[i]]

(* Mutant: only jobs that report progress are released.                    *)
ReleaseRunningJobs(js, S) ==
  [i \in JobIds |-> IF js[i].status = "RUNNING" /\ js[i].agent \in S
                    THEN Released(js[i]) ELSE js[i]]

ReleaseAgentJobs(js, S) ==
  [i \in JobIds |-> IF js[i].status \in Held /\ js[i].agent \in S
                    THEN Released(js[i]) ELSE js[i]]

(* Mutant: a refresh that is due is left alone.                            *)
CancelUndueOnly(js, t) ==
  [i \in JobIds |-> IF js[i].status = "SCHEDULED" /\ js[i].target = t
                    THEN [js[i] EXCEPT !.status = "CANCELLED"] ELSE js[i]]

(* cancel_scheduled_jobs_for_collection                                    *)
CancelScheduled(js, t) ==
  [i \in JobIds |-> IF js[i].status \in Scheduled /\ js[i].target = t
                    THEN [js[i] EXCEPT !.status = "CANCELLED"] ELSE js[i]]

(* Mutant: the job that completes is taken for its own follow-up.          *)
CreateUnlessOpen(js, db, t) ==
  IF t \in Refreshed /\ ~HasRow(db, t, Open)
  THEN {[js EXCEPT ![i] = NewJob("SCHEDULED", t, Bound[t])] : i \in Fresh(js)}
  ELSE {js}

(* The tables _maybe_create_scheduled_job may leave: js is the session's   *)
(* view, db what its query reads (the session does not autoflush).         *)
MaybeCreateScheduled(js, db, t) ==
  IF t \in Refreshed /\ ~HasRow(db, t, Scheduled)
  THEN {[js EXCEPT ![i] = NewJob("SCHEDULED", t, Bound[t])] : i \in Fresh(js)}
  ELSE {js}

(* check_offline_agents                                                    *)
Silent(st, lp) == {a \in lp : st[a] = "ONLINE"}

CheckOffline(js, st, lp) ==
  /\ jobs' = ReleaseAgentJobs(js, Silent(st, lp))
  /\ status' = [a \in Agents |-> IF a \in Silent(st, lp) THEN "OFFLINE" ELSE st[a]]
  /\ lapsed' = lp \ Silent(st, lp)

-----------------------------------------------------------------------------
(* Requests of users and of the offline CLI.                               *)

(* run_tool: retention first, whatever happens next (a failure of it is    *)
(* ignored); then the conflict check; then the refresh that was scheduled  *)
(* gives way to the new job.                                               *)
RunTool(t) ==
  \E old \in SUBSET {i \in JobIds : jobs[i].status \in Terminal} :
    LET js == Delete(jobs, old)
    IN  /\ \/ /\ HasRow(js, t, Held \cup {"PENDING"})
              /\ jobs' = js
           \/ /\ ~HasRow(js, t, Held \cup {"PENDING"})
              /\ \E i \in Fresh(js) :
                   jobs' = [CancelScheduled(js, t) EXCEPT ![i] = NewJob("PENDING", t, Bound[t])]
        /\ metricsRow' \in {metricsRow, TRUE}
        /\ UNCHANGED <<status, lapsed, succeeded, serverOnly>>

CancelJob(i) ==
  /\ jobs[i].status \in Open
  /\ jobs' = [jobs EXCEPT ![i].status = "CANCELLED"]
  /\ commands' = IF jobs[i].status \in Held /\ jobs[i].agent # Null
                 THEN [commands EXCEPT ![jobs[i].agent] = @ \cup {i}]
                 ELSE commands
  /\ UNCHANGED <<status, lapsed, proc, net, succeeded, metricsRow>>

(* Mutant: the failed row itself is queued again.                          *)
RetryInPlace(i) ==
  /\ ManualRetry
  /\ jobs[i].status = "FAILED"
  /\ jobs' = [jobs EXCEPT ![i].status = "PENDING", ![i].agent = Null]
  /\ UNCHANGED <<status, lapsed, succeeded, metricsRow, serverOnly>>

RetryJob(i) ==
  /\ ManualRetry
  /\ jobs[i].status = "FAILED"
  /\ \E k \in Fresh(jobs) :
       jobs' = [jobs EXCEPT ![k] = [NewJob("PENDING", jobs[i].target, jobs[i].bound)
                                    EXCEPT !.retries = jobs[i].retries + 1]]
  /\ UNCHANGED <<status, lapsed, succeeded, metricsRow, serverOnly>>

(* The caller of the offline endpoints: online, and not locked out by the  *)
(* binding of the collection.                                              *)
MayUpload(a, t) == status[a] = "ONLINE" /\ Bound[t] \in {Null, a}

OfflineRows(t, Sts) ==
  {i \in JobIds : jobs[i].target = t /\ jobs[i].offline /\ jobs[i].status \in Sts}

(* Prepare a chunked upload: an ASSIGNED placeholder, not bound.           *)
PrepareUpload(a, t) ==
  /\ MayUpload(a, t)
  /\ OfflineRows(t, JobStatus) = {}
  /\ \E i \in Fresh(jobs) :
       jobs' = [jobs EXCEPT ![i] = [NewJob("ASSIGNED", t, Null)
                                    EXCEPT !.agent = a, !.offline = TRUE]]
  /\ UNCHANGED <<status, lapsed, succeeded, metricsRow, serverOnly>>

(* A COMPLETED job for a run the server did not order, then the next       *)
(* refresh in place of the scheduled one.                                  *)
RecordOffline(a, t, js, tag) ==
  /\ \E i \in Fresh(js) :
       LET done == [NewJob("COMPLETED", t, Null) EXCEPT !.agent = a, !.offline = tag]
           js2 == CancelScheduled([js EXCEPT ![i] = done], t)
       IN  jobs' \in MaybeCreateScheduled(js2, js2, t)
  /\ succeeded' = succeeded \cup {t}
  /\ UNCHANGED <<status, lapsed, metricsRow, serverOnly>>

UploadOffline(a, t) ==
  /\ MayUpload(a, t)
  /\ OfflineRows(t, {"COMPLETED"}) = {}
  /\ RecordOffline(a, t, Delete(jobs, OfflineRows(t, {"ASSIGNED"})), TRUE)

RecordNoChange(a, t) ==
  /\ MayUpload(a, t)
  /\ t \in succeeded
  /\ RecordOffline(a, t, jobs, FALSE)

-----------------------------------------------------------------------------
(* Claiming.                                                               *)

(* Mutant: a released job is not handed out again.                         *)
ClaimableOnce(i) == jobs[i].status \in {"PENDING", "DUE"} /\ jobs[i].retries = 0

Claimable(i) == jobs[i].status \in {"PENDING", "DUE"}

(* Jobs bound to the agent come first, without a capability check; then    *)
(* unbound jobs that the agent is capable of.                              *)
BoundJobs(a) == {i \in JobIds : Claimable(i) /\ jobs[i].bound = a}
(* Mutant: the binding is not looked at.                                   *)
CapableJobs(a) == {i \in JobIds : Claimable(i) /\ jobs[i].target \in Capable[a]}

UnboundJobs(a) == {i \in JobIds : /\ Claimable(i)
                                  /\ jobs[i].bound = Null
                                  /\ jobs[i].target \in Capable[a]}
Candidates(a) == IF BoundJobs(a) # {} THEN BoundJobs(a) ELSE UnboundJobs(a)

(* ORDER BY priority DESC, created_at ASC                                  *)
Before(i, k) == LET p == Priority[jobs[i].target]
                    q == Priority[jobs[k].target]
                IN  p > q \/ (p = q /\ i <= k)

NextJob(a) == {i \in Candidates(a) : \A k \in Candidates(a) : Before(i, k)}

(* The job can be answered from the inventory and an earlier result.       *)
ServerMayComplete(i) == jobs[i].target \in Inventory \cap succeeded

Assigned(i, a) == [jobs EXCEPT ![i].status = "ASSIGNED", ![i].agent = a]

Working(i) == [phase |-> "checking", job |-> i, attempt |-> jobs[i].retries,
               cancel |-> FALSE]

(* POST /jobs/claim, the path that hands a job out.  The sweep at its end  *)
(* releases the job again when the claiming agent is itself silent; the    *)
(* answer, if it arrives, still hands the job over.                        *)
ClaimJob(a, arrives) ==
  /\ status[a] = "ONLINE"
  /\ proc[a].phase \in IF arrives THEN {"idle"} ELSE {"idle", "down"}
  /\ \E i \in NextJob(a) :
       /\ CheckOffline(Assigned(i, a), status, lapsed)
       /\ proc' = IF arrives THEN [proc EXCEPT ![a] = Working(i)] ELSE proc
  /\ UNCHANGED <<commands, net, succeeded, metricsRow>>

(* POST /jobs/claim, one turn of its loop that ends in a server-side       *)
(* NO_CHANGE result: the row is still SCHEDULED in the database when the   *)
(* follow-up is considered, unless creating the storage_metrics row has    *)
(* flushed the session.                                                    *)
CompleteServerSide(a) ==
  /\ status[a] = "ONLINE"
  /\ proc[a].phase \in {"idle", "down"}
  /\ \E i \in NextJob(a) :
       /\ ServerMayComplete(i)
       /\ LET js == [jobs EXCEPT ![i].status = "COMPLETED"]
              db == IF metricsRow THEN jobs ELSE js
          IN  jobs' \in MaybeCreateScheduled(js, db, jobs[i].target)
  /\ metricsRow' = TRUE
  /\ UNCHANGED <<status, lapsed, succeeded, serverOnly>>

-----------------------------------------------------------------------------
(* Executing and reporting.                                                *)

(* Mutant: the state of the job is not looked at.                          *)
AcceptsSettled(r) == status[r.agent] = "ONLINE" /\ jobs[r.job].agent = r.agent

(* The job endpoints: the caller is online and the job is in its hands.    *)
Accepts(r) == /\ status[r.agent] = "ONLINE"
              /\ jobs[r.job].agent = r.agent
              /\ jobs[r.job].status \in Held

(* A progress report of the executing agent; refused ones change nothing.  *)
UpdateProgress(a) ==
  LET i == proc[a].job
  IN  /\ proc[a].phase \in {"checking", "running"}
      /\ status[a] = "ONLINE"
      /\ jobs[i].agent = a
      /\ jobs[i].status = "ASSIGNED"
      /\ jobs' = [jobs EXCEPT ![i].status = "RUNNING", ![i].offline = FALSE]
      /\ UNCHANGED <<status, lapsed, commands, proc, net, succeeded, metricsRow>>

(* Mutant: the current job is cleared before the report is sent.           *)
RequestAfterCleanup(a, kind) == [kind |-> kind, agent |-> a, job |-> 0,
                                 attempt |-> proc[a].attempt]

RequestOf(a, kind) == [kind |-> kind, agent |-> a, job |-> proc[a].job,
                       attempt |-> proc[a].attempt]

Send(a, kind) == /\ proc' = [proc EXCEPT ![a].phase = kind]
                 /\ net' = net \cup {RequestOf(a, kind)}

agentOnly == <<jobs, status, lapsed, commands, succeeded, metricsRow>>

(* JobExecutor.execute: NO_CHANGE first, if there is an earlier result ... *)
ReportNoChange(a) == /\ proc[a].phase = "checking"
                     /\ jobs[proc[a].job].target \in succeeded
                     /\ Send(a, "noChange")
                     /\ UNCHANGED agentOnly

(* ... or the tool ...                                                     *)
ExecuteTool(a) == /\ proc[a].phase = "checking"
                  /\ proc' = [proc EXCEPT ![a].phase = "running"]
                  /\ UNCHANGED <<net, agentOnly>>

(* ... which succeeds or fails (a cancelled tool fails).                   *)
ReportResult(a) == /\ proc[a].phase \in {"checking", "running"}
                   /\ \/ proc[a].phase = "running" /\ Send(a, "complete")
                      \/ proc[a].phase = "running" /\ Send(a, "fail")
                      \/ proc[a].phase = "checking" /\ Send(a, "lastFail")
                   /\ UNCHANGED agentOnly

(* A report that raises in the agent: a failed NO_CHANGE report falls back *)
(* to the tool; any other failure is reported once; then the job is left.  *)
OnError(a, pending) ==
  CASE proc[a].phase = "noChange" ->
         /\ proc' = [proc EXCEPT ![a].phase = "running"]
         /\ net' = pending
    [] proc[a].phase \in {"complete", "fail"} ->
         /\ proc' = [proc EXCEPT ![a].phase = "lastFail"]
         /\ net' = pending \cup {RequestOf(a, "lastFail")}
    [] proc[a].phase = "lastFail" ->
         /\ proc' = [proc EXCEPT ![a] = Idle]
         /\ net' = pending

(* The client gives up waiting; the request may still be handled later.    *)
TimeOut(a) == /\ proc[a].phase \in Awaiting
              /\ Cardinality(net) <= MaxInFlight
              /\ OnError(a, net)
              /\ UNCHANGED agentOnly

Awaited(r) == /\ proc[r.agent].phase = r.kind
              /\ proc[r.agent].job = r.job
              /\ proc[r.agent].attempt = r.attempt

Answered(r) == /\ net' = net \ {r}
               /\ proc' = IF Awaited(r) THEN [proc EXCEPT ![r.agent] = Idle] ELSE proc

(* complete_job and complete_job_no_change, then the sweep.                *)
CompleteJob(r) ==
  /\ r.kind \in {"complete", "noChange"}
  /\ Accepts(r)
  /\ LET t == jobs[r.job].target
         js == [jobs EXCEPT ![r.job].status = "COMPLETED", ![r.job].offline = FALSE]
     IN  /\ \E js2 \in MaybeCreateScheduled(js, jobs, t) : CheckOffline(js2, status, lapsed)
         /\ succeeded' = succeeded \cup {t}
  /\ metricsRow' = TRUE
  /\ Answered(r)
  /\ UNCHANGED <<commands>>

(* fail_job, then the sweep.                                               *)
FailJob(r) ==
  /\ r.kind \in {"fail", "lastFail"}
  /\ Accepts(r)
  /\ CheckOffline([jobs EXCEPT ![r.job].status = "FAILED", ![r.job].offline = FALSE],
                  status, lapsed)
  /\ metricsRow' = TRUE
  /\ Answered(r)
  /\ UNCHANGED <<commands, succeeded>>

(* A report is refused: not the holder, not online, not held any more, or  *)
(* a result or source result the server cannot resolve.                    *)
RefuseReport(r) ==
  /\ ~Accepts(r) \/ r.kind \in {"complete", "noChange"}
  /\ IF Awaited(r) THEN OnError(r.agent, net \ {r})
                   ELSE net' = net \ {r} /\ UNCHANGED proc
  /\ UNCHANGED agentOnly

LoseReport(r) == /\ net' = net \ {r}
                 /\ UNCHANGED <<proc, agentOnly>>

-----------------------------------------------------------------------------
(* Agents come and go.                                                     *)

Restart(a) == /\ proc[a].phase = "down"
              /\ proc' = [proc EXCEPT ![a] = Idle]
              /\ UNCHANGED <<net, agentOnly>>

(* The process dies: killed, too many failures in a row, a lost disconnect *)
(* request, or a 403 that tells it that it is revoked.                     *)
Crash(a) == /\ proc[a].phase # "down"
            /\ proc' = [proc EXCEPT ![a] = Down]
            /\ UNCHANGED <<net, agentOnly>>

(* Mutant: any cancel command stops whatever runs.                         *)
ApplyAnyCommand(a) == IF proc[a].job # 0 /\ commands[a] # {}
                      THEN [proc EXCEPT ![a].cancel = TRUE] ELSE proc

(* The executor's cancel flag is set by a command for the current job.     *)
ApplyCommands(a) == IF proc[a].job \in commands[a]
                    THEN [proc EXCEPT ![a].cancel = TRUE] ELSE proc

(* POST /heartbeat: status and last_heartbeat, the pending commands, the   *)
(* sweep.  When the answer is lost the commands it carried are lost too.   *)
Heartbeat(a, reported, arrives) ==
  /\ proc[a].phase # "down"
  /\ status[a] # "REVOKED"
  /\ commands' = [commands EXCEPT ![a] = {}]
  /\ CheckOffline(jobs, [status EXCEPT ![a] = reported], lapsed \ {a})
  /\ proc' = IF arrives THEN ApplyCommands(a) ELSE proc
  /\ UNCHANGED <<net, succeeded, metricsRow>>

(* Graceful shutdown: the process stops, POST /disconnect, the sweep.      *)
Disconnect(a) ==
  /\ proc[a].phase # "down"
  /\ status[a] # "REVOKED"
  /\ CheckOffline(ReleaseAgentJobs(jobs, {a}), [status EXCEPT ![a] = "OFFLINE"], lapsed \ {a})
  /\ proc' = [proc EXCEPT ![a] = Down]
  /\ UNCHANGED <<commands, net, succeeded, metricsRow>>

(* An administrator revokes the agent; the sweep follows.                  *)
Revoke(a) ==
  /\ status[a] # "REVOKED"
  /\ CheckOffline(ReleaseAgentJobs(jobs, {a}), [status EXCEPT ![a] = "REVOKED"], lapsed \ {a})
  /\ UNCHANGED <<succeeded, metricsRow, serverOnly>>

(* dead_agent_safety_net, the agent list and the pool status endpoints.    *)
Sweep == /\ Silent(status, lapsed) # {}
         /\ CheckOffline(jobs, status, lapsed)
         /\ UNCHANGED <<succeeded, metricsRow, serverOnly>>

(* Time passes: 90 seconds since the last heartbeat; scheduled_for.        *)
Lapse(a) == /\ a \notin lapsed
            /\ status[a] \in {"ONLINE", "ERROR"}
            /\ lapsed' = lapsed \cup {a}
            /\ UNCHANGED <<jobs, status, succeeded, metricsRow, serverOnly>>

BecomeDue(i) == /\ jobs[i].status = "SCHEDULED"
                /\ jobs' = [jobs EXCEPT ![i].status = "DUE"]
                /\ UNCHANGED <<status, lapsed, succeeded, metricsRow, serverOnly>>

-----------------------------------------------------------------------------
UserStep == \/ \E t \in Targets : RunTool(t)
            \/ \E i \in JobIds : CancelJob(i) \/ RetryJob(i)
            \/ \E a \in Agents, t \in OfflineTargets :
                 PrepareUpload(a, t) \/ UploadOffline(a, t) \/ RecordNoChange(a, t)

Claim(a) == ClaimJob(a, TRUE) \/ ClaimJob(a, FALSE) \/ CompleteServerSide(a)

Execute(a) == ReportNoChange(a) \/ ExecuteTool(a) \/ ReportResult(a)

HandleReport(r) == CompleteJob(r) \/ FailJob(r) \/ RefuseReport(r)

AnyHeartbeat(a) == \E s \in HeartbeatStatuses, arrives \in BOOLEAN : Heartbeat(a, s, arrives)

AgentStep == \E a \in Agents : \/ Claim(a) \/ UpdateProgress(a) \/ Execute(a) \/ TimeOut(a)
                               \/ Restart(a) \/ Crash(a)
                               \/ AnyHeartbeat(a) \/ Disconnect(a) \/ Revoke(a)

NetStep == \E r \in net : HandleReport(r) \/ LoseReport(r)

TimeStep == Sweep \/ (\E a \in Agents : Lapse(a)) \/ (\E i \in JobIds : BecomeDue(i))

Next == UserStep \/ AgentStep \/ NetStep \/ TimeStep

Spec == Init /\ [][Next]_vars
-----------------------------------------------------------------------------
(* Safety.                                                                 *)

(* A job in an agent's hands is in the hands of an agent the server counts *)
(* as alive: whatever takes an agent offline or revokes it releases its    *)
(* jobs in the same step (disconnect_agent, revoke_agent, the sweep at the *)
(* end of every handler), and only such an agent can claim.                *)
HolderIsOnline ==
  \A i \in JobIds : jobs[i].status \in Held =>
    jobs[i].agent \in Agents /\ status[jobs[i].agent] \in {"ONLINE", "ERROR"}

(* Runs of one tool on one collection never pile up: as long as nobody     *)
(* retries by hand or uploads offline results, at most one job per target  *)
(* is queued, scheduled or running, through every claim, release, sweep,   *)
(* refresh and cancellation (the ConflictError of run_tool, and refreshes  *)
(* that give way to it).                                                   *)
OneOpenJobPerTarget ==
  \A i, k \in JobIds :
    jobs[i].status \in Open /\ jobs[k].status \in Open
      /\ jobs[i].target = jobs[k].target => i = k

(* A job on a collection bound to an agent (a LOCAL collection, whose      *)
(* files only that agent can read) is never in the hands of another agent. *)
BoundJobsStayHome ==
  \A i \in JobIds : jobs[i].status \in Held /\ Bound[jobs[i].target] # Null =>
    jobs[i].agent = Bound[jobs[i].target]

(* The executor is told to abort only a job that the server has already    *)
(* cancelled ("the backend already set status to CANCELLED when it queued  *)
(* the cancel command"): a flag left over from an earlier job, or a        *)
(* command for another one, never stops a live job.                        *)
AbortOnlyCancelled ==
  \A a \in Agents : proc[a].cancel =>
    proc[a].job # 0 /\ jobs[proc[a].job].status \in {"CANCELLED", "deleted"}

(* The retry_count of a job never exceeds max_retries.                     *)
RetryCountWithinMax ==
  \A i \in JobIds : jobs[i].retries <= MaxRetries

(* A job fails only when its retries are used up.                          *)
FailedAfterMaxRetries ==
  \A i \in JobIds : jobs[i].status = "FAILED" => jobs[i].retries >= MaxRetries

(* Every completion of a job whose target is refreshed leaves the next     *)
(* refresh SCHEDULED: the chain of refreshes never ends with a success.    *)
Chained(js, js2) ==
  \A i \in JobIds :
    /\ js[i].status # "COMPLETED"
    /\ js2[i].status = "COMPLETED"
    /\ js2[i].target \in Refreshed
    => HasRow(js2, js2[i].target, Scheduled)
RefreshChainUnbroken == [][Chained(jobs, jobs')]_vars

(* The table implements the life of a job: see JobLifecycle.               *)
LifeOf(row) == CASE row.status \in Queued -> "queued"
                 [] row.status \in Held -> "held"
                 [] row.status = "COMPLETED" -> "completed"
                 [] row.status = "FAILED" -> "failed"
                 [] row.status = "CANCELLED" -> "cancelled"
                 [] row.status = "deleted" -> "gone"
                 [] OTHER -> "absent"

lifeState == [i \in JobIds |-> LifeOf(jobs[i])]
lifeHolder == [i \in JobIds |-> IF jobs[i].status \in Held THEN jobs[i].agent ELSE Null]

Life == INSTANCE JobLifecycle WITH Jobs <- JobIds, state <- lifeState, holder <- lifeHolder

(* Under late, lost and reordered reports, crashes, sweeps and             *)
(* cancellations, every row of the jobs table lives a life of JobLifecycle:*)
(* settled jobs stay settled, and a job changes hands through the queue.   *)
Lifecycle == Life!Spec
LifeStep == Life!Next \/ UNCHANGED <<lifeState, lifeHolder>>

-----------------------------------------------------------------------------
(* Liveness.                                                               *)

HeldBy(i, a) == jobs[i].status \in Held /\ jobs[i].agent = a

(* A dead process sends no heartbeat, so its last one grows old; the       *)
(* safety net keeps sweeping; a process that runs keeps sending            *)
(* heartbeats, polling, executing and reporting; the server handles a      *)
(* report or the client gives up waiting.                                  *)
Fairness ==
  /\ WF_vars(Sweep)
  /\ \A a \in Agents : /\ WF_vars(proc[a].phase = "down" /\ Lapse(a))
                        /\ WF_vars(AnyHeartbeat(a))
                        /\ WF_vars(Claim(a))
                        /\ WF_vars(Execute(a))
                        /\ WF_vars(TimeOut(a))
  /\ WF_vars(\E r \in net : HandleReport(r))

FairSpec == Spec /\ Fairness

(* A job held by an agent whose process is dead and stays dead is taken    *)
(* away from it (dead_agent_safety_net).                                   *)
DeadAgentJobsReleased ==
  \A a \in Agents, i \in JobIds :
    (HeldBy(i, a) /\ proc[a].phase = "down") ~> (~HeldBy(i, a) \/ proc[a].phase # "down")

(* No job goes back and forth between the queue and the agents for ever:   *)
(* every release uses up one of a finite number of retries.                *)
NoEndlessBouncing ==
  \A i \in JobIds : ~([]<>(jobs[i].status \in Queued) /\ []<>(jobs[i].status \in Held))

(* A pending job that a running, online agent may claim does not wait for  *)
(* ever.                                                                   *)
PendingJobsTaken ==
  \A a \in Agents, i \in JobIds :
    <>[](proc[a].phase # "down" /\ status[a] = "ONLINE")
      => ((jobs[i].status = "PENDING"
           /\ (jobs[i].bound = a \/ (jobs[i].bound = Null /\ jobs[i].target \in Capable[a])))
          ~> jobs[i].status # "PENDING")

(* A job held by an agent whose process died is taken away from it even    *)
(* when the process comes back before its silence is noticed.              *)
OrphansReassigned ==
  \A a \in Agents, i \in JobIds :
    <>[](proc[a].phase # "down")
      => ((HeldBy(i, a) /\ proc[a].phase = "down") ~> (~HeldBy(i, a) \/ proc[a].job = i))
=============================================================================
