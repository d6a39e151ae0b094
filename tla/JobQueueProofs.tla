--------------------------- MODULE JobQueueProofs ---------------------------
(* What JobQueue promises, for every value of its constants: that holders  *)
(* are alive, that each job lives the life of JobLifecycle, where jobs may *)
(* go and how many there are of a target, and that the chain of refreshes  *)
(* goes on.  Placement and the chain hold as long as nobody uploads        *)
(* offline results, or answers from inventories; the theorems name these   *)
(* conditions.                                                             *)
EXTENDS JobQueue, TLAPS

(* Every row that was ever inserted names its target.                      *)
Row == {row \in Job : row.status # "none" => row.target \in Targets}
Table == [JobIds -> Row]

(* A process that works on something knows on which job.                   *)
WorkersHaveJobs ==
  \A a \in Agents : proc[a].phase \notin {"down", "idle"} => proc[a].job \in JobIds

(* The part of the invariant that is not about the jobs table.             *)
OtherType ==
  /\ status \in [Agents -> AgentStatus]
  /\ lapsed \in SUBSET Agents
  /\ commands \in [Agents -> SUBSET JobIds]
  /\ proc \in [Agents -> Proc]
  /\ WorkersHaveJobs
  /\ net \in SUBSET Request
  /\ succeeded \in SUBSET Targets
  /\ metricsRow \in BOOLEAN

TypeInv == jobs \in Table /\ OtherType

-----------------------------------------------------------------------------
(* What the helpers on the jobs table return.                              *)

LEMMA JobIdsNat == JobIds \subseteq Nat /\ JobIds \subseteq 0 .. MaxJobs
  BY ConstantsAssumption DEF JobIds

LEMMA StatusType ==
  /\ JobStatus = {"PENDING", "SCHEDULED", "DUE", "ASSIGNED", "RUNNING",
                  "COMPLETED", "FAILED", "CANCELLED"}
  /\ Open \cup Terminal = JobStatus
  BY DEF JobStatus, Open, Queued, Held, Scheduled, Terminal

LEMMA NoRowType == NoRow \in Row
  BY DEF NoRow, Job, Row

LEMMA TableType ==
  ASSUME NEW js \in Table
  PROVE  /\ js \in [JobIds -> Job]
         /\ \A i \in JobIds : js[i] \in Row /\ js[i] \in Job
  BY DEF Table, Row

LEMMA PutType ==
  ASSUME NEW js \in Table, NEW i \in JobIds, NEW row \in Row
  PROVE  [js EXCEPT ![i] = row] \in Table
  BY DEF Table

LEMMA RowStatusType ==
  ASSUME NEW row \in Row, row.status # "none", NEW st \in JobStatus
  PROVE  [row EXCEPT !.status = st] \in Row
  BY DEF Row, Job

LEMMA NewJobType ==
  ASSUME NEW st \in JobStatus, NEW t \in Targets, NEW b \in Agents \cup {Null}
  PROVE  NewJob(st, t, b) \in Row
  BY DEF NewJob, NoRow, Job, Row

LEMMA ReleasedType ==
  ASSUME NEW row \in Row, row.status # "none"
  PROVE  Released(row) \in Row
  <1>1. {"PENDING", "FAILED"} \subseteq JobStatus
    BY StatusType
  <1>2. row.retries + 1 \in Nat
    BY DEF Job, Row
  <1>3. QED
    BY <1>1, <1>2 DEF Released, Job, Row

LEMMA ReleaseType ==
  ASSUME NEW js \in Table, NEW S
  PROVE  ReleaseAgentJobs(js, S) \in Table
  BY ReleasedType DEF ReleaseAgentJobs, Table, Held

LEMMA DeleteType ==
  ASSUME NEW js \in Table, NEW S \in SUBSET {i \in JobIds : js[i].status # "none"}
  PROVE  Delete(js, S) \in Table
  BY DEF Delete, Table, NoRow, Job, Row

LEMMA CancelScheduledType ==
  ASSUME NEW js \in Table, NEW t
  PROVE  CancelScheduled(js, t) \in Table
  BY RowStatusType, StatusType DEF CancelScheduled, Table, Scheduled

LEMMA MaybeCreateCases ==
  ASSUME NEW js \in Table, NEW db, NEW t, NEW js2 \in MaybeCreateScheduled(js, db, t)
  PROVE  \/ js2 = js
         \/ /\ t \in Refreshed /\ ~HasRow(db, t, Scheduled)
            /\ \E i \in JobIds :
                 /\ js[i].status = "none"
                 /\ js2 = [js EXCEPT ![i] = NewJob("SCHEDULED", t, Bound[t])]
  BY DEF MaybeCreateScheduled, Fresh

LEMMA MaybeCreateType ==
  ASSUME NEW js \in Table, NEW db, NEW t,
         NEW js2 \in MaybeCreateScheduled(js, db, t)
  PROVE  js2 \in Table
  <1>1. CASE t \in Refreshed
    <2>1. NewJob("SCHEDULED", t, Bound[t]) \in Row
      BY <1>1, NewJobType, ConstantsAssumption, StatusType
    <2>2. QED
      BY <2>1 DEF MaybeCreateScheduled, Fresh, Table
  <1>2. CASE t \notin Refreshed
    BY <1>2 DEF MaybeCreateScheduled
  <1>3. QED
    BY <1>1, <1>2

LEMMA AssignedType ==
  ASSUME jobs \in Table, NEW i \in JobIds, jobs[i].status # "none", NEW a \in Agents
  PROVE  Assigned(i, a) \in Table
  <1>1. [jobs[i] EXCEPT !.status = "ASSIGNED", !.agent = a] \in Row
    <2>1. [jobs[i] EXCEPT !.status = "ASSIGNED"] \in Row
      BY TableType, RowStatusType, StatusType
    <2>2. QED
      BY <2>1 DEF Row, Job
  <1>2. Assigned(i, a) = [jobs EXCEPT ![i] = [jobs[i] EXCEPT !.status = "ASSIGNED", !.agent = a]]
    BY TableType DEF Assigned
  <1>3. QED
    BY <1>1, <1>2, PutType

LEMMA SetStatusType ==
  ASSUME NEW js \in Table, NEW i \in JobIds, js[i].status # "none", NEW st \in JobStatus
  PROVE  [js EXCEPT ![i].status = st] \in Table
  <1>1. [js[i] EXCEPT !.status = st] \in Row
    BY TableType, RowStatusType
  <1>2. QED
    BY <1>1, PutType

LEMMA EndType ==
  ASSUME NEW js \in Table, NEW i \in JobIds, js[i].status # "none", NEW st \in JobStatus
  PROVE  [js EXCEPT ![i].status = st, ![i].offline = FALSE] \in Table
  <1>1. [js[i] EXCEPT !.status = st, !.offline = FALSE] \in Row
    <2>1. [js[i] EXCEPT !.status = st] \in Row
      BY TableType, RowStatusType
    <2>2. QED
      BY <2>1 DEF Row, Job
  <1>2. [js EXCEPT ![i].status = st, ![i].offline = FALSE]
          = [js EXCEPT ![i] = [js[i] EXCEPT !.status = st, !.offline = FALSE]]
    BY TableType
  <1>3. QED
    BY <1>1, <1>2, PutType

LEMMA CheckOfflineType ==
  ASSUME NEW js \in Table, NEW st \in [Agents -> AgentStatus], NEW lp \in SUBSET Agents,
         CheckOffline(js, st, lp)
  PROVE  /\ jobs' \in Table
         /\ status' \in [Agents -> AgentStatus]
         /\ lapsed' \in SUBSET Agents
  BY ReleaseType DEF CheckOffline, AgentStatus

-----------------------------------------------------------------------------
(* Type correctness.                                                       *)

LEMMA DownType == Down \in Proc /\ Down.phase = "down"
  BY ConstantsAssumption DEF Down, Proc, Phase

LEMMA IdleType == Idle \in Proc /\ Idle.phase = "idle"
  BY DownType DEF Idle, Proc, Phase

LEMMA TypeInit == Init => TypeInv
  <1> SUFFICES ASSUME Init PROVE TypeInv
    OBVIOUS
  <1>1. jobs \in Table
    BY NoRowType DEF Init, Table
  <1>2. OtherType
    BY DownType DEF Init, OtherType, WorkersHaveJobs, AgentStatus
  <1>3. QED
    BY <1>1, <1>2 DEF TypeInv

LEMMA UserStepType ==
  ASSUME jobs \in Table, OtherType, UserStep
  PROVE  jobs' \in Table /\ OtherType'
  <1> USE DEF serverOnly
  <1>1. ASSUME NEW t \in Targets, RunTool(t) PROVE jobs' \in Table /\ OtherType'
    <2>1. PICK old \in SUBSET {i \in JobIds : jobs[i].status \in Terminal} :
            LET js == Delete(jobs, old)
            IN  \/ jobs' = js
                \/ \E i \in Fresh(js) :
                     jobs' = [CancelScheduled(js, t) EXCEPT ![i] = NewJob("PENDING", t, Bound[t])]
      BY <1>1 DEF RunTool
    <2>2. NewJob("PENDING", t, Bound[t]) \in Row
      BY NewJobType, StatusType, ConstantsAssumption
    <2>3. Delete(jobs, old) \in Table
      BY DeleteType DEF Terminal
    <2>4. CancelScheduled(Delete(jobs, old), t) \in Table
      BY <2>3, CancelScheduledType
    <2>5. jobs' \in Table
      BY <2>1, <2>2, <2>3, <2>4, PutType DEF Fresh
    <2>6. OtherType'
      BY <1>1 DEF RunTool, OtherType, WorkersHaveJobs
    <2>7. QED
      BY <2>5, <2>6
  <1>2. ASSUME NEW i \in JobIds, CancelJob(i) PROVE jobs' \in Table /\ OtherType'
    <2>1. jobs' \in Table
      BY <1>2, SetStatusType, StatusType DEF CancelJob, Open, Queued, Held, Scheduled
    <2>2. commands' \in [Agents -> SUBSET JobIds]
      <3>1. jobs[i].agent \in Agents \cup {Null}
        BY TableType DEF Job
      <3>2. QED
        BY <1>2, <3>1 DEF CancelJob, OtherType
    <2>3. QED
      BY <1>2, <2>1, <2>2 DEF CancelJob, OtherType, WorkersHaveJobs
  <1>3. ASSUME NEW i \in JobIds, RetryJob(i) PROVE jobs' \in Table /\ OtherType'
    <2> DEFINE new == [NewJob("PENDING", jobs[i].target, jobs[i].bound)
                        EXCEPT !.retries = jobs[i].retries + 1]
    <2>1. PICK k \in Fresh(jobs) : jobs' = [jobs EXCEPT ![k] = new]
      BY <1>3 DEF RetryJob
    <2>2. jobs[i] \in Job /\ jobs[i].target \in Targets
      BY <1>3, TableType DEF RetryJob, Row
    <2>3. NewJob("PENDING", jobs[i].target, jobs[i].bound) \in Row
      BY <2>2, NewJobType, StatusType DEF Job
    <2>4. new \in Row
      BY <2>2, <2>3 DEF Row, Job
    <2>5. jobs' \in Table
      BY <2>1, <2>4, PutType DEF Fresh
    <2>6. QED
      BY <1>3, <2>5 DEF RetryJob, OtherType, WorkersHaveJobs
  <1>4. ASSUME NEW a \in Agents, NEW t \in OfflineTargets, PrepareUpload(a, t)
        PROVE  jobs' \in Table /\ OtherType'
    <2> DEFINE new == [NewJob("ASSIGNED", t, Null) EXCEPT !.agent = a, !.offline = TRUE]
    <2>1. PICK i \in Fresh(jobs) : jobs' = [jobs EXCEPT ![i] = new]
      BY <1>4 DEF PrepareUpload
    <2>2. NewJob("ASSIGNED", t, Null) \in Row
      BY NewJobType, StatusType, ConstantsAssumption
    <2>3. new \in Row
      BY <2>2 DEF Row, Job
    <2>4. jobs' \in Table
      BY <2>1, <2>3, PutType DEF Fresh
    <2>5. QED
      BY <1>4, <2>4 DEF PrepareUpload, OtherType, WorkersHaveJobs
  <1>5. ASSUME NEW a \in Agents, NEW t \in OfflineTargets, NEW js \in Table, NEW tag \in BOOLEAN,
               RecordOffline(a, t, js, tag)
        PROVE  jobs' \in Table /\ OtherType'
    <2> DEFINE done == [NewJob("COMPLETED", t, Null) EXCEPT !.agent = a, !.offline = tag]
               js2(i) == CancelScheduled([js EXCEPT ![i] = done], t)
    <2>1. PICK i \in Fresh(js) : jobs' \in MaybeCreateScheduled(js2(i), js2(i), t)
      BY <1>5 DEF RecordOffline
    <2>2. NewJob("COMPLETED", t, Null) \in Row
      BY NewJobType, StatusType, ConstantsAssumption
    <2>3. done \in Row
      BY <1>5, <2>2 DEF Row, Job
    <2>4. [js EXCEPT ![i] = done] \in Table
      BY <1>5, <2>3, PutType DEF Fresh
    <2>5. js2(i) \in Table
      BY <2>4, CancelScheduledType
    <2>6. jobs' \in Table
      BY <2>1, <2>5, MaybeCreateType
    <2>7. OtherType'
      BY <1>5, ConstantsAssumption DEF RecordOffline, OtherType, WorkersHaveJobs
    <2>8. QED
      BY <2>6, <2>7
  <1>6. ASSUME NEW a \in Agents, NEW t \in OfflineTargets, UploadOffline(a, t)
        PROVE  jobs' \in Table /\ OtherType'
    <2>1. Delete(jobs, OfflineRows(t, {"ASSIGNED"})) \in Table
      BY DeleteType DEF OfflineRows
    <2>2. QED
      BY <1>5, <1>6, <2>1 DEF UploadOffline
  <1>7. ASSUME NEW a \in Agents, NEW t \in OfflineTargets, RecordNoChange(a, t)
        PROVE  jobs' \in Table /\ OtherType'
    BY <1>5, <1>7 DEF RecordNoChange
  <1>8. QED
    BY <1>1, <1>2, <1>3, <1>4, <1>6, <1>7 DEF UserStep

LEMMA NextJobType ==
  ASSUME NEW a \in Agents, NEW i \in NextJob(a)
  PROVE  i \in JobIds /\ jobs[i].status \in {"PENDING", "DUE"}
  BY DEF NextJob, Candidates, BoundJobs, UnboundJobs, Claimable

LEMMA ClaimType ==
  ASSUME jobs \in Table, OtherType, NEW a \in Agents, Claim(a)
  PROVE  jobs' \in Table /\ OtherType'
  <1> USE DEF serverOnly
  <1>1. ASSUME NEW arrives \in BOOLEAN, ClaimJob(a, arrives) PROVE jobs' \in Table /\ OtherType'
    <2>1. PICK i \in NextJob(a) :
            /\ CheckOffline(Assigned(i, a), status, lapsed)
            /\ proc' = IF arrives THEN [proc EXCEPT ![a] = Working(i)] ELSE proc
      BY <1>1 DEF ClaimJob
    <2>2. Assigned(i, a) \in Table
      BY NextJobType, AssignedType
    <2>3. /\ jobs' \in Table
          /\ status' \in [Agents -> AgentStatus]
          /\ lapsed' \in SUBSET Agents
      BY <2>1, <2>2, CheckOfflineType DEF OtherType
    <2>4. Working(i) \in Proc /\ Working(i).job \in JobIds
      <3>1. i \in JobIds /\ i \in 0 .. MaxJobs /\ jobs[i].retries \in Nat
        BY NextJobType, TableType, JobIdsNat DEF Job
      <3>2. QED
        BY <3>1 DEF Working, Proc, Phase
    <2>5. proc' \in [Agents -> Proc] /\ WorkersHaveJobs'
      BY <2>1, <2>4 DEF OtherType, WorkersHaveJobs
    <2>6. QED
      BY <1>1, <2>3, <2>5 DEF ClaimJob, OtherType
  <1>2. CASE CompleteServerSide(a)
    <2> DEFINE js(i) == [jobs EXCEPT ![i].status = "COMPLETED"]
    <2>1. PICK i \in NextJob(a) :
            jobs' \in MaybeCreateScheduled(js(i), IF metricsRow THEN jobs ELSE js(i),
                                           jobs[i].target)
      BY <1>2 DEF CompleteServerSide
    <2>2. js(i) \in Table
      BY NextJobType, SetStatusType, StatusType
    <2>3. jobs' \in Table
      BY <2>1, <2>2, MaybeCreateType
    <2>4. QED
      BY <1>2, <2>3 DEF CompleteServerSide, OtherType, WorkersHaveJobs
  <1>3. QED
    BY <1>1, <1>2 DEF Claim

LEMMA OnErrorType ==
  ASSUME OtherType, NEW a \in Agents, NEW pending \in SUBSET Request,
         proc[a].phase \in Awaiting, OnError(a, pending)
  PROVE  /\ proc' \in [Agents -> Proc]
         /\ net' \in SUBSET Request
         /\ WorkersHaveJobs'
  <1>1. RequestOf(a, "lastFail") \in Request
    BY DEF RequestOf, Request, Awaiting, OtherType, WorkersHaveJobs, Proc
  <1>2. CASE proc[a].phase = "noChange"
    <2>1. proc' = [proc EXCEPT ![a].phase = "running"] /\ net' = pending
      BY <1>2 DEF OnError
    <2>2. proc' \in [Agents -> Proc]
      BY <2>1 DEF OtherType, Proc, Phase
    <2>3. WorkersHaveJobs'
      BY <1>2, <2>1 DEF OtherType, WorkersHaveJobs, Proc
    <2>4. QED
      BY <2>1, <2>2, <2>3
  <1>3. CASE proc[a].phase \in {"complete", "fail"}
    <2>1. /\ proc' = [proc EXCEPT ![a].phase = "lastFail"]
          /\ net' = pending \cup {RequestOf(a, "lastFail")}
      BY <1>3 DEF OnError
    <2>2. proc' \in [Agents -> Proc] /\ WorkersHaveJobs'
      BY <1>3, <2>1 DEF OtherType, Proc, Phase, Awaiting, WorkersHaveJobs
    <2>3. QED
      BY <1>1, <2>1, <2>2
  <1>4. CASE proc[a].phase = "lastFail"
    BY <1>4, IdleType DEF OnError, OtherType, WorkersHaveJobs
  <1>5. QED
    BY <1>2, <1>3, <1>4 DEF Awaiting

LEMMA ExecuteType ==
  ASSUME jobs \in Table, OtherType, NEW a \in Agents,
         UpdateProgress(a) \/ Execute(a) \/ TimeOut(a)
  PROVE  jobs' \in Table /\ OtherType'
  <1> USE DEF agentOnly
  <1>1. CASE UpdateProgress(a)
    <2>1. proc[a].job \in JobIds /\ jobs[proc[a].job].status = "ASSIGNED"
      BY <1>1 DEF UpdateProgress, OtherType, WorkersHaveJobs
    <2>2. jobs' = [jobs EXCEPT ![proc[a].job].status = "RUNNING", ![proc[a].job].offline = FALSE]
      BY <1>1 DEF UpdateProgress
    <2>3. jobs' \in Table
      BY <2>1, <2>2, EndType, StatusType
    <2>4. QED
      BY <1>1, <2>3 DEF UpdateProgress, OtherType, WorkersHaveJobs
  <1>2. ASSUME NEW kind \in Awaiting, proc[a].phase \in {"checking", "running"}, Send(a, kind),
               UNCHANGED agentOnly
        PROVE  jobs' \in Table /\ OtherType'
    <2>1. RequestOf(a, kind) \in Request
      BY <1>2 DEF RequestOf, Request, OtherType, WorkersHaveJobs, Proc
    <2>2. proc' \in [Agents -> Proc] /\ WorkersHaveJobs'
      BY <1>2 DEF Send, OtherType, Proc, Phase, WorkersHaveJobs
    <2>3. QED
      BY <1>2, <2>1, <2>2 DEF Send, OtherType
  <1>3. CASE ReportNoChange(a)
    BY <1>2, <1>3 DEF ReportNoChange, Awaiting
  <1>4. CASE ReportResult(a)
    BY <1>2, <1>4 DEF ReportResult, Awaiting
  <1>5. CASE ExecuteTool(a)
    <2>1. proc' \in [Agents -> Proc] /\ WorkersHaveJobs'
      BY <1>5 DEF ExecuteTool, OtherType, Proc, Phase, WorkersHaveJobs
    <2>2. QED
      BY <1>5, <2>1 DEF ExecuteTool, OtherType
  <1>6. CASE TimeOut(a)
    <2>1. /\ proc' \in [Agents -> Proc]
          /\ net' \in SUBSET Request
          /\ WorkersHaveJobs'
      BY <1>6, OnErrorType DEF TimeOut, OtherType
    <2>2. QED
      BY <1>6, <2>1 DEF TimeOut, OtherType
  <1>7. QED
    BY <1>1, <1>3, <1>4, <1>5, <1>6 DEF Execute

LEMMA AcceptsType ==
  ASSUME jobs \in Table, OtherType, NEW r \in net, Accepts(r)
  PROVE  /\ r.job \in JobIds /\ r.agent \in Agents
         /\ jobs[r.job].status \in Held
         /\ jobs[r.job].target \in Targets
  BY TableType DEF OtherType, Request, Accepts, Held, Row

LEMMA NetStepType ==
  ASSUME jobs \in Table, OtherType, NetStep
  PROVE  jobs' \in Table /\ OtherType'
  <1> USE DEF agentOnly
  <1>0. PICK r \in net : HandleReport(r) \/ LoseReport(r)
    BY DEF NetStep
  <1>1. r \in Request /\ r.agent \in Agents
    BY DEF OtherType, Request
  <1>2. ASSUME Answered(r)
        PROVE  proc' \in [Agents -> Proc] /\ WorkersHaveJobs' /\ net' \in SUBSET Request
    BY <1>1, <1>2, IdleType DEF Answered, OtherType, WorkersHaveJobs
  <1>3. CASE CompleteJob(r)
    <2> DEFINE t == jobs[r.job].target
               js == [jobs EXCEPT ![r.job].status = "COMPLETED", ![r.job].offline = FALSE]
    <2>1. PICK js2 \in MaybeCreateScheduled(js, jobs, t) : CheckOffline(js2, status, lapsed)
      BY <1>3 DEF CompleteJob
    <2>2. js \in Table
      BY <1>3, AcceptsType, EndType, StatusType DEF CompleteJob, Held
    <2>3. js2 \in Table
      BY <2>2, MaybeCreateType
    <2>4. jobs' \in Table /\ status' \in [Agents -> AgentStatus] /\ lapsed' \in SUBSET Agents
      BY <2>1, <2>3, CheckOfflineType DEF OtherType
    <2>5. succeeded' \in SUBSET Targets
      BY <1>3, AcceptsType DEF CompleteJob, OtherType
    <2>6. QED
      BY <1>2, <1>3, <2>4, <2>5 DEF CompleteJob, OtherType
  <1>4. CASE FailJob(r)
    <2>1. [jobs EXCEPT ![r.job].status = "FAILED", ![r.job].offline = FALSE] \in Table
      BY <1>4, AcceptsType, EndType, StatusType DEF FailJob, Held
    <2>2. jobs' \in Table /\ status' \in [Agents -> AgentStatus] /\ lapsed' \in SUBSET Agents
      BY <1>4, <2>1, CheckOfflineType DEF FailJob, OtherType
    <2>3. QED
      BY <1>2, <1>4, <2>2 DEF FailJob, OtherType
  <1>5. CASE RefuseReport(r)
    <2>1. net \ {r} \in SUBSET Request
      BY DEF OtherType
    <2>2. /\ proc' \in [Agents -> Proc]
          /\ net' \in SUBSET Request
          /\ WorkersHaveJobs'
      <3>1. CASE Awaited(r)
        <4>1. proc[r.agent].phase \in Awaiting
          BY <1>1, <3>1 DEF Awaited, Request
        <4>2. QED
          BY <1>1, <1>5, <2>1, <3>1, <4>1, OnErrorType DEF RefuseReport
      <3>2. CASE ~Awaited(r)
        BY <1>5, <2>1, <3>2 DEF RefuseReport, OtherType, WorkersHaveJobs
      <3>3. QED
        BY <3>1, <3>2
    <2>3. QED
      BY <1>5, <2>2 DEF RefuseReport, OtherType
  <1>6. CASE LoseReport(r)
    BY <1>6 DEF LoseReport, OtherType, WorkersHaveJobs
  <1>7. QED
    BY <1>0, <1>3, <1>4, <1>5, <1>6 DEF HandleReport

LEMMA PresenceType ==
  ASSUME jobs \in Table, OtherType, NEW a \in Agents,
         Restart(a) \/ Crash(a) \/ AnyHeartbeat(a) \/ Disconnect(a) \/ Revoke(a)
  PROVE  jobs' \in Table /\ OtherType'
  <1> USE DEF agentOnly, serverOnly
  <1>1. CASE Restart(a)
    BY <1>1, IdleType DEF Restart, OtherType, WorkersHaveJobs
  <1>2. CASE Crash(a)
    BY <1>2, DownType DEF Crash, OtherType, WorkersHaveJobs
  <1>3. ASSUME NEW s \in HeartbeatStatuses, NEW arrives \in BOOLEAN, Heartbeat(a, s, arrives)
        PROVE  jobs' \in Table /\ OtherType'
    <2>1. [status EXCEPT ![a] = s] \in [Agents -> AgentStatus] /\ lapsed \ {a} \in SUBSET Agents
      BY ConstantsAssumption DEF OtherType, AgentStatus
    <2>2. jobs' \in Table /\ status' \in [Agents -> AgentStatus] /\ lapsed' \in SUBSET Agents
      BY <1>3, <2>1, CheckOfflineType DEF Heartbeat
    <2>3. proc' \in [Agents -> Proc] /\ WorkersHaveJobs'
      BY <1>3 DEF Heartbeat, ApplyCommands, OtherType, WorkersHaveJobs, Proc
    <2>4. QED
      BY <1>3, <2>2, <2>3 DEF Heartbeat, OtherType
  <1>4. ASSUME NEW st \in AgentStatus,
               CheckOffline(ReleaseAgentJobs(jobs, {a}), [status EXCEPT ![a] = st], lapsed \ {a})
        PROVE  /\ jobs' \in Table
               /\ status' \in [Agents -> AgentStatus]
               /\ lapsed' \in SUBSET Agents
    <2>1. ReleaseAgentJobs(jobs, {a}) \in Table
      BY ReleaseType
    <2>2. [status EXCEPT ![a] = st] \in [Agents -> AgentStatus] /\ lapsed \ {a} \in SUBSET Agents
      BY <1>4 DEF OtherType
    <2>3. QED
      BY <1>4, <2>1, <2>2, CheckOfflineType
  <1>5. CASE Disconnect(a)
    <2>1. jobs' \in Table /\ status' \in [Agents -> AgentStatus] /\ lapsed' \in SUBSET Agents
      BY <1>4, <1>5 DEF Disconnect, AgentStatus
    <2>2. QED
      BY <1>5, <2>1, DownType DEF Disconnect, OtherType, WorkersHaveJobs
  <1>6. CASE Revoke(a)
    <2>1. jobs' \in Table /\ status' \in [Agents -> AgentStatus] /\ lapsed' \in SUBSET Agents
      BY <1>4, <1>6 DEF Revoke, AgentStatus
    <2>2. QED
      BY <1>6, <2>1 DEF Revoke, OtherType, WorkersHaveJobs
  <1>7. QED
    BY <1>1, <1>2, <1>3, <1>5, <1>6 DEF AnyHeartbeat

LEMMA TimeStepType ==
  ASSUME jobs \in Table, OtherType, TimeStep
  PROVE  jobs' \in Table /\ OtherType'
  <1> USE DEF serverOnly
  <1>1. CASE Sweep
    <2>1. jobs' \in Table /\ status' \in [Agents -> AgentStatus] /\ lapsed' \in SUBSET Agents
      BY <1>1, CheckOfflineType DEF Sweep, OtherType
    <2>2. QED
      BY <1>1, <2>1 DEF Sweep, OtherType, WorkersHaveJobs
  <1>2. ASSUME NEW a \in Agents, Lapse(a) PROVE jobs' \in Table /\ OtherType'
    BY <1>2 DEF Lapse, OtherType, WorkersHaveJobs
  <1>3. ASSUME NEW i \in JobIds, BecomeDue(i) PROVE jobs' \in Table /\ OtherType'
    <2>1. jobs' \in Table
      BY <1>3, SetStatusType, StatusType DEF BecomeDue
    <2>2. QED
      BY <1>3, <2>1 DEF BecomeDue, OtherType, WorkersHaveJobs
  <1>4. QED
    BY <1>1, <1>2, <1>3 DEF TimeStep

LEMMA TypeStep == TypeInv /\ [Next]_vars => TypeInv'
  <1> SUFFICES ASSUME jobs \in Table, OtherType, [Next]_vars PROVE jobs' \in Table /\ OtherType'
    BY DEF TypeInv
  <1>1. CASE UserStep
    BY <1>1, UserStepType
  <1>2. CASE AgentStep
    BY <1>2, ClaimType, ExecuteType, PresenceType DEF AgentStep
  <1>3. CASE NetStep
    BY <1>3, NetStepType
  <1>4. CASE TimeStep
    BY <1>4, TimeStepType
  <1>5. CASE UNCHANGED vars
    BY <1>5 DEF vars, OtherType, WorkersHaveJobs
  <1>6. QED
    BY <1>1, <1>2, <1>3, <1>4, <1>5 DEF Next

LEMMA TypeInvImpliesTypeOK == TypeInv => TypeOK
  BY TableType DEF TypeInv, OtherType, TypeOK

(* Every variable keeps its type for any number of agents, targets and     *)
(* jobs: no handler leaves a row, a command or a report it cannot read.    *)
THEOREM TypeCorrect == Spec => []TypeOK
  BY TypeInit, TypeStep, TypeInvImpliesTypeOK, PTL DEF Spec

-----------------------------------------------------------------------------
(* Whoever holds a job is alive in the eyes of the server.                 *)

AliveIn(st) == {a \in Agents : st[a] \in {"ONLINE", "ERROR"}}

(* Every job that js holds is in the hands of an agent alive in st.        *)
HeldByAlive(js, st) ==
  \A i \in JobIds : js[i].status \in Held => js[i].agent \in AliveIn(st)

(* js2 holds nothing that js does not hold for the same agent.             *)
HoldsNoMore(js2, js) ==
  \A i \in JobIds : js2[i].status \in Held =>
    js[i].status \in Held /\ js2[i].agent = js[i].agent

LEMMA HolderDef == HolderIsOnline <=> HeldByAlive(jobs, status)
  BY DEF HolderIsOnline, HeldByAlive, AliveIn

LEMMA HoldsNoMoreAlive ==
  ASSUME NEW js, NEW js2, NEW st, HoldsNoMore(js2, js), HeldByAlive(js, st)
  PROVE  HeldByAlive(js2, st)
  BY DEF HoldsNoMore, HeldByAlive

LEMMA HoldsNoMoreTransitive ==
  ASSUME NEW js, NEW js2, NEW js3, HoldsNoMore(js2, js), HoldsNoMore(js3, js2)
  PROVE  HoldsNoMore(js3, js)
  BY DEF HoldsNoMore

LEMMA ReleasedNotHeld == \A row \in Row : Released(row).status \notin Held
  BY DEF Released, Held, Row, Job

LEMMA ReleaseHolds ==
  ASSUME NEW js \in Table, NEW S
  PROVE  /\ HoldsNoMore(ReleaseAgentJobs(js, S), js)
         /\ \A i \in JobIds : ReleaseAgentJobs(js, S)[i].status \in Held => js[i].agent \notin S
  BY ReleasedNotHeld DEF HoldsNoMore, ReleaseAgentJobs, Table

LEMMA PutHolds ==
  ASSUME NEW js \in Table, NEW i \in JobIds, NEW row \in Row, row.status \notin Held
  PROVE  HoldsNoMore([js EXCEPT ![i] = row], js)
  BY DEF HoldsNoMore, Table

LEMMA DeleteHolds ==
  ASSUME NEW js \in Table, NEW S
  PROVE  HoldsNoMore(Delete(js, S), js)
  BY DEF HoldsNoMore, Delete, Held, NoRow, Table

LEMMA CancelScheduledHolds ==
  ASSUME NEW js \in Table, NEW t
  PROVE  HoldsNoMore(CancelScheduled(js, t), js)
  BY DEF HoldsNoMore, CancelScheduled, Held, Scheduled, Table, Row, Job

LEMMA MaybeCreateHolds ==
  ASSUME NEW js \in Table, NEW db, NEW t, NEW js2 \in MaybeCreateScheduled(js, db, t)
  PROVE  HoldsNoMore(js2, js)
  <1>1. CASE js2 = js
    BY <1>1 DEF HoldsNoMore
  <1>2. ASSUME NEW i \in JobIds, t \in Refreshed,
               js2 = [js EXCEPT ![i] = NewJob("SCHEDULED", t, Bound[t])]
        PROVE  HoldsNoMore(js2, js)
    <2>1. NewJob("SCHEDULED", t, Bound[t]) \in Row
      BY <1>2, NewJobType, ConstantsAssumption, StatusType
    <2>2. NewJob("SCHEDULED", t, Bound[t]).status \notin Held
      BY DEF NewJob, NoRow, Held
    <2>3. QED
      BY <1>2, <2>1, <2>2, PutHolds
  <1>3. QED
    BY <1>1, <1>2, MaybeCreateCases

(* The sweep keeps the promise: whom it takes offline holds nothing more.  *)
LEMMA CheckOfflineHolds ==
  ASSUME NEW js \in Table, NEW st \in [Agents -> AgentStatus], NEW lp,
         HeldByAlive(js, st), CheckOffline(js, st, lp)
  PROVE  HolderIsOnline'
  <1> SUFFICES ASSUME NEW i \in JobIds, jobs'[i].status \in Held
               PROVE  jobs'[i].agent \in Agents /\ status'[jobs'[i].agent] \in {"ONLINE", "ERROR"}
    BY DEF HolderIsOnline
  <1>1. jobs' = ReleaseAgentJobs(js, Silent(st, lp))
    BY DEF CheckOffline
  <1>2. /\ js[i].status \in Held
        /\ jobs'[i].agent = js[i].agent
        /\ js[i].agent \notin Silent(st, lp)
    BY <1>1, ReleaseHolds DEF HoldsNoMore
  <1>3. QED
    BY <1>2 DEF HeldByAlive, AliveIn, CheckOffline

LEMMA UserStepHolds ==
  ASSUME jobs \in Table, OtherType, HolderIsOnline, UserStep
  PROVE  HolderIsOnline'
  <1> USE DEF serverOnly
  <1>0. HeldByAlive(jobs, status)
    BY HolderDef
  <1>1. ASSUME HoldsNoMore(jobs', jobs), status' = status PROVE HolderIsOnline'
    BY <1>0, <1>1 DEF HoldsNoMore, HeldByAlive, AliveIn, HolderIsOnline
  <1>2. ASSUME NEW t \in Targets, RunTool(t) PROVE HolderIsOnline'
    <2>1. PICK old \in SUBSET {i \in JobIds : jobs[i].status \in Terminal} :
            \/ jobs' = Delete(jobs, old)
            \/ \E i \in Fresh(Delete(jobs, old)) :
                 jobs' = [CancelScheduled(Delete(jobs, old), t)
                           EXCEPT ![i] = NewJob("PENDING", t, Bound[t])]
      BY <1>2 DEF RunTool
    <2>2. NewJob("PENDING", t, Bound[t]) \in Row
      BY NewJobType, StatusType, ConstantsAssumption
    <2>3. NewJob("PENDING", t, Bound[t]).status \notin Held
      BY DEF NewJob, NoRow, Held
    <2>4. Delete(jobs, old) \in Table /\ CancelScheduled(Delete(jobs, old), t) \in Table
      BY DeleteType, CancelScheduledType DEF Terminal
    <2>5. /\ HoldsNoMore(Delete(jobs, old), jobs)
          /\ HoldsNoMore(CancelScheduled(Delete(jobs, old), t), Delete(jobs, old))
      BY <2>4, DeleteHolds, CancelScheduledHolds
    <2>6. CASE jobs' = Delete(jobs, old)
      BY <1>1, <1>2, <2>5, <2>6 DEF RunTool
    <2>7. ASSUME NEW i \in JobIds,
                 jobs' = [CancelScheduled(Delete(jobs, old), t)
                           EXCEPT ![i] = NewJob("PENDING", t, Bound[t])]
          PROVE  HoldsNoMore(jobs', jobs)
      <3>1. HoldsNoMore(jobs', CancelScheduled(Delete(jobs, old), t))
        BY <2>2, <2>3, <2>4, <2>7, PutHolds
      <3>2. QED
        BY <2>5, <3>1, HoldsNoMoreTransitive
    <2>8. QED
      BY <1>1, <1>2, <2>1, <2>6, <2>7 DEF RunTool, Fresh
  <1>3. ASSUME NEW i \in JobIds, CancelJob(i) PROVE HolderIsOnline'
    <2>1. HoldsNoMore(jobs', jobs)
      BY <1>3, TableType DEF CancelJob, HoldsNoMore, Held
    <2>2. QED
      BY <1>1, <1>3, <2>1 DEF CancelJob
  <1>4. ASSUME NEW i \in JobIds, RetryJob(i) PROVE HolderIsOnline'
    <2>1. HoldsNoMore(jobs', jobs)
      BY <1>4, TableType DEF RetryJob, HoldsNoMore, Held, NewJob, NoRow, Fresh
    <2>2. QED
      BY <1>1, <1>4, <2>1 DEF RetryJob
  <1>5. ASSUME NEW a \in Agents, NEW t \in OfflineTargets, PrepareUpload(a, t)
        PROVE  HolderIsOnline'
    <2>1. PICK k \in JobIds :
            jobs' = [jobs EXCEPT ![k] = [NewJob("ASSIGNED", t, Null)
                                         EXCEPT !.agent = a, !.offline = TRUE]]
      BY <1>5 DEF PrepareUpload, Fresh
    <2>2. jobs'[k].agent = a /\ status[a] = "ONLINE" /\ status' = status
      BY <1>5, <2>1, TableType DEF PrepareUpload, MayUpload, NewJob, NoRow
    <2>3. QED
      BY <1>0, <2>1, <2>2, TableType DEF HeldByAlive, AliveIn, HolderIsOnline
  <1>6. ASSUME NEW a \in Agents, NEW t \in OfflineTargets, NEW js \in Table, NEW tag \in BOOLEAN,
               HoldsNoMore(js, jobs), RecordOffline(a, t, js, tag)
        PROVE  HolderIsOnline'
    <2> DEFINE done == [NewJob("COMPLETED", t, Null) EXCEPT !.agent = a, !.offline = tag]
               js1(i) == [js EXCEPT ![i] = done]
               js2(i) == CancelScheduled(js1(i), t)
    <2>1. PICK i \in Fresh(js) : jobs' \in MaybeCreateScheduled(js2(i), js2(i), t)
      BY <1>6 DEF RecordOffline
    <2>2. done \in Row /\ done.status \notin Held
      <3>1. NewJob("COMPLETED", t, Null) \in Job
        BY NewJobType, StatusType, ConstantsAssumption DEF Row
      <3>2. done \in Job
        BY <1>6, <3>1 DEF Job
      <3>3. done.status = "COMPLETED" /\ done.target = t /\ t \in Targets
        BY ConstantsAssumption DEF NewJob, NoRow
      <3> HIDE DEF done
      <3>4. QED
        BY <3>2, <3>3 DEF Row, Held
    <2>3. js1(i) \in Table /\ js2(i) \in Table
      BY <2>2, <1>6, PutType, CancelScheduledType DEF Fresh
    <2>4. /\ HoldsNoMore(js1(i), js)
          /\ HoldsNoMore(js2(i), js1(i))
          /\ HoldsNoMore(jobs', js2(i))
      <3>1. HoldsNoMore(js1(i), js)
        BY <1>6, <2>2, PutHolds DEF Fresh
      <3>2. HoldsNoMore(js2(i), js1(i))
        BY <2>3, CancelScheduledHolds
      <3>3. HoldsNoMore(jobs', js2(i))
        BY <2>1, <2>3, MaybeCreateHolds
      <3>4. QED
        BY <3>1, <3>2, <3>3
    <2> HIDE DEF js1, js2
    <2>5. HoldsNoMore(jobs', jobs)
      BY <1>6, <2>4 DEF HoldsNoMore
    <2>6. QED
      BY <1>1, <1>6, <2>5 DEF RecordOffline
  <1>7. ASSUME NEW a \in Agents, NEW t \in OfflineTargets, UploadOffline(a, t)
        PROVE  HolderIsOnline'
    <2>1. /\ Delete(jobs, OfflineRows(t, {"ASSIGNED"})) \in Table
          /\ HoldsNoMore(Delete(jobs, OfflineRows(t, {"ASSIGNED"})), jobs)
      BY DeleteType, DeleteHolds DEF OfflineRows
    <2>2. QED
      BY <1>6, <1>7, <2>1 DEF UploadOffline
  <1>8. ASSUME NEW a \in Agents, NEW t \in OfflineTargets, RecordNoChange(a, t)
        PROVE  HolderIsOnline'
    BY <1>6, <1>8 DEF RecordNoChange, HoldsNoMore
  <1>9. QED
    BY <1>2, <1>3, <1>4, <1>5, <1>7, <1>8 DEF UserStep

LEMMA AgentStepHolds ==
  ASSUME jobs \in Table, OtherType, HolderIsOnline, AgentStep
  PROVE  HolderIsOnline'
  <1> USE DEF serverOnly, agentOnly
  <1>0. HeldByAlive(jobs, status) /\ status \in [Agents -> AgentStatus]
    BY HolderDef DEF OtherType
  <1>1. ASSUME jobs' = jobs, status' = status PROVE HolderIsOnline'
    BY <1>1 DEF HolderIsOnline
  <1>2. ASSUME NEW a \in Agents, NEW arrives, ClaimJob(a, arrives) PROVE HolderIsOnline'
    <2>1. PICK i \in NextJob(a) : CheckOffline(Assigned(i, a), status, lapsed)
      BY <1>2 DEF ClaimJob
    <2>2. Assigned(i, a) \in Table
      BY NextJobType, AssignedType
    <2>3. HeldByAlive(Assigned(i, a), status)
      BY <1>0, <1>2, NextJobType, TableType DEF ClaimJob, Assigned, HeldByAlive, AliveIn
    <2>4. QED
      BY <1>0, <2>1, <2>2, <2>3, CheckOfflineHolds
  <1>3. ASSUME NEW a \in Agents, CompleteServerSide(a) PROVE HolderIsOnline'
    <2> DEFINE js(i) == [jobs EXCEPT ![i].status = "COMPLETED"]
    <2>1. PICK i \in NextJob(a) :
            jobs' \in MaybeCreateScheduled(js(i), IF metricsRow THEN jobs ELSE js(i),
                                           jobs[i].target)
      BY <1>3 DEF CompleteServerSide
    <2>2. js(i) \in Table
      BY NextJobType, SetStatusType, StatusType
    <2>3. HoldsNoMore(js(i), jobs)
      BY NextJobType, TableType DEF HoldsNoMore, Held
    <2>4. HoldsNoMore(jobs', js(i))
      BY <2>1, <2>2, MaybeCreateHolds
    <2>5. HoldsNoMore(jobs', jobs)
      BY <2>3, <2>4, HoldsNoMoreTransitive
    <2>6. QED
      BY <1>0, <1>3, <2>5 DEF CompleteServerSide, HoldsNoMore, HeldByAlive, AliveIn, HolderIsOnline
  <1>4. ASSUME NEW a \in Agents, UpdateProgress(a) PROVE HolderIsOnline'
    <2>1. proc[a].job \in JobIds
      BY <1>4 DEF UpdateProgress, OtherType, WorkersHaveJobs
    <2>2. HoldsNoMore(jobs', jobs)
      BY <1>4, <2>1, TableType DEF UpdateProgress, HoldsNoMore, Held
    <2>3. QED
      BY <1>0, <1>4, <2>2 DEF UpdateProgress, HoldsNoMore, HeldByAlive, AliveIn, HolderIsOnline
  <1>5. ASSUME NEW a \in Agents, Execute(a) \/ TimeOut(a) \/ Restart(a) \/ Crash(a)
        PROVE  HolderIsOnline'
    BY <1>1, <1>5 DEF Execute, ReportNoChange, ExecuteTool, ReportResult, TimeOut, Restart, Crash
  <1>6. ASSUME NEW a \in Agents, AnyHeartbeat(a) PROVE HolderIsOnline'
    <2>1. PICK s \in HeartbeatStatuses :
            CheckOffline(jobs, [status EXCEPT ![a] = s], lapsed \ {a})
      BY <1>6 DEF AnyHeartbeat, Heartbeat
    <2>2. [status EXCEPT ![a] = s] \in [Agents -> AgentStatus] /\ s \in {"ONLINE", "ERROR"}
      BY <1>0, ConstantsAssumption DEF AgentStatus
    <2>3. HeldByAlive(jobs, [status EXCEPT ![a] = s])
      BY <1>0, <2>2 DEF HeldByAlive, AliveIn
    <2>4. QED
      BY <2>1, <2>2, <2>3, CheckOfflineHolds
  <1>7. ASSUME NEW a \in Agents, NEW st \in AgentStatus,
               CheckOffline(ReleaseAgentJobs(jobs, {a}), [status EXCEPT ![a] = st], lapsed \ {a})
        PROVE  HolderIsOnline'
    <2>1. ReleaseAgentJobs(jobs, {a}) \in Table
      BY ReleaseType
    <2>2. [status EXCEPT ![a] = st] \in [Agents -> AgentStatus]
      BY <1>0, <1>7
    <2>3. HeldByAlive(ReleaseAgentJobs(jobs, {a}), [status EXCEPT ![a] = st])
      BY <1>0, ReleaseHolds DEF HoldsNoMore, HeldByAlive, AliveIn
    <2>4. QED
      BY <1>7, <2>1, <2>2, <2>3, CheckOfflineHolds
  <1>8. ASSUME NEW a \in Agents, Disconnect(a) \/ Revoke(a) PROVE HolderIsOnline'
    BY <1>7, <1>8 DEF Disconnect, Revoke, AgentStatus
  <1>9. QED
    BY <1>2, <1>3, <1>4, <1>5, <1>6, <1>8 DEF AgentStep, Claim

LEMMA NetStepHolds ==
  ASSUME jobs \in Table, OtherType, HolderIsOnline, NetStep
  PROVE  HolderIsOnline'
  <1> USE DEF agentOnly
  <1>0. HeldByAlive(jobs, status) /\ status \in [Agents -> AgentStatus]
    BY HolderDef DEF OtherType
  <1>1. PICK r \in net : HandleReport(r) \/ LoseReport(r)
    BY DEF NetStep
  <1>2. ASSUME NEW st \in {"COMPLETED", "FAILED"}, Accepts(r)
        PROVE  LET js == [jobs EXCEPT ![r.job].status = st, ![r.job].offline = FALSE]
               IN  js \in Table /\ HeldByAlive(js, status)
    <2> DEFINE js == [jobs EXCEPT ![r.job].status = st, ![r.job].offline = FALSE]
    <2>1. js \in Table
      BY <1>2, AcceptsType, EndType, StatusType DEF Held
    <2>2. HoldsNoMore(js, jobs)
      BY <1>2, AcceptsType, TableType DEF HoldsNoMore, Held
    <2>3. QED
      BY <1>0, <2>1, <2>2, HoldsNoMoreAlive
  <1>3. CASE CompleteJob(r)
    <2> DEFINE js == [jobs EXCEPT ![r.job].status = "COMPLETED", ![r.job].offline = FALSE]
    <2>1. PICK js2 \in MaybeCreateScheduled(js, jobs, jobs[r.job].target) :
            CheckOffline(js2, status, lapsed)
      BY <1>3 DEF CompleteJob
    <2>2. js \in Table /\ HeldByAlive(js, status)
      BY <1>2, <1>3 DEF CompleteJob
    <2>3. js2 \in Table /\ HoldsNoMore(js2, js)
      BY <2>2, MaybeCreateType, MaybeCreateHolds
    <2>4. HeldByAlive(js2, status)
      BY <2>2, <2>3, HoldsNoMoreAlive
    <2>5. QED
      BY <1>0, <2>1, <2>3, <2>4, CheckOfflineHolds
  <1>4. CASE FailJob(r)
    BY <1>0, <1>2, <1>4, CheckOfflineHolds DEF FailJob
  <1>5. CASE RefuseReport(r) \/ LoseReport(r)
    BY <1>5 DEF RefuseReport, LoseReport, HolderIsOnline
  <1>6. QED
    BY <1>1, <1>3, <1>4, <1>5 DEF HandleReport

LEMMA TimeStepHolds ==
  ASSUME jobs \in Table, OtherType, HolderIsOnline, TimeStep
  PROVE  HolderIsOnline'
  <1>1. CASE Sweep
    BY <1>1, HolderDef, CheckOfflineHolds DEF Sweep, OtherType
  <1>2. ASSUME NEW a \in Agents, Lapse(a) PROVE HolderIsOnline'
    BY <1>2 DEF Lapse, HolderIsOnline
  <1>3. ASSUME NEW i \in JobIds, BecomeDue(i) PROVE HolderIsOnline'
    BY <1>3, TableType DEF BecomeDue, HolderIsOnline, Held
  <1>4. QED
    BY <1>1, <1>2, <1>3 DEF TimeStep

(* Through every interleaving of handlers, sweeps, late reports, crashes   *)
(* and revocations, a job in an agent's hands is in the hands of an agent  *)
(* the server counts as alive: for any number of agents, targets, jobs and *)
(* pending reports, with offline uploads and manual retries.               *)
THEOREM HolderAlwaysOnline == Spec => []HolderIsOnline
  <1>1. Init => HolderIsOnline
    BY DEF Init, HolderIsOnline, NoRow, Held
  <1>2. TypeInv /\ HolderIsOnline /\ [Next]_vars => HolderIsOnline'
    <2> SUFFICES ASSUME jobs \in Table, OtherType, HolderIsOnline, [Next]_vars
                 PROVE  HolderIsOnline'
      BY DEF TypeInv
    <2>1. CASE UNCHANGED vars
      BY <2>1 DEF vars, HolderIsOnline
    <2>2. QED
      BY <2>1, UserStepHolds, AgentStepHolds, NetStepHolds, TimeStepHolds DEF Next
  <1>3. QED
    BY <1>1, <1>2, TypeInit, TypeStep, PTL DEF Spec

-----------------------------------------------------------------------------
(***************************************************************************)
(* JobQueue implements JobLifecycle, and what follows from it.             *)
(***************************************************************************)

RowHolder(row) == IF row.status \in Held THEN row.agent ELSE Null

(* JobLifecycle!Move on the statuses of a row.                             *)
RowMove(row, new) ==
  \/ LifeOf(new) = LifeOf(row) /\ RowHolder(new) = RowHolder(row)
  \/ row.status = "none" /\ new.status \in Queued \cup {"COMPLETED"}
  \/ row.status \in Queued \cup {"none"} /\ new.status \in Held /\ new.agent \in Agents
  \/ row.status \in Held /\ new.status \in Queued
  \/ row.status \in Open /\ new.status \in Terminal
  \/ row.status \in Terminal \cup Held /\ new.status = "deleted"

Moves(js, js2) == \A i \in JobIds : RowMove(js[i], js2[i])

-----------------------------------------------------------------------------
LEMMA LifeOfRow ==
  ASSUME NEW row \in Row
  PROVE  /\ LifeOf(row) = "absent" <=> row.status = "none"
         /\ LifeOf(row) = "queued" <=> row.status \in Queued
         /\ LifeOf(row) = "held" <=> row.status \in Held
         /\ LifeOf(row) = "completed" <=> row.status = "COMPLETED"
         /\ LifeOf(row) = "failed" <=> row.status = "FAILED"
         /\ LifeOf(row) = "cancelled" <=> row.status = "CANCELLED"
         /\ LifeOf(row) = "gone" <=> row.status = "deleted"
         /\ LifeOf(row) \in Life!States
  BY DEF LifeOf, Queued, Held, Scheduled, Row, Job, JobStatus, Open, Terminal,
         Life!States, Life!Settled

LEMMA MovesStay == \A js : Moves(js, js)
  BY DEF Moves, RowMove

(* A table all of whose rows move is a step of the abstract specification. *)
LEMMA MovesAreSteps ==
  ASSUME jobs \in Table, jobs' \in Table, Moves(jobs, jobs')
  PROVE  Life!Next
  <1>1. lifeState' \in [JobIds -> Life!States]
    BY LifeOfRow, TableType DEF lifeState
  <1>2. lifeHolder' \in [JobIds -> Agents \cup {Null}]
    BY TableType DEF lifeHolder, Job
  <1>3. ASSUME NEW i \in JobIds PROVE Life!Move(i)
    <2> DEFINE r == jobs[i]
               n == jobs'[i]
    <2>1. /\ r \in Row /\ n \in Row /\ RowMove(r, n)
          /\ lifeState[i] = LifeOf(r) /\ lifeState'[i] = LifeOf(n)
          /\ lifeHolder[i] = RowHolder(r) /\ lifeHolder'[i] = RowHolder(n)
      BY <1>3, TableType DEF Moves, lifeState, lifeHolder, RowHolder
    <2>2. CASE LifeOf(n) = LifeOf(r) /\ RowHolder(n) = RowHolder(r)
      BY <2>1, <2>2 DEF Life!Move, Life!Stay
    <2>3. CASE r.status = "none" /\ n.status \in Queued \cup {"COMPLETED"}
      BY <2>1, <2>3, LifeOfRow DEF Life!Move, Life!Appear, RowHolder, Queued, Held, Scheduled
    <2>4. CASE r.status \in Queued \cup {"none"} /\ n.status \in Held /\ n.agent \in Agents
      BY <2>1, <2>4, LifeOfRow DEF Life!Move, Life!Appear, Life!Take, RowHolder
    <2>5. CASE r.status \in Held /\ n.status \in Queued
      BY <2>1, <2>5, LifeOfRow DEF Life!Move, Life!GiveBack, RowHolder, Queued, Held, Scheduled
    <2>6. CASE r.status \in Open /\ n.status \in Terminal
      BY <2>1, <2>6, LifeOfRow DEF Life!Move, Life!Settle, Life!Settled, RowHolder, Open, Held, Terminal
    <2>7. CASE r.status \in Terminal \cup Held /\ n.status = "deleted"
      BY <2>1, <2>7, LifeOfRow DEF Life!Move, Life!Remove, Life!Settled, RowHolder, Held, Terminal
    <2>8. QED
      BY <2>1, <2>2, <2>3, <2>4, <2>5, <2>6, <2>7 DEF RowMove
  <1>4. QED
    BY <1>1, <1>2, <1>3 DEF Life!Next

-----------------------------------------------------------------------------
(* The helpers on the table, applied after a move, still make a move.      *)

LEMMA ReleaseMoves ==
  ASSUME NEW js \in Table, NEW js2 \in Table, Moves(js, js2), NEW S,
         \A i \in JobIds : js[i].status = "none" => js2[i].status \notin Held
  PROVE  Moves(js, ReleaseAgentJobs(js2, S))
  <1> SUFFICES ASSUME NEW i \in JobIds PROVE RowMove(js[i], ReleaseAgentJobs(js2, S)[i])
    BY DEF Moves
  <1>1. CASE ~(js2[i].status \in Held /\ js2[i].agent \in S)
    BY <1>1 DEF ReleaseAgentJobs, Moves
  <1>2. CASE js2[i].status \in Held /\ js2[i].agent \in S
    <2>1. ReleaseAgentJobs(js2, S)[i] = Released(js2[i])
      BY <1>2 DEF ReleaseAgentJobs
    <2>2. js[i].status \in Queued \cup Held
      <3>1. js[i] \in Row /\ js2[i] \in Row /\ RowMove(js[i], js2[i])
        BY TableType DEF Moves
      <3>2. js[i].status # "none"
        BY <1>2
      <3>3. QED
        BY <1>2, <3>1, <3>2, LifeOfRow DEF RowMove, Queued, Held, Scheduled, Terminal
    <2>3. Released(js2[i]).status \in {"PENDING", "FAILED"}
      BY TableType DEF Released, Row, Job
    <2>4. RowHolder(Released(js2[i])) = Null
      BY <2>3 DEF RowHolder, Held
    <2>5. CASE Released(js2[i]).status = "FAILED"
      BY <2>1, <2>2, <2>5 DEF RowMove, Open, Terminal
    <2>6. CASE Released(js2[i]).status = "PENDING" /\ js[i].status \in Held
      BY <2>1, <2>6 DEF RowMove, Queued
    <2>7. CASE Released(js2[i]).status = "PENDING" /\ js[i].status \in Queued
      <3>1. LifeOf(Released(js2[i])) = LifeOf(js[i])
        BY <2>7 DEF LifeOf, Queued, Held, Scheduled
      <3>2. RowHolder(js[i]) = Null
        BY <2>7 DEF RowHolder, Queued, Held, Scheduled
      <3>3. QED
        BY <2>1, <2>4, <3>1, <3>2 DEF RowMove
    <2>8. QED
      BY <2>2, <2>3, <2>5, <2>6, <2>7
  <1>3. QED
    BY <1>1, <1>2

LEMMA PutMoves ==
  ASSUME NEW js \in Table, NEW js2 \in Table, Moves(js, js2), NEW i \in JobIds, NEW row \in Row,
         RowMove(js[i], row)
  PROVE  Moves(js, [js2 EXCEPT ![i] = row])
  BY DEF Moves, Table

(* A row is inserted after a move: it was absent before.                   *)
LEMMA InsertMoves ==
  ASSUME NEW js \in Table, NEW js2 \in Table, Moves(js, js2),
         NEW i \in JobIds, js2[i].status = "none",
         NEW row \in Row, row.status \in Queued \cup {"COMPLETED"}
  PROVE  Moves(js, [js2 EXCEPT ![i] = row])
  <1>1. js[i].status = "none"
    BY TableType, LifeOfRow DEF Moves, RowMove, Queued, Held, Scheduled, Terminal
  <1>2. QED
    BY <1>1, PutMoves DEF RowMove

LEMMA CancelScheduledMoves ==
  ASSUME NEW js \in Table, NEW js2 \in Table, Moves(js, js2), NEW t,
         \A i \in JobIds : js[i].status = "none" => js2[i].status \notin Scheduled
  PROVE  Moves(js, CancelScheduled(js2, t))
  <1> SUFFICES ASSUME NEW i \in JobIds PROVE RowMove(js[i], CancelScheduled(js2, t)[i])
    BY DEF Moves
  <1>1. CASE ~(js2[i].status \in Scheduled /\ js2[i].target = t)
    BY <1>1 DEF CancelScheduled, Moves
  <1>2. CASE js2[i].status \in Scheduled /\ js2[i].target = t
    <2>1. js[i] \in Row /\ js2[i] \in Row /\ RowMove(js[i], js2[i]) /\ js[i].status # "none"
      BY <1>2, TableType DEF Moves
    <2>2. js[i].status \in Open
      BY <1>2, <2>1, LifeOfRow DEF RowMove, Open, Queued, Held, Scheduled, Terminal
    <2>3. CancelScheduled(js2, t)[i].status = "CANCELLED"
      BY <1>2, TableType DEF CancelScheduled, Row, Job
    <2>4. QED
      BY <2>2, <2>3 DEF RowMove, Terminal
  <1>3. QED
    BY <1>1, <1>2

LEMMA MaybeCreateMoves ==
  ASSUME NEW js \in Table, NEW js2 \in Table, Moves(js, js2), NEW db, NEW t,
         NEW js3 \in MaybeCreateScheduled(js2, db, t)
  PROVE  Moves(js, js3)
  <1>1. CASE js3 = js2
    BY <1>1
  <1>2. ASSUME t \in Refreshed, NEW i \in JobIds, js2[i].status = "none",
               js3 = [js2 EXCEPT ![i] = NewJob("SCHEDULED", t, Bound[t])]
        PROVE  Moves(js, js3)
    <2>1. /\ NewJob("SCHEDULED", t, Bound[t]) \in Row
          /\ NewJob("SCHEDULED", t, Bound[t]).status \in Queued
      BY <1>2, NewJobType, ConstantsAssumption, StatusType DEF NewJob, NoRow, Queued, Scheduled
    <2>2. QED
      BY <1>2, <2>1, InsertMoves
  <1>3. QED
    BY <1>1, <1>2, MaybeCreateCases

LEMMA DeleteMoves ==
  ASSUME NEW js \in Table,
         NEW S \in SUBSET {i \in JobIds : js[i].status \in Terminal \cup Held}
  PROVE  Moves(js, Delete(js, S))
  <1> SUFFICES ASSUME NEW i \in JobIds PROVE RowMove(js[i], Delete(js, S)[i])
    BY DEF Moves
  <1>1. CASE i \in S
    BY <1>1 DEF Delete, RowMove, NoRow
  <1>2. CASE i \notin S
    BY <1>2 DEF Delete, RowMove
  <1>3. QED
    BY <1>1, <1>2

LEMMA EndMoves ==
  ASSUME NEW js \in Table, NEW i \in JobIds, js[i].status \in Open, NEW st \in Terminal
  PROVE  /\ Moves(js, [js EXCEPT ![i].status = st])
         /\ Moves(js, [js EXCEPT ![i].status = st, ![i].offline = FALSE])
  <1>1. /\ RowMove(js[i], [js EXCEPT ![i].status = st][i])
        /\ RowMove(js[i], [js EXCEPT ![i].status = st, ![i].offline = FALSE][i])
    BY TableType DEF RowMove, Row, Job
  <1>2. QED
    BY <1>1, TableType DEF Moves, RowMove

LEMMA CheckOfflineMoves ==
  ASSUME NEW js \in Table, NEW js2 \in Table, Moves(js, js2), NEW st, NEW lp,
         CheckOffline(js2, st, lp),
         \A i \in JobIds : js[i].status = "none" => js2[i].status \notin Held
  PROVE  Moves(js, jobs')
  BY ReleaseMoves DEF CheckOffline

-----------------------------------------------------------------------------
(* Every step of the system moves the rows.                                *)

LEMMA UserStepMoves ==
  ASSUME jobs \in Table, OtherType, UserStep
  PROVE  Moves(jobs, jobs')
  <1>1. ASSUME NEW t \in Targets, RunTool(t) PROVE Moves(jobs, jobs')
    <2>1. PICK old \in SUBSET {i \in JobIds : jobs[i].status \in Terminal} :
            \/ jobs' = Delete(jobs, old)
            \/ \E i \in Fresh(Delete(jobs, old)) :
                 jobs' = [CancelScheduled(Delete(jobs, old), t)
                           EXCEPT ![i] = NewJob("PENDING", t, Bound[t])]
      BY <1>1 DEF RunTool
    <2> DEFINE js1 == Delete(jobs, old)
               js2 == CancelScheduled(js1, t)
    <2>2. js1 \in Table /\ js2 \in Table
      BY DeleteType, CancelScheduledType DEF Terminal
    <2>3. Moves(jobs, js1)
      BY DeleteMoves
    <2>4. \A i \in JobIds : jobs[i].status = "none" => js1[i].status \notin Scheduled
      BY TableType DEF Delete, NoRow, Scheduled
    <2>5. Moves(jobs, js2)
      BY <2>2, <2>3, <2>4, CancelScheduledMoves
    <2>6. ASSUME NEW i \in Fresh(js1), jobs' = [js2 EXCEPT ![i] = NewJob("PENDING", t, Bound[t])]
          PROVE  Moves(jobs, jobs')
      <3>1. i \in JobIds /\ js2[i].status = "none"
        BY <2>6, <2>2, TableType DEF Fresh, CancelScheduled, Scheduled
      <3>2. /\ NewJob("PENDING", t, Bound[t]) \in Row
            /\ NewJob("PENDING", t, Bound[t]).status \in Queued
        BY NewJobType, ConstantsAssumption, StatusType DEF NewJob, NoRow, Queued
      <3>3. QED
        BY <2>2, <2>5, <2>6, <3>1, <3>2, InsertMoves
    <2>7. QED
      BY <2>1, <2>3, <2>6
  <1>2. ASSUME NEW i \in JobIds, CancelJob(i) PROVE Moves(jobs, jobs')
    BY <1>2, EndMoves DEF CancelJob, Terminal
  <1>3. ASSUME NEW i \in JobIds, RetryJob(i) PROVE Moves(jobs, jobs')
    <2> DEFINE new == [NewJob("PENDING", jobs[i].target, jobs[i].bound)
                        EXCEPT !.retries = jobs[i].retries + 1]
    <2>1. PICK k \in Fresh(jobs) : jobs' = [jobs EXCEPT ![k] = new]
      BY <1>3 DEF RetryJob
    <2>2. k \in JobIds /\ jobs[k].status = "none" /\ new.status = "PENDING"
      BY DEF Fresh, NewJob, NoRow
    <2>3. RowMove(jobs[k], new)
      BY <2>2 DEF RowMove, Queued
    <2>4. QED
      BY <2>1, <2>2, <2>3, TableType, MovesStay DEF Moves
  <1>4. ASSUME NEW a \in Agents, NEW t \in OfflineTargets, PrepareUpload(a, t)
        PROVE  Moves(jobs, jobs')
    <2> DEFINE new == [NewJob("ASSIGNED", t, Null) EXCEPT !.agent = a, !.offline = TRUE]
    <2>1. PICK k \in Fresh(jobs) : jobs' = [jobs EXCEPT ![k] = new]
      BY <1>4 DEF PrepareUpload
    <2>2. k \in JobIds /\ jobs[k].status = "none" /\ new.status = "ASSIGNED" /\ new.agent = a
      BY DEF Fresh, NewJob, NoRow
    <2>3. RowMove(jobs[k], new)
      BY <2>2 DEF RowMove, Held
    <2>4. QED
      BY <2>1, <2>2, <2>3, TableType, MovesStay DEF Moves
  <1>5. ASSUME NEW a \in Agents, NEW t \in OfflineTargets, NEW js \in Table, NEW tag \in BOOLEAN,
               Moves(jobs, js),
               \A i \in JobIds : jobs[i].status = "none" => js[i].status \notin Scheduled,
               RecordOffline(a, t, js, tag)
        PROVE  Moves(jobs, jobs')
    <2> DEFINE done == [NewJob("COMPLETED", t, Null) EXCEPT !.agent = a, !.offline = tag]
               js1(i) == [js EXCEPT ![i] = done]
               js2(i) == CancelScheduled(js1(i), t)
    <2>1. PICK i \in Fresh(js) : jobs' \in MaybeCreateScheduled(js2(i), js2(i), t)
      BY <1>5 DEF RecordOffline
    <2>2. done \in Row /\ done.status = "COMPLETED"
      <3>1. NewJob("COMPLETED", t, Null) \in Row
        BY NewJobType, StatusType, ConstantsAssumption
      <3>2. QED
        BY <1>5, <3>1 DEF Row, Job, NewJob, NoRow
    <2>3. js1(i) \in Table /\ js2(i) \in Table
      BY <2>2, <1>5, PutType, CancelScheduledType DEF Fresh
    <2>4. Moves(jobs, js1(i))
      BY <1>5, <2>2, InsertMoves DEF Fresh
    <2>5. \A k \in JobIds : jobs[k].status = "none" => js1(i)[k].status \notin Scheduled
      BY <1>5, <2>2, TableType DEF Scheduled
    <2>6. Moves(jobs, js2(i))
      BY <2>3, <2>4, <2>5, CancelScheduledMoves
    <2>7. QED
      BY <2>1, <2>3, <2>6, MaybeCreateMoves
  <1>6. ASSUME NEW a \in Agents, NEW t \in OfflineTargets, UploadOffline(a, t)
        PROVE  Moves(jobs, jobs')
    <2> DEFINE js == Delete(jobs, OfflineRows(t, {"ASSIGNED"}))
    <2>1. js \in Table /\ Moves(jobs, js)
      BY DeleteType, DeleteMoves DEF OfflineRows, Held
    <2>2. \A i \in JobIds : jobs[i].status = "none" => js[i].status \notin Scheduled
      BY TableType DEF Delete, NoRow, Scheduled
    <2>3. QED
      BY <1>5, <1>6, <2>1, <2>2 DEF UploadOffline
  <1>7. ASSUME NEW a \in Agents, NEW t \in OfflineTargets, RecordNoChange(a, t)
        PROVE  Moves(jobs, jobs')
    BY <1>5, <1>7, MovesStay DEF RecordNoChange, Scheduled
  <1>8. QED
    BY <1>1, <1>2, <1>3, <1>4, <1>6, <1>7 DEF UserStep

LEMMA AgentStepMoves ==
  ASSUME jobs \in Table, OtherType, AgentStep
  PROVE  Moves(jobs, jobs')
  <1>1. ASSUME jobs' = jobs PROVE Moves(jobs, jobs')
    BY <1>1, MovesStay
  <1>2. ASSUME NEW a \in Agents, NEW arrives, ClaimJob(a, arrives) PROVE Moves(jobs, jobs')
    <2>1. PICK i \in NextJob(a) : CheckOffline(Assigned(i, a), status, lapsed)
      BY <1>2 DEF ClaimJob
    <2>2. i \in JobIds /\ jobs[i].status \in Queued
      BY NextJobType DEF Queued, Scheduled
    <2>3. Assigned(i, a) \in Table
      BY NextJobType, AssignedType
    <2>4. RowMove(jobs[i], Assigned(i, a)[i])
      BY <2>2, TableType DEF RowMove, Assigned, Row, Job, Held
    <2>5. Moves(jobs, Assigned(i, a))
      BY <2>2, <2>4, TableType, MovesStay DEF Moves, Assigned
    <2>6. \A k \in JobIds : jobs[k].status = "none" => Assigned(i, a)[k].status \notin Held
      BY <2>2, TableType DEF Assigned, Queued, Scheduled, Held
    <2>7. QED
      BY <2>1, <2>3, <2>5, <2>6, CheckOfflineMoves
  <1>3. ASSUME NEW a \in Agents, CompleteServerSide(a) PROVE Moves(jobs, jobs')
    <2> DEFINE js(i) == [jobs EXCEPT ![i].status = "COMPLETED"]
    <2>1. PICK i \in NextJob(a) :
            jobs' \in MaybeCreateScheduled(js(i), IF metricsRow THEN jobs ELSE js(i),
                                           jobs[i].target)
      BY <1>3 DEF CompleteServerSide
    <2>2. i \in JobIds /\ jobs[i].status \in Open
      BY NextJobType DEF Open, Queued, Scheduled
    <2>3. js(i) \in Table
      BY NextJobType, SetStatusType, StatusType
    <2>4. Moves(jobs, js(i))
      BY <2>2, EndMoves DEF Terminal
    <2>5. QED
      BY <2>1, <2>3, <2>4, MaybeCreateMoves
  <1>4. ASSUME NEW a \in Agents, UpdateProgress(a) PROVE Moves(jobs, jobs')
    <2> DEFINE i == proc[a].job
    <2>1. i \in JobIds /\ jobs[i].status = "ASSIGNED"
      BY <1>4 DEF UpdateProgress, OtherType, WorkersHaveJobs
    <2>2. jobs'[i].status = "RUNNING" /\ jobs'[i].agent = jobs[i].agent
      BY <1>4, <2>1, TableType DEF UpdateProgress, Row, Job
    <2>3. RowMove(jobs[i], jobs'[i])
      BY <2>1, <2>2 DEF RowMove, LifeOf, RowHolder, Queued, Held, Scheduled
    <2>4. QED
      BY <1>4, <2>1, <2>3, TableType, MovesStay DEF Moves, UpdateProgress
  <1>5. ASSUME NEW a \in Agents, Execute(a) \/ TimeOut(a) \/ Restart(a) \/ Crash(a)
        PROVE  Moves(jobs, jobs')
    BY <1>1, <1>5 DEF Execute, ReportNoChange, ExecuteTool, ReportResult, TimeOut, Restart, Crash,
                      agentOnly
  <1>6. ASSUME NEW a \in Agents, AnyHeartbeat(a) PROVE Moves(jobs, jobs')
    BY <1>6, MovesStay, CheckOfflineMoves DEF AnyHeartbeat, Heartbeat, Held
  <1>7. ASSUME NEW a \in Agents, Disconnect(a) \/ Revoke(a) PROVE Moves(jobs, jobs')
    <2> DEFINE js == ReleaseAgentJobs(jobs, {a})
    <2>1. js \in Table /\ Moves(jobs, js)
      BY ReleaseType, ReleaseMoves, MovesStay DEF Held
    <2>2. \A i \in JobIds : jobs[i].status = "none" => js[i].status \notin Held
      BY ReleaseHolds DEF HoldsNoMore, Held
    <2>3. QED
      BY <1>7, <2>1, <2>2, CheckOfflineMoves DEF Disconnect, Revoke
  <1>8. QED
    BY <1>2, <1>3, <1>4, <1>5, <1>6, <1>7 DEF AgentStep, Claim

LEMMA NetStepMoves ==
  ASSUME jobs \in Table, OtherType, NetStep
  PROVE  Moves(jobs, jobs')
  <1>1. PICK r \in net : HandleReport(r) \/ LoseReport(r)
    BY DEF NetStep
  <1>2. ASSUME NEW st \in {"COMPLETED", "FAILED"}, Accepts(r)
        PROVE  LET js == [jobs EXCEPT ![r.job].status = st, ![r.job].offline = FALSE]
               IN  /\ js \in Table /\ Moves(jobs, js)
                   /\ \A i \in JobIds : jobs[i].status = "none" => js[i].status \notin Held
    <2> DEFINE js == [jobs EXCEPT ![r.job].status = st, ![r.job].offline = FALSE]
    <2>1. js \in Table
      BY <1>2, AcceptsType, EndType, StatusType DEF Held
    <2>2. Moves(jobs, js)
      BY <1>2, AcceptsType, EndMoves DEF Open, Terminal
    <2>3. \A i \in JobIds : jobs[i].status = "none" => js[i].status \notin Held
      BY <1>2, AcceptsType, TableType DEF Held
    <2>4. QED
      BY <2>1, <2>2, <2>3
  <1>3. CASE CompleteJob(r)
    <2> DEFINE js == [jobs EXCEPT ![r.job].status = "COMPLETED", ![r.job].offline = FALSE]
    <2>1. PICK js2 \in MaybeCreateScheduled(js, jobs, jobs[r.job].target) :
            CheckOffline(js2, status, lapsed)
      BY <1>3 DEF CompleteJob
    <2>2. /\ js \in Table /\ Moves(jobs, js)
          /\ \A i \in JobIds : jobs[i].status = "none" => js[i].status \notin Held
      BY <1>2, <1>3 DEF CompleteJob
    <2>3. js2 \in Table /\ Moves(jobs, js2)
      BY <2>2, MaybeCreateType, MaybeCreateMoves
    <2>4. \A i \in JobIds : jobs[i].status = "none" => js2[i].status \notin Held
      <3>1. HoldsNoMore(js2, js)
        BY <2>2, MaybeCreateHolds
      <3>2. QED
        BY <2>2, <3>1 DEF HoldsNoMore
    <2>5. QED
      BY <2>1, <2>3, <2>4, CheckOfflineMoves
  <1>4. CASE FailJob(r)
    BY <1>2, <1>4, CheckOfflineMoves DEF FailJob
  <1>5. CASE RefuseReport(r) \/ LoseReport(r)
    BY <1>5, MovesStay DEF RefuseReport, LoseReport, agentOnly
  <1>6. QED
    BY <1>1, <1>3, <1>4, <1>5 DEF HandleReport

LEMMA TimeStepMoves ==
  ASSUME jobs \in Table, OtherType, TimeStep
  PROVE  Moves(jobs, jobs')
  <1>1. CASE Sweep
    BY <1>1, MovesStay, CheckOfflineMoves DEF Sweep, Held
  <1>2. ASSUME NEW a \in Agents, Lapse(a) PROVE Moves(jobs, jobs')
    BY <1>2, MovesStay DEF Lapse
  <1>3. ASSUME NEW i \in JobIds, BecomeDue(i) PROVE Moves(jobs, jobs')
    <2>1. jobs[i].status = "SCHEDULED" /\ jobs'[i].status = "DUE"
      BY <1>3, TableType DEF BecomeDue, Row, Job
    <2>2. RowMove(jobs[i], jobs'[i])
      BY <2>1 DEF RowMove, LifeOf, RowHolder, Queued, Held, Scheduled
    <2>3. QED
      BY <1>3, <2>2, TableType, MovesStay DEF Moves, BecomeDue
  <1>4. QED
    BY <1>1, <1>2, <1>3 DEF TimeStep

LEMMA NextMoves ==
  ASSUME TypeInv, [Next]_vars
  PROVE  Moves(jobs, jobs')
  <1>1. CASE UNCHANGED vars
    BY <1>1, MovesStay DEF vars
  <1>2. QED
    BY <1>1, UserStepMoves, AgentStepMoves, NetStepMoves, TimeStepMoves DEF TypeInv, Next

-----------------------------------------------------------------------------
(* The job table implements the life of a job: whatever is late, lost,     *)
(* reordered, retried or revoked, a settled job stays settled, a removed   *)
(* one was settled or an upload placeholder, and a job changes hands only  *)
(* through the queue.  For every value of the constants.                   *)
THEOREM JobQueueImplementsLifecycle == Spec => Lifecycle
  <1>1. Init => Life!Init
    BY DEF Init, Life!Init, lifeState, lifeHolder, LifeOf, NoRow, Queued, Held, Scheduled
  <1>2. TypeInv /\ TypeInv' /\ [Next]_vars => [Life!Next]_(Life!vars)
    <2> SUFFICES ASSUME TypeInv, TypeInv', [Next]_vars PROVE Life!Next
      OBVIOUS
    <2>1. jobs \in Table /\ jobs' \in Table
      BY DEF TypeInv
    <2>2. QED
      BY <2>1, NextMoves, MovesAreSteps
  <1>3. QED
    BY <1>1, <1>2, TypeInit, TypeStep, PTL DEF Spec, Lifecycle, Life!Spec

-----------------------------------------------------------------------------
(* What is cancelled stays cancelled, so that a command may be late.       *)

Cancelled(i) == jobs[i].status \in {"CANCELLED", "deleted"}

CommandsCancelled == \A a \in Agents : \A i \in commands[a] : Cancelled(i)

LEMMA CancelledStays ==
  ASSUME TypeInv, TypeInv', [Next]_vars, NEW i \in JobIds, Cancelled(i)
  PROVE  Cancelled(i)'
  <1>1. jobs[i] \in Row /\ jobs'[i] \in Row /\ RowMove(jobs[i], jobs'[i])
    BY NextMoves, TableType DEF Moves, TypeInv
  <1>2. QED
    BY <1>1, LifeOfRow DEF Cancelled, RowMove, Queued, Held, Scheduled, Open, Terminal

(* A command is queued for a job that is cancelled in the same step.       *)
LEMMA CommandsStep ==
  ASSUME TypeInv, TypeInv', CommandsCancelled, [Next]_vars
  PROVE  CommandsCancelled'
  <1>0. OtherType /\ OtherType' /\ jobs \in Table
    BY DEF TypeInv
  <1>1. ASSUME \A a \in Agents : commands'[a] \subseteq commands[a] PROVE CommandsCancelled'
    BY <1>0, <1>1, CancelledStays DEF CommandsCancelled, OtherType
  <1>2. CASE UserStep
    <2>1. ASSUME NEW i \in JobIds, CancelJob(i) PROVE CommandsCancelled'
      <3>1. jobs'[i].status = "CANCELLED"
        BY <1>0, <2>1, TableType DEF CancelJob, Row, Job
      <3>2. \A a \in Agents : commands'[a] \subseteq commands[a] \cup {i}
        BY <1>0, <2>1 DEF CancelJob, OtherType
      <3>3. QED
        BY <1>0, <3>1, <3>2, CancelledStays DEF CommandsCancelled, Cancelled, OtherType
    <2>2. ASSUME UNCHANGED commands PROVE CommandsCancelled'
      BY <1>1, <2>2
    <2>3. QED
      BY <1>2, <2>1, <2>2 DEF UserStep, RunTool, RetryJob, PrepareUpload, UploadOffline,
                              RecordNoChange, RecordOffline, serverOnly
  <1>3. CASE AgentStep
    <2>1. ASSUME NEW a \in Agents, AnyHeartbeat(a) PROVE CommandsCancelled'
      BY <1>0, <1>1, <2>1 DEF AnyHeartbeat, Heartbeat, OtherType
    <2>2. ASSUME UNCHANGED commands PROVE CommandsCancelled'
      BY <1>1, <2>2
    <2>3. QED
      BY <1>3, <2>1, <2>2 DEF AgentStep, Claim, ClaimJob, CompleteServerSide, UpdateProgress,
           Execute, ReportNoChange, ExecuteTool, ReportResult, TimeOut, Restart, Crash,
           Disconnect, Revoke, agentOnly, serverOnly
  <1>4. CASE NetStep \/ TimeStep \/ UNCHANGED vars
    BY <1>1, <1>4 DEF NetStep, HandleReport, CompleteJob, FailJob, RefuseReport, LoseReport,
         TimeStep, Sweep, Lapse, BecomeDue, agentOnly, serverOnly, vars
  <1>5. QED
    BY <1>2, <1>3, <1>4 DEF Next

(* Only a command for the current job raises the executor's cancel flag.   *)
FlagFromCommand(b) ==
  proc'[b].cancel =>
    /\ proc'[b].job = proc[b].job
    /\ proc[b].cancel \/ proc[b].job \in commands[b]

LEMMA OnErrorFlag ==
  ASSUME OtherType, NEW a \in Agents, NEW pending,
         proc[a].phase \in Awaiting, OnError(a, pending), NEW b \in Agents
  PROVE  FlagFromCommand(b)
  <1>1. CASE proc[a].phase \in {"complete", "fail"}
    <2>1. proc' = [proc EXCEPT ![a].phase = "lastFail"]
      BY <1>1 DEF OnError
    <2>2. QED
      BY <2>1 DEF FlagFromCommand, OtherType, Proc
  <1>2. CASE proc[a].phase = "noChange"
    <2>1. proc' = [proc EXCEPT ![a].phase = "running"]
      BY <1>2 DEF OnError
    <2>2. QED
      BY <2>1 DEF FlagFromCommand, OtherType, Proc
  <1>3. CASE proc[a].phase = "lastFail"
    <2>1. proc' = [proc EXCEPT ![a] = Idle]
      BY <1>3 DEF OnError
    <2>2. QED
      BY <2>1 DEF FlagFromCommand, OtherType, Idle, Down
  <1>4. QED
    BY <1>1, <1>2, <1>3 DEF Awaiting

LEMMA FlagStep ==
  ASSUME TypeInv, [Next]_vars, NEW b \in Agents
  PROVE  FlagFromCommand(b)
  <1>0. OtherType
    BY DEF TypeInv
  <1>1. ASSUME UNCHANGED proc PROVE FlagFromCommand(b)
    BY <1>1 DEF FlagFromCommand
  <1>2. ASSUME NEW a \in Agents, NEW p, p.cancel = FALSE, proc' = [proc EXCEPT ![a] = p]
        PROVE  FlagFromCommand(b)
    BY <1>0, <1>2 DEF FlagFromCommand, OtherType
  <1>3. ASSUME NEW a \in Agents, NEW ph, proc' = [proc EXCEPT ![a].phase = ph]
        PROVE  FlagFromCommand(b)
    BY <1>0, <1>3 DEF FlagFromCommand, OtherType, Proc
  <1>4. Idle.cancel = FALSE /\ Down.cancel = FALSE
    BY DEF Idle, Down
  <1>5. CASE AgentStep
    <2> PICK a \in Agents :
          \/ Claim(a) \/ UpdateProgress(a) \/ Execute(a) \/ TimeOut(a)
          \/ Restart(a) \/ Crash(a) \/ AnyHeartbeat(a) \/ Disconnect(a) \/ Revoke(a)
      BY <1>5 DEF AgentStep
    <2>1. CASE Claim(a)
      BY <1>1, <1>2, <2>1 DEF Claim, ClaimJob, CompleteServerSide, Working, serverOnly
    <2>2. CASE UpdateProgress(a) \/ Revoke(a)
      BY <1>1, <2>2 DEF UpdateProgress, Revoke, serverOnly
    <2>3. CASE Execute(a)
      BY <1>3, <2>3 DEF Execute, ReportNoChange, ExecuteTool, ReportResult, Send
    <2>4. CASE TimeOut(a)
      BY <1>0, <2>4, OnErrorFlag DEF TimeOut
    <2>5. CASE Restart(a) \/ Crash(a) \/ Disconnect(a)
      BY <1>2, <1>4, <2>5 DEF Restart, Crash, Disconnect
    <2>6. CASE AnyHeartbeat(a)
      <3>1. proc' = proc \/ (proc[a].job \in commands[a] /\ proc' = [proc EXCEPT ![a].cancel = TRUE])
        BY <2>6 DEF AnyHeartbeat, Heartbeat, ApplyCommands
      <3>2. QED
        BY <1>0, <3>1 DEF FlagFromCommand, OtherType, Proc
    <2>7. QED
      BY <2>1, <2>2, <2>3, <2>4, <2>5, <2>6
  <1>6. CASE NetStep
    <2> PICK r \in net : HandleReport(r) \/ LoseReport(r)
      BY <1>6 DEF NetStep
    <2>1. r.agent \in Agents /\ r.kind \in Awaiting
      BY <1>0 DEF OtherType, Request
    <2>2. CASE CompleteJob(r) \/ FailJob(r)
      BY <1>1, <1>2, <1>4, <2>1, <2>2 DEF CompleteJob, FailJob, Answered
    <2>3. CASE RefuseReport(r)
      BY <1>0, <1>1, <2>1, <2>3, OnErrorFlag DEF RefuseReport, Awaited
    <2>4. CASE LoseReport(r)
      BY <1>1, <2>4 DEF LoseReport
    <2>5. QED
      BY <2>2, <2>3, <2>4 DEF HandleReport
  <1>7. CASE UserStep
    BY <1>1, <1>7 DEF UserStep, RunTool, CancelJob, RetryJob, PrepareUpload, UploadOffline,
                      RecordNoChange, RecordOffline, serverOnly
  <1>8. CASE TimeStep \/ UNCHANGED vars
    BY <1>1, <1>8 DEF TimeStep, Sweep, Lapse, BecomeDue, serverOnly, vars
  <1>9. QED
    BY <1>5, <1>6, <1>7, <1>8 DEF Next

(* The executor is told to abort only what the server has cancelled, even  *)
(* when heartbeats and their answers are late or lost, the job was         *)
(* released and claimed again, or the agent went on to another job: for    *)
(* every value of the constants.                                           *)
THEOREM AbortOnlyWhatIsCancelled == Spec => []AbortOnlyCancelled
  <1>1. Init => CommandsCancelled /\ AbortOnlyCancelled
    BY DEF Init, CommandsCancelled, AbortOnlyCancelled, Down
  <1>2. TypeInv /\ TypeInv' /\ CommandsCancelled /\ AbortOnlyCancelled /\ [Next]_vars
          => CommandsCancelled' /\ AbortOnlyCancelled'
    <2> SUFFICES ASSUME TypeInv, TypeInv', CommandsCancelled, AbortOnlyCancelled, [Next]_vars
                 PROVE  CommandsCancelled' /\ AbortOnlyCancelled'
      OBVIOUS
    <2>1. CommandsCancelled'
      BY CommandsStep
    <2>2. ASSUME NEW b \in Agents, proc'[b].cancel
          PROVE  proc'[b].job # 0 /\ jobs'[proc'[b].job].status \in {"CANCELLED", "deleted"}
      <3>1. /\ proc'[b].job = proc[b].job
            /\ proc[b].cancel \/ proc[b].job \in commands[b]
        BY <2>2, FlagStep DEF FlagFromCommand
      <3>2. proc[b].job \in 1 .. MaxJobs /\ Cancelled(proc[b].job)
        BY <2>2, <3>1, ConstantsAssumption
           DEF CommandsCancelled, Cancelled, AbortOnlyCancelled, TypeInv, OtherType, Proc, JobIds
      <3>3. QED
        BY <3>1, <3>2, CancelledStays, ConstantsAssumption DEF Cancelled, JobIds
    <2>3. QED
      BY <2>1, <2>2 DEF AbortOnlyCancelled
  <1>3. QED
    BY <1>1, <1>2, TypeInit, TypeStep, PTL DEF Spec

-----------------------------------------------------------------------------
(***************************************************************************)
(* Where jobs may go and how many of them there are: the binding of jobs   *)
(* to agents and the open jobs of a target. Both promises hold as long as  *)
(* nobody uploads offline results, the second as long as nobody retries    *)
(* failed jobs by hand.                                                    *)
(***************************************************************************)

(* The row carries the binding of its target and is held by the agent it   *)
(* is bound to.                                                            *)
AtHome(row) ==
  row.status \notin {"none", "deleted"} =>
    /\ row.bound = Bound[row.target]
    /\ row.status \in Held /\ row.bound # Null => row.agent = row.bound

AllAtHome(js) == \A i \in JobIds : AtHome(js[i])

-----------------------------------------------------------------------------
(* What the helpers on the table do to the binding.                        *)

LEMMA NewJobAtHome ==
  ASSUME NEW t, NEW st \in Queued
  PROVE  AtHome(NewJob(st, t, Bound[t]))
  BY DEF AtHome, NewJob, NoRow, Queued, Scheduled, Held

LEMMA PutAtHome ==
  ASSUME NEW js \in Table, AllAtHome(js), NEW i \in JobIds, NEW row, AtHome(row)
  PROVE  AllAtHome([js EXCEPT ![i] = row])
  BY DEF AllAtHome, Table

(* A row whose status changes stays at home unless it is being taken.      *)
LEMMA SetStatusAtHome ==
  ASSUME NEW row \in Row, AtHome(row), row.status \notin {"none", "deleted"},
         NEW st, st \notin Held \/ row.status \in Held
  PROVE  /\ AtHome([row EXCEPT !.status = st])
         /\ AtHome([row EXCEPT !.status = st, !.offline = FALSE])
  BY DEF AtHome, Row, Job

LEMMA ReleasedAtHome ==
  ASSUME NEW row \in Row, AtHome(row), row.status \in Held
  PROVE  AtHome(Released(row))
  BY DEF AtHome, Released, Held, Row, Job

LEMMA ReleaseAtHome ==
  ASSUME NEW js \in Table, AllAtHome(js), NEW S
  PROVE  AllAtHome(ReleaseAgentJobs(js, S))
  BY ReleasedAtHome, TableType DEF AllAtHome, ReleaseAgentJobs

LEMMA DeleteAtHome ==
  ASSUME NEW js \in Table, AllAtHome(js), NEW S
  PROVE  AllAtHome(Delete(js, S))
  BY DEF AllAtHome, AtHome, Delete, NoRow

LEMMA CancelScheduledAtHome ==
  ASSUME NEW js \in Table, AllAtHome(js), NEW t
  PROVE  AllAtHome(CancelScheduled(js, t))
  <1>1. ASSUME NEW i \in JobIds, js[i].status \in Scheduled
        PROVE  AtHome([js[i] EXCEPT !.status = "CANCELLED"])
    BY <1>1, SetStatusAtHome, TableType DEF AllAtHome, Scheduled, Held
  <1>2. QED
    BY <1>1 DEF AllAtHome, CancelScheduled

LEMMA MaybeCreateAtHome ==
  ASSUME NEW js \in Table, AllAtHome(js), NEW db, NEW t, NEW js2 \in MaybeCreateScheduled(js, db, t)
  PROVE  AllAtHome(js2)
  BY MaybeCreateCases, NewJobAtHome, PutAtHome DEF Queued, Scheduled

LEMMA CheckOfflineAtHome ==
  ASSUME NEW js \in Table, AllAtHome(js), NEW st, NEW lp, CheckOffline(js, st, lp)
  PROVE  AllAtHome(jobs')
  BY ReleaseAtHome DEF CheckOffline

-----------------------------------------------------------------------------
(* Every step keeps jobs at home.                                          *)

LEMMA UserStepAtHome ==
  ASSUME OfflineTargets = {}, jobs \in Table, AllAtHome(jobs), UserStep
  PROVE  AllAtHome(jobs')
  <1>1. ASSUME NEW t \in Targets, RunTool(t) PROVE AllAtHome(jobs')
    <2>1. PICK old \in SUBSET {i \in JobIds : jobs[i].status \in Terminal} :
            \/ jobs' = Delete(jobs, old)
            \/ \E i \in Fresh(Delete(jobs, old)) :
                 jobs' = [CancelScheduled(Delete(jobs, old), t)
                           EXCEPT ![i] = NewJob("PENDING", t, Bound[t])]
      BY <1>1 DEF RunTool
    <2>2. /\ Delete(jobs, old) \in Table /\ AllAtHome(Delete(jobs, old))
          /\ CancelScheduled(Delete(jobs, old), t) \in Table
          /\ AllAtHome(CancelScheduled(Delete(jobs, old), t))
      BY DeleteType, DeleteAtHome, CancelScheduledType, CancelScheduledAtHome DEF Terminal
    <2>3. AtHome(NewJob("PENDING", t, Bound[t]))
      BY NewJobAtHome DEF Queued
    <2>4. QED
      BY <2>1, <2>2, <2>3, PutAtHome DEF Fresh
  <1>2. ASSUME NEW i \in JobIds, CancelJob(i) PROVE AllAtHome(jobs')
    <2>1. jobs' = [jobs EXCEPT ![i] = [jobs[i] EXCEPT !.status = "CANCELLED"]]
      BY <1>2, TableType DEF CancelJob
    <2>2. AtHome([jobs[i] EXCEPT !.status = "CANCELLED"])
      BY <1>2, SetStatusAtHome, TableType DEF CancelJob, AllAtHome, Open, Queued, Scheduled, Held
    <2>3. QED
      BY <2>1, <2>2, PutAtHome
  <1>3. ASSUME NEW i \in JobIds, RetryJob(i) PROVE AllAtHome(jobs')
    <2> DEFINE row == [NewJob("PENDING", jobs[i].target, jobs[i].bound)
                        EXCEPT !.retries = jobs[i].retries + 1]
    <2>1. PICK k \in JobIds : jobs' = [jobs EXCEPT ![k] = row]
      BY <1>3 DEF RetryJob, Fresh
    <2>2. jobs[i].bound = Bound[jobs[i].target]
      BY <1>3 DEF RetryJob, AllAtHome, AtHome
    <2>3. AtHome(row)
      BY <2>2 DEF AtHome, NewJob, NoRow, Held
    <2>4. QED
      BY <2>1, <2>3, PutAtHome
  <1>4. QED
    BY <1>1, <1>2, <1>3 DEF UserStep

LEMMA AgentStepAtHome ==
  ASSUME jobs \in Table, OtherType, AllAtHome(jobs), AgentStep
  PROVE  AllAtHome(jobs')
  <1> USE DEF agentOnly
  <1>1. ASSUME NEW a \in Agents, NEW arrives, ClaimJob(a, arrives) PROVE AllAtHome(jobs')
    <2>1. PICK i \in NextJob(a) : CheckOffline(Assigned(i, a), status, lapsed)
      BY <1>1 DEF ClaimJob
    <2> DEFINE row == [jobs[i] EXCEPT !.status = "ASSIGNED", !.agent = a]
    <2>2. Assigned(i, a) \in Table /\ Assigned(i, a) = [jobs EXCEPT ![i] = row]
      BY NextJobType, AssignedType, TableType DEF Assigned
    <2>3. jobs[i].bound \in {a, Null} /\ i \in JobIds /\ jobs[i].status \in {"PENDING", "DUE"}
      BY NextJobType DEF NextJob, Candidates, BoundJobs, UnboundJobs
    <2>4. AtHome(row)
      BY <2>3, TableType DEF AllAtHome, AtHome, Job
    <2>5. AllAtHome([jobs EXCEPT ![i] = row])
      <3> HIDE DEF row
      <3>1. QED
        BY <2>3, <2>4, PutAtHome
    <2>6. AllAtHome(Assigned(i, a))
      BY <2>2, <2>5
    <2>7. QED
      BY <2>1, <2>2, <2>6, CheckOfflineAtHome
  <1>2. ASSUME NEW a \in Agents, CompleteServerSide(a) PROVE AllAtHome(jobs')
    <2> DEFINE js(i) == [jobs EXCEPT ![i].status = "COMPLETED"]
    <2>1. PICK i \in NextJob(a) :
            jobs' \in MaybeCreateScheduled(js(i), IF metricsRow THEN jobs ELSE js(i),
                                           jobs[i].target)
      BY <1>2 DEF CompleteServerSide
    <2>2. js(i) \in Table
      BY NextJobType, SetStatusType, StatusType
    <2>3. AtHome([jobs[i] EXCEPT !.status = "COMPLETED"])
      BY NextJobType, SetStatusAtHome, TableType DEF AllAtHome, Held
    <2>4. AllAtHome(js(i))
      BY <2>3, NextJobType, PutAtHome
    <2>5. QED
      BY <2>1, <2>2, <2>4, MaybeCreateAtHome
  <1>3. ASSUME NEW a \in Agents, UpdateProgress(a) PROVE AllAtHome(jobs')
    <2> DEFINE i == proc[a].job
    <2>1. i \in JobIds /\ jobs[i].status = "ASSIGNED"
      BY <1>3 DEF UpdateProgress, OtherType, WorkersHaveJobs
    <2>2. jobs' = [jobs EXCEPT ![i] = [jobs[i] EXCEPT !.status = "RUNNING", !.offline = FALSE]]
      BY <1>3, <2>1, TableType DEF UpdateProgress
    <2>3. AtHome([jobs[i] EXCEPT !.status = "RUNNING", !.offline = FALSE])
      BY <2>1, SetStatusAtHome, TableType DEF AllAtHome, Held
    <2>4. QED
      BY <2>1, <2>2, <2>3, PutAtHome
  <1>4. ASSUME NEW a \in Agents, Execute(a) \/ TimeOut(a) \/ Restart(a) \/ Crash(a)
        PROVE  AllAtHome(jobs')
    BY <1>4 DEF Execute, ReportNoChange, ExecuteTool, ReportResult, TimeOut, Restart, Crash
  <1>5. ASSUME NEW a \in Agents, AnyHeartbeat(a) PROVE AllAtHome(jobs')
    BY <1>5, CheckOfflineAtHome DEF AnyHeartbeat, Heartbeat
  <1>6. ASSUME NEW a \in Agents, Disconnect(a) \/ Revoke(a) PROVE AllAtHome(jobs')
    BY <1>6, ReleaseType, ReleaseAtHome, CheckOfflineAtHome DEF Disconnect, Revoke
  <1>7. QED
    BY <1>1, <1>2, <1>3, <1>4, <1>5, <1>6 DEF AgentStep, Claim

LEMMA NetStepAtHome ==
  ASSUME jobs \in Table, OtherType, AllAtHome(jobs), NetStep
  PROVE  AllAtHome(jobs')
  <1> USE DEF agentOnly
  <1>1. PICK r \in net : HandleReport(r) \/ LoseReport(r)
    BY DEF NetStep
  <1>2. ASSUME NEW st \in {"COMPLETED", "FAILED"}, Accepts(r)
        PROVE  LET js == [jobs EXCEPT ![r.job].status = st, ![r.job].offline = FALSE]
               IN  js \in Table /\ AllAtHome(js)
    <2> DEFINE i == r.job
               js == [jobs EXCEPT ![i].status = st, ![i].offline = FALSE]
    <2>1. i \in JobIds /\ jobs[i].status \in Held
      BY <1>2, AcceptsType
    <2>2. js \in Table
      BY <1>2, <2>1, EndType, StatusType DEF Held
    <2>3. AtHome([jobs[i] EXCEPT !.status = st, !.offline = FALSE])
      BY <1>2, <2>1, SetStatusAtHome, TableType DEF AllAtHome, Held
    <2>4. js = [jobs EXCEPT ![i] = [jobs[i] EXCEPT !.status = st, !.offline = FALSE]]
      BY <2>1, TableType
    <2>5. QED
      BY <2>1, <2>2, <2>3, <2>4, PutAtHome
  <1>3. CASE CompleteJob(r)
    <2> DEFINE js == [jobs EXCEPT ![r.job].status = "COMPLETED", ![r.job].offline = FALSE]
    <2>1. PICK js2 \in MaybeCreateScheduled(js, jobs, jobs[r.job].target) :
            CheckOffline(js2, status, lapsed)
      BY <1>3 DEF CompleteJob
    <2>2. js \in Table /\ AllAtHome(js)
      BY <1>2, <1>3 DEF CompleteJob
    <2>3. js2 \in Table /\ AllAtHome(js2)
      BY <2>2, MaybeCreateType, MaybeCreateAtHome
    <2>4. QED
      BY <2>1, <2>3, CheckOfflineAtHome
  <1>4. CASE FailJob(r)
    BY <1>2, <1>4, CheckOfflineAtHome DEF FailJob
  <1>5. CASE RefuseReport(r) \/ LoseReport(r)
    BY <1>5 DEF RefuseReport, LoseReport
  <1>6. QED
    BY <1>1, <1>3, <1>4, <1>5 DEF HandleReport

LEMMA TimeStepAtHome ==
  ASSUME jobs \in Table, AllAtHome(jobs), TimeStep
  PROVE  AllAtHome(jobs')
  <1>1. CASE Sweep
    BY <1>1, CheckOfflineAtHome DEF Sweep
  <1>2. ASSUME NEW a \in Agents, Lapse(a) PROVE AllAtHome(jobs')
    BY <1>2 DEF Lapse
  <1>3. ASSUME NEW i \in JobIds, BecomeDue(i) PROVE AllAtHome(jobs')
    <2>1. jobs' = [jobs EXCEPT ![i] = [jobs[i] EXCEPT !.status = "DUE"]]
      BY <1>3, TableType DEF BecomeDue
    <2>2. AtHome([jobs[i] EXCEPT !.status = "DUE"])
      BY <1>3, SetStatusAtHome, TableType DEF BecomeDue, AllAtHome, Held
    <2>3. QED
      BY <2>1, <2>2, PutAtHome
  <1>4. QED
    BY <1>1, <1>2, <1>3 DEF TimeStep

(* Without offline uploads the job of a bound (LOCAL) collection is never  *)
(* in the hands of another agent, through every claim, release, refresh    *)
(* and retry: the binding is copied into every row on every path that      *)
(* creates one, and a claim looks at it.                                   *)
THEOREM BoundJobsNeverLeave ==
  ASSUME OfflineTargets = {}
  PROVE  Spec => []BoundJobsStayHome
  <1>1. Init => AllAtHome(jobs)
    BY DEF Init, AllAtHome, AtHome, NoRow
  <1>2. TypeInv /\ AllAtHome(jobs) /\ [Next]_vars => AllAtHome(jobs)'
    <2> SUFFICES ASSUME jobs \in Table, OtherType, AllAtHome(jobs), [Next]_vars
                 PROVE  AllAtHome(jobs')
      BY DEF TypeInv
    <2>1. CASE UNCHANGED vars
      BY <2>1 DEF vars
    <2>2. QED
      BY <2>1, UserStepAtHome, AgentStepAtHome, NetStepAtHome, TimeStepAtHome DEF Next
  <1>3. AllAtHome(jobs) => BoundJobsStayHome
    BY DEF AllAtHome, AtHome, BoundJobsStayHome, Held
  <1>4. QED
    BY <1>1, <1>2, <1>3, TypeInit, TypeStep, PTL DEF Spec
-----------------------------------------------------------------------------
(* One open job per target.                                                *)

OneOpen(js) ==
  \A i, k \in JobIds :
    js[i].status \in Open /\ js[k].status \in Open /\ js[i].target = js[k].target => i = k

(* js2 has no open row that js does not have open on the same target.      *)
OpensNothing(js2, js) ==
  \A i \in JobIds : js2[i].status \in Open =>
    js[i].status \in Open /\ js2[i].target = js[i].target

(* No row of js other than i is open on t.                                 *)
Alone(js, i, t) == \A k \in JobIds : js[k].status \in Open /\ js[k].target = t => k = i

LEMMA OneOpenDef == OneOpenJobPerTarget <=> OneOpen(jobs)
  BY DEF OneOpenJobPerTarget, OneOpen

LEMMA OpensNothingKeeps ==
  ASSUME NEW js, NEW js2, OpensNothing(js2, js), OneOpen(js)
  PROVE  OneOpen(js2)
  BY DEF OpensNothing, OneOpen

LEMMA OpensNothingTransitive ==
  ASSUME NEW js, NEW js2, NEW js3, OpensNothing(js2, js), OpensNothing(js3, js2)
  PROVE  OpensNothing(js3, js)
  BY DEF OpensNothing

LEMMA InsertKeeps ==
  ASSUME NEW js \in Table, OneOpen(js), NEW i \in JobIds, NEW row \in Row,
         Alone(js, i, row.target)
  PROVE  OneOpen([js EXCEPT ![i] = row])
  BY DEF OneOpen, Alone, Table

LEMMA ReleaseOpens ==
  ASSUME NEW js \in Table, NEW S
  PROVE  OpensNothing(ReleaseAgentJobs(js, S), js)
  <1>1. ASSUME NEW i \in JobIds PROVE Released(js[i]).target = js[i].target
    BY TableType DEF Released, Job
  <1>2. QED
    BY <1>1 DEF OpensNothing, ReleaseAgentJobs, Open

LEMMA DeleteOpens ==
  ASSUME NEW js \in Table, NEW S
  PROVE  OpensNothing(Delete(js, S), js)
  BY DEF OpensNothing, Delete, NoRow, Open, Queued, Scheduled, Held

LEMMA CancelScheduledOpens ==
  ASSUME NEW js \in Table, NEW t
  PROVE  /\ OpensNothing(CancelScheduled(js, t), js)
         /\ \A i \in JobIds : CancelScheduled(js, t)[i].status \in Scheduled => js[i].target # t
  <1>1. ASSUME NEW i \in JobIds, js[i].status \in Scheduled, js[i].target = t
        PROVE  CancelScheduled(js, t)[i].status = "CANCELLED"
    BY <1>1, TableType DEF CancelScheduled, Job
  <1>2. ASSUME NEW i \in JobIds, ~(js[i].status \in Scheduled /\ js[i].target = t)
        PROVE  CancelScheduled(js, t)[i] = js[i]
    BY <1>2 DEF CancelScheduled
  <1>3. QED
    BY <1>1, <1>2 DEF OpensNothing, Open, Queued, Scheduled, Held

LEMMA SetStatusOpens ==
  ASSUME NEW js \in Table, NEW i \in JobIds, NEW st,
         st \notin Open \/ js[i].status \in Open
  PROVE  /\ OpensNothing([js EXCEPT ![i].status = st], js)
         /\ OpensNothing([js EXCEPT ![i].status = st, ![i].offline = FALSE], js)
  BY TableType DEF OpensNothing, Job

(* The follow-up of a target that has no open row.                         *)
LEMMA MaybeCreateKeeps ==
  ASSUME NEW js \in Table, OneOpen(js), NEW db, NEW t, NEW j, Alone(js, j, t),
         js[j].status \notin Open, NEW js2 \in MaybeCreateScheduled(js, db, t)
  PROVE  OneOpen(js2)
  <1>1. ASSUME NEW i \in JobIds, t \in Refreshed,
               js2 = [js EXCEPT ![i] = NewJob("SCHEDULED", t, Bound[t])]
        PROVE  OneOpen(js2)
    <2>1. NewJob("SCHEDULED", t, Bound[t]) \in Row
      BY <1>1, NewJobType, ConstantsAssumption, StatusType
    <2>2. NewJob("SCHEDULED", t, Bound[t]).target = t
      BY DEF NewJob, NoRow
    <2>3. Alone(js, i, t)
      BY DEF Alone
    <2>4. QED
      BY <1>1, <2>1, <2>2, <2>3, InsertKeeps
  <1>2. QED
    BY <1>1, MaybeCreateCases

LEMMA CheckOfflineKeeps ==
  ASSUME NEW js \in Table, OneOpen(js), NEW st, NEW lp, CheckOffline(js, st, lp)
  PROVE  OneOpen(jobs')
  BY ReleaseOpens, OpensNothingKeeps DEF CheckOffline

(* A job ends and its follow-up, if any, takes its place.                  *)
LEMMA SuccessionKeeps ==
  ASSUME NEW js \in Table, OneOpen(jobs), jobs \in Table, NEW i \in JobIds,
         jobs[i].status \in Open, OpensNothing(js, jobs), js[i].status \notin Open,
         NEW db, NEW js2 \in MaybeCreateScheduled(js, db, jobs[i].target)
  PROVE  OneOpen(js2)
  <1>1. OneOpen(js)
    BY OpensNothingKeeps
  <1>2. Alone(js, i, jobs[i].target)
    BY DEF Alone, OneOpen, OpensNothing
  <1>3. QED
    BY <1>1, <1>2, MaybeCreateKeeps

LEMMA UserStepKeeps ==
  ASSUME OfflineTargets = {}, ~ManualRetry, jobs \in Table, OneOpen(jobs), UserStep
  PROVE  OneOpen(jobs')
  <1>1. ASSUME NEW t \in Targets, RunTool(t) PROVE OneOpen(jobs')
    <2>1. PICK old \in SUBSET {i \in JobIds : jobs[i].status \in Terminal} :
            \/ jobs' = Delete(jobs, old)
            \/ /\ ~HasRow(Delete(jobs, old), t, Held \cup {"PENDING"})
               /\ \E i \in Fresh(Delete(jobs, old)) :
                    jobs' = [CancelScheduled(Delete(jobs, old), t)
                              EXCEPT ![i] = NewJob("PENDING", t, Bound[t])]
      BY <1>1 DEF RunTool
    <2> DEFINE js == Delete(jobs, old)
               cs == CancelScheduled(js, t)
    <2>2. js \in Table /\ cs \in Table
      BY DeleteType, CancelScheduledType DEF Terminal
    <2>3. OneOpen(js) /\ OneOpen(cs)
      BY <2>2, DeleteOpens, CancelScheduledOpens, OpensNothingKeeps
    <2>4. ASSUME NEW i \in JobIds, ~HasRow(js, t, Held \cup {"PENDING"})
          PROVE  Alone(cs, i, t)
      <3>1. ASSUME NEW k \in JobIds, cs[k].status \in Open, cs[k].target = t PROVE FALSE
        <4>1. js[k].status \in Open /\ js[k].target = t
          BY <2>2, <3>1, CancelScheduledOpens DEF OpensNothing
        <4>2. js[k].status \in Scheduled
          BY <2>4, <4>1 DEF HasRow, Open, Queued
        <4>3. cs[k].status = "CANCELLED"
          BY <2>2, <4>1, <4>2, TableType DEF CancelScheduled, Job
        <4>4. QED
          BY <3>1, <4>3 DEF Open, Queued, Scheduled, Held
      <3>2. QED
        BY <3>1 DEF Alone
    <2>5. /\ NewJob("PENDING", t, Bound[t]) \in Row
          /\ NewJob("PENDING", t, Bound[t]).target = t
      BY NewJobType, StatusType, ConstantsAssumption DEF NewJob, NoRow
    <2>6. ASSUME NEW i \in JobIds, ~HasRow(js, t, Held \cup {"PENDING"}),
                 jobs' = [cs EXCEPT ![i] = NewJob("PENDING", t, Bound[t])]
          PROVE  OneOpen(jobs')
      BY <2>2, <2>3, <2>4, <2>5, <2>6, InsertKeeps
    <2>7. QED
      BY <2>1, <2>3, <2>6 DEF Fresh
  <1>2. ASSUME NEW i \in JobIds, CancelJob(i) PROVE OneOpen(jobs')
    BY <1>2, SetStatusOpens, OpensNothingKeeps DEF CancelJob
  <1>3. ASSUME NEW i \in JobIds, RetryJob(i) PROVE OneOpen(jobs')
    BY <1>3 DEF RetryJob
  <1>4. QED
    BY <1>1, <1>2, <1>3 DEF UserStep

LEMMA AgentStepKeeps ==
  ASSUME jobs \in Table, OtherType, OneOpen(jobs), AgentStep
  PROVE  OneOpen(jobs')
  <1> USE DEF agentOnly
  <1>1. ASSUME NEW a \in Agents, NEW arrives, ClaimJob(a, arrives) PROVE OneOpen(jobs')
    <2>1. PICK i \in NextJob(a) : CheckOffline(Assigned(i, a), status, lapsed)
      BY <1>1 DEF ClaimJob
    <2>2. i \in JobIds /\ jobs[i].status \in Open /\ Assigned(i, a) \in Table
      BY NextJobType, AssignedType DEF Open, Queued, Scheduled
    <2>3. OpensNothing(Assigned(i, a), jobs)
      BY <2>2, TableType DEF Assigned, OpensNothing, Job
    <2>4. OneOpen(Assigned(i, a))
      BY <2>3, OpensNothingKeeps
    <2>5. QED
      BY <2>1, <2>2, <2>4, CheckOfflineKeeps
  <1>2. ASSUME NEW a \in Agents, CompleteServerSide(a) PROVE OneOpen(jobs')
    <2> DEFINE js(i) == [jobs EXCEPT ![i].status = "COMPLETED"]
    <2>1. PICK i \in NextJob(a) :
            jobs' \in MaybeCreateScheduled(js(i), IF metricsRow THEN jobs ELSE js(i),
                                           jobs[i].target)
      BY <1>2 DEF CompleteServerSide
    <2>2. i \in JobIds /\ jobs[i].status \in Open /\ js(i) \in Table
      BY NextJobType, SetStatusType, StatusType DEF Open, Queued, Scheduled
    <2>3. js(i)[i].status = "COMPLETED"
      BY <2>2, TableType DEF Job
    <2>4. OpensNothing(js(i), jobs) /\ js(i)[i].status \notin Open
      BY <2>2, <2>3, SetStatusOpens DEF Open, Queued, Scheduled, Held
    <2>5. QED
      BY <2>1, <2>2, <2>4, SuccessionKeeps
  <1>3. ASSUME NEW a \in Agents, UpdateProgress(a) PROVE OneOpen(jobs')
    <2>1. proc[a].job \in JobIds /\ jobs[proc[a].job].status \in Open
      BY <1>3 DEF UpdateProgress, OtherType, WorkersHaveJobs, Open, Held
    <2>2. QED
      BY <1>3, <2>1, SetStatusOpens, OpensNothingKeeps DEF UpdateProgress
  <1>4. ASSUME NEW a \in Agents, Execute(a) \/ TimeOut(a) \/ Restart(a) \/ Crash(a)
        PROVE  OneOpen(jobs')
    BY <1>4 DEF Execute, ReportNoChange, ExecuteTool, ReportResult, TimeOut, Restart, Crash
  <1>5. ASSUME NEW a \in Agents, AnyHeartbeat(a) PROVE OneOpen(jobs')
    BY <1>5, CheckOfflineKeeps DEF AnyHeartbeat, Heartbeat
  <1>6. ASSUME NEW a \in Agents, Disconnect(a) \/ Revoke(a) PROVE OneOpen(jobs')
    <2>1. ReleaseAgentJobs(jobs, {a}) \in Table /\ OneOpen(ReleaseAgentJobs(jobs, {a}))
      BY ReleaseType, ReleaseOpens, OpensNothingKeeps
    <2>2. QED
      BY <1>6, <2>1, CheckOfflineKeeps DEF Disconnect, Revoke
  <1>7. QED
    BY <1>1, <1>2, <1>3, <1>4, <1>5, <1>6 DEF AgentStep, Claim

LEMMA NetStepKeeps ==
  ASSUME jobs \in Table, OtherType, OneOpen(jobs), NetStep
  PROVE  OneOpen(jobs')
  <1> USE DEF agentOnly
  <1>1. PICK r \in net : HandleReport(r) \/ LoseReport(r)
    BY DEF NetStep
  <1>2. ASSUME NEW st \in {"COMPLETED", "FAILED"}, Accepts(r)
        PROVE  LET js == [jobs EXCEPT ![r.job].status = st, ![r.job].offline = FALSE]
               IN  /\ js \in Table /\ OpensNothing(js, jobs)
                   /\ r.job \in JobIds /\ jobs[r.job].status \in Open
                   /\ js[r.job].status \notin Open
    <2> DEFINE js == [jobs EXCEPT ![r.job].status = st, ![r.job].offline = FALSE]
    <2>1. r.job \in JobIds /\ jobs[r.job].status \in Open
      BY <1>2, AcceptsType DEF Open
    <2>2. js \in Table
      BY <1>2, AcceptsType, EndType, StatusType DEF Held
    <2>3. js[r.job].status = st
      BY <2>1, TableType DEF Job
    <2>4. st \notin Open
      BY DEF Open, Queued, Scheduled, Held
    <2>5. QED
      BY <2>1, <2>2, <2>3, <2>4, SetStatusOpens
  <1>3. CASE CompleteJob(r)
    <2> DEFINE js == [jobs EXCEPT ![r.job].status = "COMPLETED", ![r.job].offline = FALSE]
    <2>1. PICK js2 \in MaybeCreateScheduled(js, jobs, jobs[r.job].target) :
            CheckOffline(js2, status, lapsed)
      BY <1>3 DEF CompleteJob
    <2>2. /\ js \in Table /\ OpensNothing(js, jobs)
          /\ r.job \in JobIds /\ jobs[r.job].status \in Open
          /\ js[r.job].status \notin Open
      BY <1>2, <1>3 DEF CompleteJob
    <2>3. js2 \in Table /\ OneOpen(js2)
      BY <2>2, MaybeCreateType, SuccessionKeeps
    <2>4. QED
      BY <2>1, <2>3, CheckOfflineKeeps
  <1>4. CASE FailJob(r)
    <2>1. /\ [jobs EXCEPT ![r.job].status = "FAILED", ![r.job].offline = FALSE] \in Table
          /\ OneOpen([jobs EXCEPT ![r.job].status = "FAILED", ![r.job].offline = FALSE])
      BY <1>2, <1>4, OpensNothingKeeps DEF FailJob
    <2>2. QED
      BY <1>4, <2>1, CheckOfflineKeeps DEF FailJob
  <1>5. CASE RefuseReport(r) \/ LoseReport(r)
    BY <1>5 DEF RefuseReport, LoseReport
  <1>6. QED
    BY <1>1, <1>3, <1>4, <1>5 DEF HandleReport

LEMMA TimeStepKeeps ==
  ASSUME jobs \in Table, OneOpen(jobs), TimeStep
  PROVE  OneOpen(jobs')
  <1>1. CASE Sweep
    BY <1>1, CheckOfflineKeeps DEF Sweep
  <1>2. ASSUME NEW a \in Agents, Lapse(a) PROVE OneOpen(jobs')
    BY <1>2 DEF Lapse
  <1>3. ASSUME NEW i \in JobIds, BecomeDue(i) PROVE OneOpen(jobs')
    <2>1. jobs[i].status \in Open
      BY <1>3 DEF BecomeDue, Open, Queued, Scheduled
    <2>2. QED
      BY <1>3, <2>1, SetStatusOpens, OpensNothingKeeps DEF BecomeDue
  <1>4. QED
    BY <1>1, <1>2, <1>3 DEF TimeStep

(* Without offline uploads and manual retries the runs of one tool on one  *)
(* collection never pile up: a run request is refused or takes the place   *)
(* of the scheduled refresh, a completion is succeeded by at most one      *)
(* follow-up, and releases, sweeps and cancellations open nothing.         *)
THEOREM OpenJobsNeverPileUp ==
  ASSUME OfflineTargets = {}, ~ManualRetry
  PROVE  Spec => []OneOpenJobPerTarget
  <1>1. Init => OneOpenJobPerTarget
    BY DEF Init, OneOpenJobPerTarget, NoRow, Open, Queued, Scheduled, Held
  <1>2. TypeInv /\ OneOpenJobPerTarget /\ [Next]_vars => OneOpenJobPerTarget'
    <2> SUFFICES ASSUME jobs \in Table, OtherType, OneOpen(jobs), [Next]_vars
                 PROVE  OneOpen(jobs')
      BY OneOpenDef DEF TypeInv, OneOpenJobPerTarget, OneOpen
    <2>1. CASE UNCHANGED vars
      BY <2>1 DEF vars
    <2>2. QED
      BY <2>1, UserStepKeeps, AgentStepKeeps, NetStepKeeps, TimeStepKeeps DEF Next
  <1>3. QED
    BY <1>1, <1>2, TypeInit, TypeStep, PTL DEF Spec

-----------------------------------------------------------------------------
(***************************************************************************)
(* The chain of refreshes: what completes a job schedules the next one.    *)
(***************************************************************************)

(* js2 has no completed row that js does not have completed.               *)
CompletesNothing(js2, js) ==
  \A i \in JobIds : js2[i].status = "COMPLETED" => js[i].status = "COMPLETED"

(* js2 completes nothing but jobs of t.                                    *)
CompletesOnly(js2, js, t) ==
  \A i \in JobIds : js2[i].status = "COMPLETED" => js[i].status = "COMPLETED" \/ js2[i].target = t

LEMMA CompletesNothingChained ==
  ASSUME NEW js, NEW js2, CompletesNothing(js2, js)
  PROVE  Chained(js, js2)
  BY DEF CompletesNothing, Chained

LEMMA ReleaseCompletes ==
  ASSUME NEW js \in Table, NEW S
  PROVE  /\ CompletesNothing(ReleaseAgentJobs(js, S), js)
         /\ \A i \in JobIds : ReleaseAgentJobs(js, S)[i].target = js[i].target
         /\ \A i \in JobIds : js[i].status \in Scheduled => ReleaseAgentJobs(js, S)[i] = js[i]
  <1>1. ASSUME NEW i \in JobIds
        PROVE  Released(js[i]).target = js[i].target /\ Released(js[i]).status # "COMPLETED"
    BY TableType DEF Released, Job
  <1>2. QED
    BY <1>1 DEF CompletesNothing, ReleaseAgentJobs, Held, Scheduled

LEMMA DeleteCompletes ==
  ASSUME NEW js \in Table, NEW S
  PROVE  CompletesNothing(Delete(js, S), js)
  BY DEF CompletesNothing, Delete, NoRow

LEMMA CancelScheduledCompletes ==
  ASSUME NEW js \in Table, NEW t
  PROVE  /\ CompletesNothing(CancelScheduled(js, t), js)
         /\ \A i \in JobIds : CancelScheduled(js, t)[i].target = js[i].target
  <1>1. ASSUME NEW i \in JobIds
        PROVE  /\ [js[i] EXCEPT !.status = "CANCELLED"].status = "CANCELLED"
               /\ [js[i] EXCEPT !.status = "CANCELLED"].target = js[i].target
    BY TableType DEF Job
  <1>2. QED
    BY <1>1 DEF CompletesNothing, CancelScheduled

LEMMA PutCompletes ==
  ASSUME NEW js \in Table, NEW i \in JobIds, NEW row, row.status # "COMPLETED"
  PROVE  CompletesNothing([js EXCEPT ![i] = row], js)
  BY DEF CompletesNothing, Table

LEMMA SetStatusCompletes ==
  ASSUME NEW js \in Table, NEW i \in JobIds, NEW st, st # "COMPLETED"
  PROVE  /\ CompletesNothing([js EXCEPT ![i].status = st], js)
         /\ CompletesNothing([js EXCEPT ![i].status = st, ![i].offline = FALSE], js)
  BY TableType DEF CompletesNothing, Job

-----------------------------------------------------------------------------
(* The follow-up is there after MaybeCreateScheduled, provided that its    *)
(* query saw no scheduled row that the session has taken away.             *)
LEMMA FollowUp ==
  ASSUME NEW js \in Table, NEW db, NEW t \in Refreshed, NEW js2 \in MaybeCreateScheduled(js, db, t),
         HasRow(db, t, Scheduled) => HasRow(js, t, Scheduled)
  PROVE  HasRow(js2, t, Scheduled)
  <1>1. CASE HasRow(db, t, Scheduled)
    BY <1>1 DEF MaybeCreateScheduled
  <1>2. CASE ~HasRow(db, t, Scheduled)
    <2>1. PICK i \in JobIds : js2 = [js EXCEPT ![i] = NewJob("SCHEDULED", t, Bound[t])]
      BY <1>2 DEF MaybeCreateScheduled, Fresh
    <2>2. js2[i] = NewJob("SCHEDULED", t, Bound[t])
      BY <2>1 DEF Table
    <2>3. js2[i].status = "SCHEDULED" /\ js2[i].target = t
      BY <2>2 DEF NewJob, NoRow
    <2>4. QED
      BY <2>3 DEF HasRow, Scheduled
  <1>3. QED
    BY <1>1, <1>2

LEMMA MaybeCreateCompletes ==
  ASSUME NEW js \in Table, NEW db, NEW t, NEW js2 \in MaybeCreateScheduled(js, db, t)
  PROVE  \A i \in JobIds : js2[i].status = "COMPLETED" => js2[i] = js[i]
  <1> SUFFICES ASSUME NEW i \in JobIds, js2[i].status = "COMPLETED"
               PROVE  js2[i] = js[i]
    OBVIOUS
  <1>1. CASE js2 = js
    BY <1>1
  <1>2. ASSUME NEW k \in JobIds, js2 = [js EXCEPT ![k] = NewJob("SCHEDULED", t, Bound[t])]
        PROVE  js2[i] = js[i]
    <2>1. NewJob("SCHEDULED", t, Bound[t]).status = "SCHEDULED"
      BY DEF NewJob, NoRow
    <2>2. QED
      BY <1>2, <2>1 DEF Table
  <1>3. QED
    BY <1>1, <1>2 DEF MaybeCreateScheduled, Fresh

LEMMA CompletionChained ==
  ASSUME NEW js \in Table, NEW db, NEW t, CompletesOnly(js, jobs, t),
         NEW js2 \in MaybeCreateScheduled(js, db, t),
         HasRow(db, t, Scheduled) => HasRow(js, t, Scheduled)
  PROVE  Chained(jobs, js2)
  <1> SUFFICES ASSUME NEW i \in JobIds, jobs[i].status # "COMPLETED",
                      js2[i].status = "COMPLETED", js2[i].target \in Refreshed
               PROVE  HasRow(js2, js2[i].target, Scheduled)
    BY DEF Chained
  <1>1. js2[i].target = t
    BY MaybeCreateCompletes DEF CompletesOnly
  <1>2. QED
    BY <1>1, FollowUp

LEMMA CheckOfflineChained ==
  ASSUME NEW js \in Table, Chained(jobs, js), NEW st, NEW lp, CheckOffline(js, st, lp)
  PROVE  Chained(jobs, jobs')
  <1> SUFFICES ASSUME NEW i \in JobIds, jobs[i].status # "COMPLETED",
                      jobs'[i].status = "COMPLETED", jobs'[i].target \in Refreshed
               PROVE  HasRow(jobs', jobs'[i].target, Scheduled)
    BY DEF Chained
  <1>1. jobs' = ReleaseAgentJobs(js, Silent(st, lp))
    BY DEF CheckOffline
  <1>2. HasRow(js, js[i].target, Scheduled) /\ jobs'[i].target = js[i].target
    BY <1>1, ReleaseCompletes DEF Chained, CompletesNothing
  <1>3. QED
    BY <1>1, <1>2, ReleaseCompletes DEF HasRow

-----------------------------------------------------------------------------
(* Every step keeps the chain.                                             *)

LEMMA UserStepChained ==
  ASSUME jobs \in Table, UserStep
  PROVE  Chained(jobs, jobs')
  <1>1. ASSUME NEW t \in Targets, RunTool(t) PROVE Chained(jobs, jobs')
    <2>1. PICK old \in SUBSET {i \in JobIds : jobs[i].status \in Terminal} :
            \/ jobs' = Delete(jobs, old)
            \/ \E i \in Fresh(Delete(jobs, old)) :
                 jobs' = [CancelScheduled(Delete(jobs, old), t)
                           EXCEPT ![i] = NewJob("PENDING", t, Bound[t])]
      BY <1>1 DEF RunTool
    <2> DEFINE js == Delete(jobs, old)
               cs == CancelScheduled(js, t)
    <2>2. js \in Table /\ cs \in Table
      BY DeleteType, CancelScheduledType DEF Terminal
    <2>3. CompletesNothing(js, jobs) /\ CompletesNothing(cs, js)
      BY <2>2, DeleteCompletes, CancelScheduledCompletes
    <2>4. NewJob("PENDING", t, Bound[t]).status # "COMPLETED"
      BY DEF NewJob, NoRow
    <2>5. ASSUME NEW i \in JobIds, jobs' = [cs EXCEPT ![i] = NewJob("PENDING", t, Bound[t])]
          PROVE  CompletesNothing(jobs', cs)
      BY <2>2, <2>4, <2>5, PutCompletes
    <2>6. CompletesNothing(jobs', jobs)
      BY <2>1, <2>3, <2>5 DEF Fresh, CompletesNothing
    <2>7. QED
      BY <2>6, CompletesNothingChained
  <1>2. ASSUME NEW i \in JobIds, CancelJob(i) PROVE Chained(jobs, jobs')
    BY <1>2, SetStatusCompletes, CompletesNothingChained DEF CancelJob
  <1>3. ASSUME NEW i \in JobIds, RetryJob(i) PROVE Chained(jobs, jobs')
    <2> DEFINE row == [NewJob("PENDING", jobs[i].target, jobs[i].bound)
                        EXCEPT !.retries = jobs[i].retries + 1]
    <2>1. PICK k \in JobIds : jobs' = [jobs EXCEPT ![k] = row]
      BY <1>3 DEF RetryJob, Fresh
    <2>2. row.status # "COMPLETED"
      BY DEF NewJob, NoRow
    <2>3. QED
      BY <2>1, <2>2, PutCompletes, CompletesNothingChained
  <1>4. ASSUME NEW a \in Agents, NEW t \in OfflineTargets, PrepareUpload(a, t)
        PROVE  Chained(jobs, jobs')
    <2> DEFINE row == [NewJob("ASSIGNED", t, Null) EXCEPT !.agent = a, !.offline = TRUE]
    <2>1. PICK k \in JobIds : jobs' = [jobs EXCEPT ![k] = row]
      BY <1>4 DEF PrepareUpload, Fresh
    <2>2. row.status # "COMPLETED"
      BY DEF NewJob, NoRow
    <2>3. QED
      BY <2>1, <2>2, PutCompletes, CompletesNothingChained
  <1>5. ASSUME NEW a \in Agents, NEW t \in OfflineTargets, NEW js \in Table, NEW tag \in BOOLEAN,
               CompletesNothing(js, jobs), RecordOffline(a, t, js, tag)
        PROVE  Chained(jobs, jobs')
    <2> DEFINE done == [NewJob("COMPLETED", t, Null) EXCEPT !.agent = a, !.offline = tag]
               recorded(i) == CancelScheduled([js EXCEPT ![i] = done], t)
    <2>1. PICK k \in Fresh(js) : jobs' \in MaybeCreateScheduled(recorded(k), recorded(k), t)
      BY <1>5 DEF RecordOffline
    <2>2. done \in Row /\ done.target = t
      <3>1. NewJob("COMPLETED", t, Null) \in Row
        BY NewJobType, StatusType, ConstantsAssumption
      <3>2. QED
        BY <1>5, <3>1 DEF Row, Job, NewJob, NoRow
    <2> HIDE DEF done
    <2> DEFINE js1 == [js EXCEPT ![k] = done]
               js2 == CancelScheduled(js1, t)
    <2>3. js1 \in Table
      BY <2>2, PutType DEF Fresh
    <2>4. CompletesOnly(js1, jobs, t)
      BY <1>5, <2>2 DEF CompletesOnly, CompletesNothing, Table
    <2>5. jobs' \in MaybeCreateScheduled(js2, js2, t)
      BY <2>1
    <2> HIDE DEF js1
    <2>6. js2 \in Table
      BY <2>3, CancelScheduledType
    <2>7. CompletesOnly(js2, jobs, t)
      BY <2>3, <2>4, CancelScheduledCompletes DEF CompletesOnly, CompletesNothing
    <2> HIDE DEF js2
    <2>8. QED
      BY <2>5, <2>6, <2>7, CompletionChained
  <1>6. ASSUME NEW a \in Agents, NEW t \in OfflineTargets, UploadOffline(a, t)
        PROVE  Chained(jobs, jobs')
    <2>1. /\ Delete(jobs, OfflineRows(t, {"ASSIGNED"})) \in Table
          /\ CompletesNothing(Delete(jobs, OfflineRows(t, {"ASSIGNED"})), jobs)
      BY DeleteType, DeleteCompletes DEF OfflineRows
    <2>2. QED
      BY <1>5, <1>6, <2>1 DEF UploadOffline
  <1>7. ASSUME NEW a \in Agents, NEW t \in OfflineTargets, RecordNoChange(a, t)
        PROVE  Chained(jobs, jobs')
    BY <1>5, <1>7 DEF RecordNoChange, CompletesNothing
  <1>8. QED
    BY <1>1, <1>2, <1>3, <1>4, <1>6, <1>7 DEF UserStep

LEMMA AgentStepChained ==
  ASSUME Inventory \cap Refreshed = {}, jobs \in Table, OtherType, AgentStep
  PROVE  Chained(jobs, jobs')
  <1> USE DEF agentOnly
  <1>0. Chained(jobs, jobs)
    BY DEF Chained
  <1>1. ASSUME NEW a \in Agents, NEW arrives, ClaimJob(a, arrives) PROVE Chained(jobs, jobs')
    <2>1. PICK i \in NextJob(a) : CheckOffline(Assigned(i, a), status, lapsed)
      BY <1>1 DEF ClaimJob
    <2>2. Assigned(i, a) \in Table
      BY NextJobType, AssignedType
    <2>3. CompletesNothing(Assigned(i, a), jobs)
      BY TableType DEF Assigned, CompletesNothing, Job
    <2>4. QED
      BY <2>1, <2>2, <2>3, CompletesNothingChained, CheckOfflineChained
  <1>2. ASSUME NEW a \in Agents, CompleteServerSide(a) PROVE Chained(jobs, jobs')
    <2> DEFINE js(i) == [jobs EXCEPT ![i].status = "COMPLETED"]
    <2>1. PICK i \in NextJob(a) :
            /\ ServerMayComplete(i)
            /\ jobs' \in MaybeCreateScheduled(js(i), IF metricsRow THEN jobs ELSE js(i),
                                              jobs[i].target)
      BY <1>2 DEF CompleteServerSide
    <2>2. jobs[i].target \notin Refreshed
      BY <2>1 DEF ServerMayComplete
    <2>3. jobs' = js(i)
      BY <2>1, <2>2 DEF MaybeCreateScheduled
    <2>4. QED
      BY <2>2, <2>3, TableType DEF Chained, Job
  <1>3. ASSUME NEW a \in Agents, UpdateProgress(a) PROVE Chained(jobs, jobs')
    <2>1. proc[a].job \in JobIds
      BY <1>3 DEF UpdateProgress, OtherType, WorkersHaveJobs
    <2>2. QED
      BY <1>3, <2>1, SetStatusCompletes, CompletesNothingChained DEF UpdateProgress
  <1>4. ASSUME NEW a \in Agents, Execute(a) \/ TimeOut(a) \/ Restart(a) \/ Crash(a)
        PROVE  Chained(jobs, jobs')
    BY <1>0, <1>4 DEF Execute, ReportNoChange, ExecuteTool, ReportResult, TimeOut, Restart, Crash
  <1>5. ASSUME NEW a \in Agents, AnyHeartbeat(a) PROVE Chained(jobs, jobs')
    BY <1>0, <1>5, CheckOfflineChained DEF AnyHeartbeat, Heartbeat
  <1>6. ASSUME NEW a \in Agents, Disconnect(a) \/ Revoke(a) PROVE Chained(jobs, jobs')
    <2>1. /\ ReleaseAgentJobs(jobs, {a}) \in Table
          /\ Chained(jobs, ReleaseAgentJobs(jobs, {a}))
      BY ReleaseType, ReleaseCompletes, CompletesNothingChained
    <2>2. QED
      BY <1>6, <2>1, CheckOfflineChained DEF Disconnect, Revoke
  <1>7. QED
    BY <1>1, <1>2, <1>3, <1>4, <1>5, <1>6 DEF AgentStep, Claim

LEMMA NetStepChained ==
  ASSUME jobs \in Table, OtherType, NetStep
  PROVE  Chained(jobs, jobs')
  <1> USE DEF agentOnly
  <1>1. PICK r \in net : HandleReport(r) \/ LoseReport(r)
    BY DEF NetStep
  <1>2. CASE CompleteJob(r)
    <2> DEFINE i == r.job
               t == jobs[i].target
               js == [jobs EXCEPT ![i].status = "COMPLETED", ![i].offline = FALSE]
    <2>1. PICK js2 \in MaybeCreateScheduled(js, jobs, t) : CheckOffline(js2, status, lapsed)
      BY <1>2 DEF CompleteJob
    <2>2. i \in JobIds /\ jobs[i].status \in Held
      BY <1>2, AcceptsType DEF CompleteJob
    <2>3. js \in Table
      BY <2>2, EndType, StatusType DEF Held
    <2>4. CompletesOnly(js, jobs, t)
      BY <2>2, TableType DEF CompletesOnly, Job
    <2>5. HasRow(jobs, t, Scheduled) => HasRow(js, t, Scheduled)
      BY <2>2, TableType DEF HasRow, Scheduled, Held
    <2>6. js2 \in Table /\ Chained(jobs, js2)
      BY <2>3, <2>4, <2>5, MaybeCreateType, CompletionChained
    <2>7. QED
      BY <2>1, <2>6, CheckOfflineChained
  <1>3. CASE FailJob(r)
    <2> DEFINE js == [jobs EXCEPT ![r.job].status = "FAILED", ![r.job].offline = FALSE]
    <2>1. r.job \in JobIds /\ js \in Table
      BY <1>3, AcceptsType, EndType, StatusType DEF FailJob, Held
    <2>2. Chained(jobs, js)
      BY <2>1, SetStatusCompletes, CompletesNothingChained
    <2>3. QED
      BY <1>3, <2>1, <2>2, CheckOfflineChained DEF FailJob
  <1>4. CASE RefuseReport(r) \/ LoseReport(r)
    BY <1>4 DEF RefuseReport, LoseReport, Chained
  <1>5. QED
    BY <1>1, <1>2, <1>3, <1>4 DEF HandleReport

LEMMA TimeStepChained ==
  ASSUME jobs \in Table, TimeStep
  PROVE  Chained(jobs, jobs')
  <1>0. Chained(jobs, jobs)
    BY DEF Chained
  <1>1. CASE Sweep
    BY <1>0, <1>1, CheckOfflineChained DEF Sweep
  <1>2. ASSUME NEW a \in Agents, Lapse(a) PROVE Chained(jobs, jobs')
    BY <1>0, <1>2 DEF Lapse
  <1>3. ASSUME NEW i \in JobIds, BecomeDue(i) PROVE Chained(jobs, jobs')
    BY <1>3, SetStatusCompletes, CompletesNothingChained DEF BecomeDue
  <1>4. QED
    BY <1>1, <1>2, <1>3 DEF TimeStep

(* As long as no refreshed target is answered from an inventory, every     *)
(* completion leaves the next refresh scheduled: whether an agent reports  *)
(* it, late or twice, or the offline CLI uploads it, and whatever is swept,*)
(* cancelled or removed in the same handler.                               *)
THEOREM RefreshChainHolds ==
  ASSUME Inventory \cap Refreshed = {}
  PROVE  Spec => RefreshChainUnbroken
  <1>1. TypeInv /\ [Next]_vars => [Chained(jobs, jobs')]_vars
    <2> SUFFICES ASSUME jobs \in Table, OtherType, Next
                 PROVE  Chained(jobs, jobs')
      BY DEF TypeInv, Chained
    <2>1. QED
      BY UserStepChained, AgentStepChained, NetStepChained, TimeStepChained DEF Next
  <1>2. QED
    BY <1>1, TypeInit, TypeStep, PTL DEF Spec, RefreshChainUnbroken
=============================================================================
