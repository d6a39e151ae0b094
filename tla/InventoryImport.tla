--------------------------- MODULE InventoryImport ---------------------------
(***************************************************************************)
(* The bucket inventory of one connector: its configuration, schedule and  *)
(* validation (by the server when it holds the credentials, by a job of an *)
(* agent otherwise), the import jobs that users start, that the schedule   *)
(* creates and that completions renew, and the three phases of an import   *)
(* on the agent (folders, file info, delta), each reported to the server.  *)
(* Jobs are claimed, released when their agent falls silent, and cancelled *)
(* as in JobQueue; here they carry, in their progress, the connector and   *)
(* the copy of its configuration that they work with.                      *)
(***************************************************************************)
EXTENDS Naturals, FiniteSets

CONSTANTS
  Agents,      \* agents that may claim the connector's jobs
  Configs,     \* inventory configurations a user may enter
  Reachable,   \* those whose manifest exists
  Null,        \* no configuration, no agent
  ServerHolds, \* the server holds the connector's credentials
  Failures,    \* agents may die, imports fail, reports get lost, users cancel
  Clears,      \* the user may remove the configuration
  MaxConfigs,  \* bound: configuration changes
  MaxListings, \* bound: versions of the bucket's listing
  MaxJobs      \* bound: rows of the jobs table

ConstantsAssumption == /\ Reachable \subseteq Configs
                       /\ Null \notin Configs \cup Agents
                       /\ {ServerHolds, Failures, Clears} \subseteq BOOLEAN
                       /\ {MaxConfigs, MaxJobs} \subseteq Nat /\ MaxListings \in Nat \ {0}

VARIABLES
  connector,  \* its inventory configuration, schedule and validation status
  checking,   \* the configuration a server-side validation is looking at
  jobs,       \* jobs[j]: row j of the jobs table
  proc,       \* proc[a]: the process of agent a
  listing,    \* version of the inventory in the bucket
  folders,    \* versions of the listings whose folders are stored
  collection, \* the collection created from a folder: mapped, file info, delta
  edits       \* the number of configuration changes

vars == <<connector, checking, jobs, proc, listing, folders, collection, edits>>

JobIds == 1 .. MaxJobs
Listings == 0 .. MaxListings
Queued == {"PENDING", "due"}
Held == {"ASSIGNED", "RUNNING"}
Open == Queued \cup Held \cup {"SCHEDULED"}

Connector == [config: Configs \cup {Null}, schedule: {"manual", "daily"},
              status: {"none", "pending", "validating", "validated", "failed"}]
NoConnector == [config |-> Null, schedule |-> "manual", status |-> "none"]

(* config: the copy in the job's progress, Null once the progress is lost. *)
(* An ended row keeps its place while a process works on it, as CANCELLED; *)
(* otherwise nothing reads it again, and it is NoJob.                      *)
Job == [tool: {"none", "validate", "import"},
        state: {"none", "CANCELLED"} \cup Open,
        config: Configs \cup {Null}, agent: Agents \cup {Null}]
NoJob == [tool |-> "none", state |-> "none", config |-> Null, agent |-> Null]

(* read: the listing it has parsed; known: the file info it compares with. *)
Proc == [phase: {"idle", "starting", "check", "list", "folders", "collections",
                 "info", "delta", "finish", "fail"},
         job: JobIds \cup {0}, config: Configs \cup {Null}, read: Listings, known: Listings]
Idle == [phase |-> "idle", job |-> 0, config |-> Null, read |-> 0, known |-> 0]

Collection == [mapped: BOOLEAN, info: Listings, from: Listings, to: Listings]

TypeOK == /\ connector \in Connector
          /\ checking \in Configs \cup {Null}
          /\ jobs \in [JobIds -> Job]
          /\ proc \in [Agents -> Proc]
          /\ listing \in 1 .. MaxListings
          /\ folders \subseteq 1 .. MaxListings
          /\ collection \in Collection
          /\ edits \in 0 .. MaxConfigs

Init == /\ connector = NoConnector
        /\ checking = Null
        /\ jobs = [j \in JobIds |-> NoJob]
        /\ proc = [a \in Agents |-> Idle]
        /\ listing = 1
        /\ folders = {}
        /\ collection = [mapped |-> FALSE, info |-> 0, from |-> 0, to |-> 0]
        /\ edits = 0

-----------------------------------------------------------------------------
(* Jobs.                                                                   *)

(* Cancelling looks for the connector in the progress of SCHEDULED rows; a *)
(* row whose time has come is still SCHEDULED in the table.                *)
ScheduledImports(js) == {j \in JobIds : /\ js[j].tool = "import"
                                        /\ js[j].state \in {"SCHEDULED", "due"}}
CancelScheduled(js) ==
  [j \in JobIds |-> IF j \in ScheduledImports(js) THEN NoJob ELSE js[j]]

(* A new job takes the first free row.                                     *)
Free(js) == {j \in JobIds : js[j] = NoJob /\ \A a \in Agents : proc[a].job # j}
Fresh(js, j) == j \in Free(js) /\ \A i \in Free(js) : j <= i
(* Room for a request that leaves enough rows for the renewals.            *)
Room(j) == Fresh(jobs, j) /\ Cardinality(Free(jobs)) >= Cardinality(Agents) + 2
NewJob(tool, state, config) ==
  [tool |-> tool, state |-> state, config |-> config, agent |-> Null]

(* Mutant: no import is created when there was one to cancel.              *)
RenewedOnce(js, c) ==
  IF c.config = Null \/ c.schedule = "manual" THEN {js}
  ELSE IF ScheduledImports(js) # {} THEN {CancelScheduled(js)}
  ELSE {[js EXCEPT ![j] = NewJob("import", "SCHEDULED", c.config)] : j \in {i \in JobIds : Fresh(js, i)}}
(* The rows after the scheduled import is renewed, from the rows js.       *)
Renewed(js, c) ==
  IF c.schedule = "manual" \/ c.config = Null THEN {js}
  ELSE LET cancelled == CancelScheduled(js) IN
       {[cancelled EXCEPT ![j] = NewJob("import", "SCHEDULED", c.config)] :
           j \in {i \in JobIds : Fresh(js, i)}}

(* has_running_inventory_job: jobs whose progress names the connector.     *)
HasRunning == \E j \in JobIds : /\ jobs[j].state \in Held \cup {"PENDING"}
                                /\ jobs[j].config # Null

-----------------------------------------------------------------------------
(* The user.                                                               *)

SetConfig(c, s) ==
  /\ edits < MaxConfigs
  /\ edits' = edits + 1
  /\ jobs' = IF s = "manual" /\ connector.schedule # "manual" THEN CancelScheduled(jobs) ELSE jobs
  /\ connector' = [config |-> c, schedule |-> s, status |-> "pending"]
  /\ UNCHANGED <<checking, proc, listing, folders, collection>>

(* Mutant: no schedule instead of the manual one.                          *)
ClearAll ==
  /\ Clears
  /\ connector.config # Null
  /\ jobs' = CancelScheduled(jobs)
  /\ connector' = [NoConnector EXCEPT !.schedule = Null]
  /\ folders' = {}
  /\ collection' = [collection EXCEPT !.mapped = FALSE]
  /\ UNCHANGED <<checking, proc, listing, edits>>

ClearConfig ==
  /\ Clears
  /\ connector.config # Null
  /\ jobs' = CancelScheduled(jobs)
  /\ connector' = NoConnector
  /\ folders' = {}
  /\ collection' = [collection EXCEPT !.mapped = FALSE]
  /\ UNCHANGED <<checking, proc, listing, edits>>

(* With the credentials on an agent, a validation is a job.                *)
RequestValidation(j) ==
  /\ ~ ServerHolds
  /\ connector.config # Null
  /\ Room(j)
  /\ connector' = [connector EXCEPT !.status = "pending"]
  /\ jobs' = [jobs EXCEPT ![j] = NewJob("validate", "PENDING", connector.config)]
  /\ UNCHANGED <<checking, proc, listing, folders, collection, edits>>

(* With the credentials on the server, it commits VALIDATING, reads the    *)
(* bucket, and commits the outcome, whatever the connector is by then.     *)
StartCheck ==
  /\ ServerHolds
  /\ checking = Null
  /\ connector.config # Null
  /\ checking' = connector.config
  /\ connector' = [connector EXCEPT !.status = "validating"]
  /\ UNCHANGED <<jobs, proc, listing, folders, collection, edits>>

(* Mutant: a failed validation sets no status.                             *)
UpdateOnSuccess(success) ==
  LET updated == [connector EXCEPT !.status = IF success THEN "validated" ELSE @] IN
  /\ connector' = updated
  /\ jobs' \in IF success THEN Renewed(jobs, updated) ELSE {jobs}

(* Sets the status and, on success, renews the scheduled import: two       *)
(* commits of one call, whose being cut off in between is left out.        *)
UpdateValidation(success) ==
  LET updated == [connector EXCEPT !.status = IF success THEN "validated" ELSE "failed"] IN
  /\ connector' = updated
  /\ jobs' \in IF success THEN Renewed(jobs, updated) ELSE {jobs}

EndCheck ==
  /\ checking # Null
  /\ checking' = Null
  /\ UpdateValidation(checking \in Reachable)
  /\ UNCHANGED <<proc, listing, folders, collection, edits>>

MayImport == connector.config # Null /\ connector.status = "validated"

ImportNow(j) ==
  /\ MayImport
  /\ ~ HasRunning
  /\ Room(j)
  /\ jobs' = [jobs EXCEPT ![j] = NewJob("import", "PENDING", connector.config)]
  /\ UNCHANGED <<connector, checking, proc, listing, folders, collection, edits>>

CancelJob(j) ==
  /\ Failures
  /\ jobs[j].state \in Open
  /\ jobs' = [jobs EXCEPT ![j] = IF \E a \in Agents : proc[a].job = j
                                 THEN [jobs[j] EXCEPT !.state = "CANCELLED"] ELSE NoJob]
  /\ UNCHANGED <<connector, checking, proc, listing, folders, collection, edits>>

(* One collection is followed, from the folder it is created from.         *)
CreateCollection ==
  /\ folders # {}
  /\ collection = [mapped |-> FALSE, info |-> 0, from |-> 0, to |-> 0]
  /\ collection' = [collection EXCEPT !.mapped = TRUE]
  /\ UNCHANGED <<connector, checking, jobs, proc, listing, folders, edits>>

(* The provider writes a new inventory to the bucket.                      *)
NewListing ==
  /\ listing < MaxListings
  /\ listing' = listing + 1
  /\ UNCHANGED <<connector, checking, jobs, proc, folders, collection, edits>>

-----------------------------------------------------------------------------
(* The queue.                                                              *)

BecomeDue(j) ==
  /\ jobs[j].state = "SCHEDULED"
  /\ jobs' = [jobs EXCEPT ![j].state = "due"]
  /\ UNCHANGED <<connector, checking, proc, listing, folders, collection, edits>>

(* Validations have the higher priority.  The configuration the agent is   *)
(* sent has a connector when the job's progress has one.                   *)
Claimable == {j \in JobIds : jobs[j].state \in Queued}
Claim(a, j) ==
  /\ proc[a].phase = "idle"
  /\ j \in Claimable
  /\ jobs[j].tool = "validate" \/ \A i \in Claimable : jobs[i].tool # "validate"
  /\ jobs' = [jobs EXCEPT ![j].state = "ASSIGNED", ![j].agent = a]
  /\ proc' = [proc EXCEPT ![a] = [Idle EXCEPT !.phase = "starting", !.job = j,
                                              !.config = jobs[j].config]]
  /\ UNCHANGED <<connector, checking, listing, folders, collection, edits>>

(* Job.release: the row is PENDING again, and its progress is gone.        *)
Released(job) == [job EXCEPT !.state = "PENDING", !.agent = Null, !.config = Null]

Release(j) ==
  /\ Failures
  /\ jobs[j].state \in Held
  /\ jobs' = [jobs EXCEPT ![j] = Released(jobs[j])]
  /\ UNCHANGED <<connector, checking, proc, listing, folders, collection, edits>>

-----------------------------------------------------------------------------
(* The agent.                                                              *)

Job0(a) == proc[a].job
Owns(a) == jobs[Job0(a)].agent = a
Runs(a) == Owns(a) /\ jobs[Job0(a)].state = "RUNNING"
Goto(a, phase) == proc' = [proc EXCEPT ![a].phase = phase]
ServerUnchanged == UNCHANGED <<connector, checking, jobs, folders, collection, edits>>

FirstPhase(a) == IF proc[a].config = Null THEN "fail"
                 ELSE IF jobs[Job0(a)].tool = "validate" THEN "check" ELSE "list"

(* The first progress report; it keeps connector and configuration.        *)
Start(a) ==
  /\ proc[a].phase = "starting"
  /\ Goto(a, FirstPhase(a))
  /\ jobs' = IF Owns(a) /\ jobs[Job0(a)].state = "ASSIGNED"
             THEN [jobs EXCEPT ![Job0(a)].state = "RUNNING"] ELSE jobs
  /\ UNCHANGED <<connector, checking, listing, folders, collection, edits>>

(* The server asks only that the job is this agent's, not that it runs.    *)
ReportValidation(a) ==
  /\ proc[a].phase = "check"
  /\ Goto(a, "finish")
  /\ IF Owns(a) THEN UpdateValidation(proc[a].config \in Reachable)
                ELSE UNCHANGED <<connector, jobs>>
  /\ UNCHANGED <<checking, listing, folders, collection, edits>>

List(a) ==
  /\ proc[a].phase = "list"
  /\ proc' = [proc EXCEPT ![a].phase = IF proc[a].config \in Reachable THEN "folders" ELSE "fail",
                          ![a].read = listing]
  /\ UNCHANGED listing
  /\ ServerUnchanged

(* Phase A; a refused report fails the import.                             *)
ReportFolders(a) ==
  /\ proc[a].phase = "folders"
  /\ \/ Owns(a) /\ Goto(a, "collections")
     \/ (~ Owns(a) \/ Failures) /\ Goto(a, "fail")
  /\ folders' = IF Owns(a) THEN folders \cup {proc[a].read} ELSE folders
  /\ UNCHANGED <<connector, checking, jobs, listing, collection, edits>>

(* Phase B: the collections and the file info they have now.               *)
FetchCollections(a) ==
  /\ proc[a].phase = "collections"
  /\ proc' = [proc EXCEPT ![a].phase = IF collection.mapped THEN "info" ELSE "finish",
                          ![a].known = collection.info]
  /\ UNCHANGED listing
  /\ ServerUnchanged

StoreFileInfo(v) == IF collection.mapped THEN [collection EXCEPT !.info = v] ELSE collection

(* A refused or lost report ends phase B, skips phase C, and no more.      *)
ReportFileInfo(a) ==
  /\ proc[a].phase = "info"
  /\ IF Runs(a) /\ jobs[Job0(a)].config # Null /\ collection.mapped
     THEN /\ collection' = StoreFileInfo(proc[a].read)
          /\ Goto(a, "delta") \/ (Failures /\ Goto(a, "finish"))
     ELSE UNCHANGED collection /\ Goto(a, "finish")
  /\ UNCHANGED <<connector, checking, jobs, listing, folders, edits>>

(* A delta stands for the two listings it compares.                        *)
StoreDelta(old, new) == [collection EXCEPT !.from = old, !.to = new]

(* Mutant: phase C reads the inventory once more.                          *)
ReportDeltaNow(a) ==
  /\ proc[a].phase = "delta"
  /\ Goto(a, "finish")
  /\ collection' = IF Runs(a) /\ collection.mapped
                   THEN StoreDelta(proc[a].known, listing)
                   ELSE collection
  /\ UNCHANGED <<connector, checking, jobs, listing, folders, edits>>

(* Phase C compares with the file info phase B fetched.                    *)
ReportDelta(a) ==
  /\ proc[a].phase = "delta"
  /\ Goto(a, "finish")
  /\ collection' = IF Runs(a) /\ collection.mapped
                   THEN StoreDelta(proc[a].known, proc[a].read)
                   ELSE collection
  /\ UNCHANGED <<connector, checking, jobs, listing, folders, edits>>

(* The bucket cannot be read or a request does not reach the server; only  *)
(* phase A passes the error on.                                            *)
LoseReport(a) ==
  /\ Failures
  /\ proc[a].phase \in {"check", "list", "folders", "collections", "info", "delta"}
  /\ Goto(a, IF proc[a].phase \in {"list", "folders"} THEN "fail" ELSE "finish")
  /\ UNCHANGED listing
  /\ ServerUnchanged

(* The row once a's process has left it: ended by its report, or by a      *)
(* cancellation before; a row that is no longer a's stays.                 *)
Ended(a) == IF Owns(a) THEN [jobs EXCEPT ![Job0(a)] = NoJob] ELSE jobs
Accepts(a) == Owns(a) /\ jobs[Job0(a)].state \in Held

(* The completion of an import renews the scheduled one.                   *)
Complete(a) ==
  /\ proc[a].phase = "finish"
  /\ proc' = [proc EXCEPT ![a] = Idle]
  /\ jobs' \in IF Accepts(a) /\ jobs[Job0(a)].tool = "import"
               THEN Renewed(Ended(a), connector) ELSE {Ended(a)}
  /\ UNCHANGED <<connector, checking, listing, folders, collection, edits>>

Fail(a) ==
  /\ proc[a].phase = "fail"
  /\ proc' = [proc EXCEPT ![a] = Idle]
  /\ jobs' = Ended(a)
  /\ UNCHANGED <<connector, checking, listing, folders, collection, edits>>

(* The process dies, or obeys the command that aborts a cancelled job.     *)
Stop(a) ==
  /\ proc[a].phase # "idle"
  /\ Failures \/ jobs[Job0(a)].state = "CANCELLED"
  /\ proc' = [proc EXCEPT ![a] = Idle]
  /\ jobs' = IF jobs[Job0(a)].state = "CANCELLED" THEN Ended(a) ELSE jobs
  /\ UNCHANGED <<connector, checking, listing, folders, collection, edits>>

-----------------------------------------------------------------------------
Work(a) == \/ Start(a) \/ ReportValidation(a) \/ List(a) \/ ReportFolders(a)
           \/ FetchCollections(a) \/ ReportFileInfo(a) \/ ReportDelta(a)
           \/ Complete(a) \/ Fail(a)

Next == \/ \E c \in Configs, s \in {"manual", "daily"} : SetConfig(c, s)
        \/ ClearConfig
        \/ \E j \in JobIds : RequestValidation(j) \/ ImportNow(j) \/ CancelJob(j)
                             \/ BecomeDue(j) \/ Release(j)
        \/ StartCheck \/ EndCheck
        \/ CreateCollection
        \/ NewListing
        \/ \E a \in Agents : Work(a) \/ LoseReport(a) \/ Stop(a)
                             \/ \E j \in JobIds : Claim(a, j)

Spec == Init /\ [][Next]_vars

(* The agents' loops run.                                                  *)
Takes(a) == \E j \in JobIds : Claim(a, j)
FairSpec == /\ Spec
            /\ \A a \in Agents : WF_vars(Work(a)) /\ WF_vars(Takes(a))

-----------------------------------------------------------------------------
(* Properties.                                                             *)

(* However validations, completions, edits and clears follow one another,  *)
(* a connector has at most one import waiting on the schedule.             *)
OneScheduledImport == Cardinality(ScheduledImports(jobs)) <= 1

(* spec.md FR-066: with the schedule off, none is waiting, even when a     *)
(* validation or an import that began with the schedule on ends after.     *)
ManualStopsSchedule == connector.schedule = "manual" => ScheduledImports(jobs) = {}

(* With a schedule and a validated configuration, an import is waiting or  *)
(* under way: the chain of completions and renewals does not break (while  *)
(* the rows of the bounded table last).                                    *)
OpenImports == {j \in JobIds : jobs[j].tool = "import" /\ jobs[j].state \in Open}
ScheduleContinues ==
  \/ connector.schedule = "manual"
  \/ connector.status # "validated"
  \/ OpenImports # {}

(* The chain of scheduled imports neither breaks nor splits: there is one, *)
(* waiting or under way, and never a second one that waits.                *)
ChainOfImports == ScheduleContinues /\ OneScheduledImport

(* The file info of a collection is never replaced by that of an older     *)
(* listing.                                                                *)
NotOlder == collection'.info >= collection.info
InfoNeverOlder == [][NotOlder]_vars

(* When no import is under way, the delta of a collection is that of the   *)
(* file info it has, against the file info it had before.                  *)
DeltaDescribesInfo ==
  (\A a \in Agents : proc[a].phase # "delta")
     => /\ collection.to = collection.info
        /\ collection.from <= collection.to

(* FR-065: no two imports of the connector are held by agents.             *)
OneImportAtATime ==
  Cardinality({j \in JobIds : jobs[j].tool = "import" /\ jobs[j].state \in Held}) <= 1

(* FR-008: what counts as validated has been found reachable.              *)
ValidatedIsReachable == connector.status = "validated" => connector.config \in Reachable

(* Without a configuration there are no folders of the connector.          *)
NoFoldersWithoutConfig == connector.config = Null => folders = {}

(* While agents stay up, a validation that an agent was asked for gets an  *)
(* outcome, however configurations are edited and cleared and validations  *)
(* asked for again; the released job of a disconnected agent has lost its  *)
(* connector, so spec.md's "Validation job timeout" is not among these.    *)
Validating ==
  /\ connector.status = "pending"
  /\ \E j \in JobIds : jobs[j].tool = "validate" /\ jobs[j].state \in Queued \cup {"ASSIGNED"}
Validated == connector.status # "pending"
ValidationSettles == Validating ~> Validated
=============================================================================
