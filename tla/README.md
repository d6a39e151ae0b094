# ShutterSense in TLA+

ShutterSense analyses photo collections. A server (FastAPI, one SQL database)
keeps a persistent queue of jobs; *agents* on the users' machines poll it over
HTTP, run the analysis tools next to the files and report back. Nothing is
pushed to an agent except what rides on the answer to its heartbeat. Agents die,
sleep, lose their network and come back; users start, cancel and retry jobs
meanwhile; jobs schedule their own successors; results are copied, retained,
uploaded in chunks and synchronised from machines that were offline; inventories
of buckets turn folders into collections; and a calendar with series, deadlines,
conflicts and reminders hangs on the same database. This directory models these
components, checks them on small instances with TLC, and proves the safety
properties that matter most for every instance with TLAPS.

| file | what it is |
| --- | --- |
| `JobLifecycle.tla` | abstract specification: the life of a job, as anybody who looks at one job may rely on it |
| `JobQueue.tla` | the jobs table, the server's view of the agents, the agent processes and the network, handlers as atomic steps |
| `JobTransactions.tla` | the handlers one level down: loads and commits of requests that overlap |
| `ResultStore.tla` | results of one tool on one collection: NO_CHANGE copies, retention in batches, metrics, reports |
| `ChunkedUpload.tla` | the upload of a job's results in chunks, to worker processes with sessions in their memory |
| `OfflineSync.tla` | results of `run --offline`, the `sync` command, the two commits of the upload endpoint |
| `InventoryImport.tla` | the inventory of one connector: configuration, validation, schedule, three-phase import |
| `FolderMapping.tla` | folders of an inventory and the collections made of them, a commit at a time |
| `CollectionAccess.tla` | connectors, where a collection lies, the tests of whether it can be reached there, cached listings |
| `Pipelines.tla` | pipelines, their versions and history, the default, and which version an analysis follows |
| `EventSeries.tla` | events of the calendar, series, deadline entries, deletions and restorations |
| `Conflicts.tla` | scheduling conflicts, their groups and status, the notifications of new ones |
| `AgentAlerts.tla` | offline detection step by step, releases, warnings and alerts with their debounce |
| `DeadlineReminders.tla` | the hourly check of deadlines by each server process, reminders and pushes |
| `*Proofs.tla` | theorems about `JobQueue` (with `JobLifecycle`), `JobTransactions`, `ResultStore`, `ChunkedUpload`, `OfflineSync`, `InventoryImport`, `FolderMapping`, `Pipelines`; at the end of three of them, about `AgentAlerts`, `DeadlineReminders`, `EventSeries`, `Conflicts`, `CollectionAccess` |
| `MC*.tla`, `MC*.cfg` | instances for TLC, one `.cfg` per run |
| `PROJECT.json` | components, runs, mutants, the map from definitions to source lines, findings, hazards, theorems |

Definitions marked `(* Mutant: ... *)` are plausible wrong versions of the
definition that follows them. No specification uses them: they show that the
property they are meant to break does depend on the code.

## 1. Components

| component | state | operations | module |
| --- | --- | --- | --- |
| **Persistent job queue** (`models/job.py`, `services/job_coordinator_service.py`, `services/tool_service.py`) | table `jobs`: status, target, `bound_agent_id`, `agent_id`, `priority`, `retry_count`, `scheduled_for`, `progress_json`, `result_id` | run a tool, claim, progress, complete, no change, fail, cancel, retry, schedule the follow-up, retention | `JobQueue`, `JobTransactions` |
| **Agent liveness** (`services/agent_service.py`, `main.py`) | `agent_runtime`: status, `last_heartbeat`, pending commands | heartbeat, disconnect, revoke, offline sweep, commands | `JobQueue`, `JobTransactions`, `AgentAlerts` |
| **Agent process** (`agent/src/main.py`, `polling_loop.py`, `job_executor.py`) | current job, cancel flag | heartbeat and polling loops, the tool in a worker thread, reports, shutdown | `JobQueue`; its import tool in `InventoryImport`, its uploads in `ChunkedUpload` |
| **Result store** (`services/result_service.py`, `cleanup_service.py`, `storage_metrics_service.py`) | `analysis_results`, `storage_metrics` | create, copy, delete copies, retention, serve reports | `ResultStore` |
| **Chunked uploads** (`services/chunked_upload_service.py`, `agent/src/chunked_upload.py`) | sessions in the memory of one worker, chunk files | initiate, chunk, finalize, consume, expire | `ChunkedUpload` |
| **Offline results** (`agent/cli/sync_results.py`, `agent/src/cache/`, `api/agent/routes.py`) | result files; placeholder rows; `offline_result_id` | run offline, prepare, upload, record no change, mark, clean up | `OfflineSync`; the queue's side in `JobQueue` |
| **Inventory** (`services/inventory_service.py`, `agent/src/tools/inventory_import_tool.py`) | configuration and schedule per connector, folders, FileInfo, deltas | configure, validate, import, map folders, unmap, renew | `InventoryImport`, `FolderMapping` |
| **Collections and connectors** (`services/collection_service.py`, `connector_service.py`, `api/collections.py`) | place, bound agent, `is_accessible`, credential location, cached listings | create, move, rebind, test, delete, refresh | `CollectionAccess` |
| **Pipelines** (`services/pipeline_service.py`, `tool_service.py`) | rows with `version`, `pipeline_history`, `is_default`, assignments | create, update, activate, default, assign, delete | `Pipelines` |
| **Calendar** (`services/event_service.py`, `conflict_service.py`) | events, series, deadline entries, performers | create, update, delete, restore with their scopes; detect and resolve conflicts | `EventSeries`, `Conflicts` |
| **Notifications** (`services/notification_service.py`, scheduler of `main.py`) | notifications, preferences, subscriptions, debounce times in memory | alert, remind, push, clean up | `AgentAlerts`, `DeadlineReminders` |
| **Registry and attestation, users, teams, tokens, cameras, categories, trends, analysis tools, in-memory queue, frontend** | configuration, presentation, computations on file lists | CRUD | not modelled, see section 9 |

How they interact, and what is hard:

* An agent calls; the server never does. Death is inferred from **silence** (90 s
  without a heartbeat) by `check_offline_agents`, which several handlers run and a
  background task every 120 s. A slow agent may still be executing, and may still
  report, a job that was released and given to another.
* **Reports are not idempotent.** One that timed out may still be handled, after
  the job was released, cancelled, or claimed again by the same agent.
* **Cancellation** is a status change plus a command that travels with the next
  heartbeat and is forgotten by the server when it is answered.
* **Chains.** A completion schedules the next job of the target, an import the
  next import. A chain that silently ends and a chain that splits are both easy
  to get.
* **Several transactions per request, no row versions, no autoflush.** The
  database runs READ COMMITTED; handlers decide on rows they loaded earlier.
  Folder mapping, pipelines, uploads and releases commit in the middle.
* **State in the memory of one process** (upload sessions, listings, debounce
  times) behind several workers, and schedulers started by every worker.
* **Caches of derived answers**: `is_mappable`, `is_accessible`, `total_events`,
  deadline entries, metrics, NO_CHANGE copies.

What is hard to test is listed line by line under `hazards` in `PROJECT.json`,
with the property that watches over it, or the reason that none does.

## 2. How the modules are arranged

Each component has one module: its state as `VARIABLES`, one action per handler,
loop step or commit, `Spec`, then its properties. Bounds and features are
`CONSTANTS` with a `ConstantsAssumption`. `JobQueue` takes handlers as atomic and
follows a job across server, network and agents; `JobTransactions` takes the same
handlers apart and drops the network; `JobLifecycle` is what both promise of one
row, and `JobQueue` is shown to implement it under the mapping `lifeState`,
`lifeHolder` (`Lifecycle == Life!Spec`). `ResultStore`, `ChunkedUpload` and
`OfflineSync` refine what the queue abstracts to "a result"; `InventoryImport`
refines "the collection has an inventory"; `FolderMapping` takes over where an
import has stored folders; `CollectionAccess` takes over where a collection
exists.

TLC runs five of these compositions in one go each. `MCResults`, `MCInventory`,
`MCPipelines`, `MCServer` and `MCEventually` EXTEND one component, the *host*,
and hold further components, the *guests*, as `INSTANCE`s with their own
variables. A variable `instance` names, once for all, the instance that the
behaviour is one of; the variables of other instances are `"absent"` (or stay in
their initial state, for the host). So one run explores the disjoint union of
the state graphs of its instances. A property of the host is checked in all of
it; a property of a guest is stated as `instance = "..." => Guest!Property`, in
the instances where it is claimed. The components do not share state in these
runs: they meet through the assumptions that each makes of the others, named in
the comments of the modules.

## 3. What the modules say

### JobQueue and JobLifecycle

| variable | code |
| --- | --- |
| `jobs[i]` | row `i` of `jobs`; the index is the order of insertion. `DUE` is a `SCHEDULED` row whose `scheduled_for` has passed. `offline` says that `progress_json` holds the `offline_result_id` |
| `status[a]`, `lapsed`, `commands[a]` | `agent_runtime.status`; agents whose `last_heartbeat` is older than 90 s; `pending_commands_json` |
| `proc[a]` | the process: `phase` (where `JobExecutor.execute` stands, or which answer it waits for), `job`, the attempt it claimed and `_cancel_requested` |
| `net` | reports that were sent and not handled |
| `succeeded`, `metricsRow` | targets with a successful result; whether the team's `storage_metrics` row exists (creating it flushes the session, which changes what a later query of the transaction reads) |

Each action is a whole handler with every commit it makes and the sweep at its
end: `RunTool`, `CancelJob`, `RetryJob`; `PrepareUpload`, `UploadOffline`,
`RecordNoChange` (the offline endpoints); `ClaimJob`, `CompleteServerSide` (one
turn of the loop of `POST /jobs/claim`; the answer may be lost);
`UpdateProgress`, `ReportNoChange`, `ExecuteTool`, `ReportResult` (branches of
`JobExecutor.execute`); `TimeOut`, `OnError` (a report that raises in the agent);
`CompleteJob`, `FailJob`, `RefuseReport`, `LoseReport`; `Heartbeat`, `Disconnect`,
`Revoke`, `Sweep`; `Lapse`, `BecomeDue` (time); `Restart`, `Crash` (the server
remembers, the process does not). A report that is sent stays in `net` until it
is handled or lost, and the client may give up on it first, so late and reordered
reports are ordinary behaviours.

*Properties.* `HolderIsOnline`: a held job is in the hands of an agent that counts
as alive. `BoundJobsStayHome`: the job of a bound collection is never held by
another agent. `OneOpenJobPerTarget`. `AbortOnlyCancelled`: the abort flag is only
set for a job the server has cancelled. `RefreshChainUnbroken`: every completion
on a refreshed target leaves a scheduled successor. `Lifecycle`.
`DeadAgentJobsReleased`, `NoEndlessBouncing`, `PendingJobsTaken`.

*Abstracted.* Payloads, credentials and capabilities (a constant relation), the
clock (two bits), the limit of turns of the claim loop. A failure of retention is
caught by the code and is covered by retention deleting nothing.

### JobTransactions

`tx[h]` is what request `h` has loaded and not written; `rows` is the table as
committed. A claim locks what it reads (`FOR UPDATE SKIP LOCKED`), the partial
unique index refuses a second SCHEDULED row, everything else writes to the row as
it is by then. `Load`/`Commit` pairs stand for the handlers of claims, reports,
sweeps, cancellations (two commits: status, then command), heartbeats (read, then
clear) and run requests; `Crash` cuts any of them off. `ClaimsExclusive`: a held
job goes to another agent only through the queue.

### ResultStore

`results[i]` is the i-th result to be completed; it keeps its fields when it is
deleted (`live = FALSE`) so that a copy can be compared with what it names. A
`Version` is a state of everything the Input State hash covers. `RunJob` and
`RunCli` are the steps of the two ways a result comes about, `Cleanup` retention
in batches with its tally, which may be cut off, `DeleteResult` a user.
`CopiesFaithful`: a copy refers to an original of its own input state and data,
and the report served for it is the original's or none. `NewestSurvives`:
retention never deletes the newest success of the target. `Accounted`: what jobs
generated is stored, purged, or in the tally under way. `DataMatchesHash`: a
result that names an input state was computed from it.

### ChunkedUpload and OfflineSync

`ChunkedUpload`: sessions and finalized contents per worker, the client's request
with its attempt, requests given up on that arrive late, expiry, restarts.
`OneStage`: an upload is open in one worker, or kept by one, or gone.
`ConsumedWhole`: a completed job got every content in full, none twice.
`Settled`: the client comes to an end.

`OfflineSync`: `local[r]` the result file, `cli[p]` a sync command, `handler[h]` an
upload request with its two commits (the result; which result it was).
`NothingLost`: a file is given up only when its result is stored. `StoredOnce`.
`PendingSettles`.

### InventoryImport and FolderMapping

`InventoryImport`: `connector` (configuration, schedule, validation status),
`jobs` with the copy of the configuration in their progress (which a release
drops), `proc[a]` the agent's import with the listing it parsed and the file info
it compares with, one `collection` with file info and delta. `UpdateValidation`
and `Complete` renew the scheduled import in the same step: cancel what is
scheduled, insert the next. `OneScheduledImport`, `ScheduleContinues`
(together `ChainOfImports`), `DeltaDescribesInfo`, `InfoNeverOlder`,
`ValidationSettles`.

`FolderMapping`: `rows[f]` with `collection` and the cached `mappable`; a request
creates a collection, looks up what it maps (`MapFolder`), commits the mapping
without looking again (`CommitMapping`), loads the flags and writes them back; a
deletion reads the folders of the collection, unmaps them in the commit that deletes
it (`CommitDelete`), whatever they are mapped to by then, and recalculates after it.
The tree of paths is the constant `Above`. `OwnersExist`: the collection of a mapped
folder exists, and belongs to no other folder. That needs that nobody deletes a
collection while the request that creates it still has to map it; the code
refuses nothing there, and the constant `EarlyDeletes` admits these deletions
(section 8). `MappingConsistent` is what a later listing with folders under or above
mapped ones leaves true of one request at a time: folders of one listing are not
mapped inside one another, and a flag that disagrees with the mappings belongs to a
folder listed later, and says too much.

### CollectionAccess

The connector with the location of its credentials (server, agent, pending), the
agents that reported them, collections (`place`, bound agent, `accessible`),
`tests` queued as jobs, listings per server process. The verdict of a test is
compared with the place it is about through the history variable `tested`.
`TestedWhereItIs`: a local collection with no open test has a verdict about where
it is, from the agent it is bound to. `ListingCurrent`: a listing kept is of the
place where the collection is. `SecretsOnlyOnServer` (stated, in no run): the
server tests nothing whose credentials it does not hold.

### Pipelines

`pipeline[p]` (version, content, active, default), `history`, `collection[c]` with
the version it pins, `handler[h]` the row a request has read. Requests read,
check, and write columns later. `VersionsKept`: no step loses a version of a
pipeline that stays, or leaves two definitions under one number. `PinnedStored`:
a pinned version is stored, current or in the history. `DefaultUsable`: at most
one default, active and valid.

### EventSeries, Conflicts, AgentAlerts, DeadlineReminders

`EventSeries`: rows of one series, standalone events and deadline entries;
`UpdateEvent`, `DeleteEvent`, `RestoreEvent` with the scopes `single`,
`this_and_future`, `all`; a deletion counts before it commits, and a restoration
before its own change is flushed (the session has no autoflush), so without the row it
restores. `DeadlinesShown`: one entry on the day of every deadline as long as
operations touch single events or whole series; with `this_and_future` deletions and
moves of several events (`any_scope`) the entry does get lost or moved, and what
remains is that there is never a second one, nor one of a deadline removed
(`ShownAtMostOnce`). `TotalCounts`: the total is exact after any deletion, and at
most one short after restorations. `AttendanceKept`.
`Conflicts`: pairs of events in a window of dates that conflict by time, distance
or travel; groups by a forest that is joined edge by edge and shortened on every
look-up. `GroupsAreComponents` compares these groups with the connected components:
two events are in one exactly if no cut of the graph comes between them.
`ConflictsTold`.
`AgentAlerts`: one step per commit of the offline transition. `PoolOfflineTold`,
`OfflineHoldsNoJobs`. `DeadlineReminders`: half days, members ahead of or behind
the server's day, one check per process. `NoDuplicate`, `CheckedMeansReminded`.

## 4. Fairness

All fairness is weak, and asked of what the code schedules. The sweep runs every
120 s (`dead_agent_safety_net`); a dead process sends no heartbeat, so its last
one grows old; a live process keeps its two loops going; an HTTP client has a
timeout, and the server handles *some* report if reports keep waiting
(`JobQueue`). A sync command that was started goes on, and a request that reached
the server is handled (`OfflineSync`); the client of an upload gets an answer or
times out (`ChunkedUpload`); the agents' loops run (`InventoryImport`, where
`ValidationSettles` is checked with an agent that stays up: the validation of one that
disconnects is released without its connector and does not settle, section 8). Nothing is
asked of users, crashes, restarts, losses or deliveries: no report is guaranteed to
arrive, and in the other instances an agent may stay down. In
`MCEventually` the fairness of each component is the component's own, on the
behaviours of its instance.

## 5. Runs

| run | instances and bounds | shows |
| --- | --- | --- |
| `handover` | 2 agents, 2 targets (one bound), 1 row, 1 retry, 1 extra request in flight | `TypeOK`, `HolderIsOnline`, `BoundJobsStayHome`, `Lifecycle` under all crashes, losses and delays |
| `refresh` | 1 agent, 1 target with a TTL, 3 rows, no retries | `OneOpenJobPerTarget`, `AbortOnlyCancelled`, `RefreshChainUnbroken` |
| `offline` | 1 agent, 1 target, 2 rows; offline results, inventory, manual retry, ERROR heartbeats | `Lifecycle` on these paths |
| `liveness` | 2 agents, 1 target, 1 row, 1 retry, fair | `DeadAgentJobsReleased`, `NoEndlessBouncing`, `PendingJobsTaken` |
| `results` | host `ResultStore` (3 results, 1 preserved, batches of 2, CLI, crashes); guests `only_jobs`, `file_info`, `upload` (2 workers, 2 parts of 2 chunks), `sync` (2 results, 3 faults), `edits` (2 pipelines, 1 request) | `CopiesFaithful`, `NewestSurvives`, `JobsAccounted`, `FileInfoMatches`, `OneStage`, `StoredOnce`, `DefaultUsable` |
| `inventory` | host `FolderMapping` (3 folders, 2 overlapping requests, 1 crash, no early deletions); guests `one_by_one` (4 folders, of which a later listing adds one in the middle of the tree and one beside), `schedule`, `server`, `delta` (3 listings), `local`, `remote`, `wild` of `CollectionAccess` | `OwnersExist`, `SerialMapping`, `ChainOfImports`, `DeltaDescribesInfo`, `TestedWhereItIs`, `ListingCurrent` |
| `pipelines` | host `Pipelines` (1 pipeline, 2 versions, 2 overlapping requests); guests `series_deadlines`, `any_scope`, `restores`, `status_changes`, `attended`, `groups`, `windows`, `told`, `changes`, `time_zones` | `PinnedStored`, `VersionsKept`, `DeadlinesShown`, `TotalCounts`, `AttendanceKept`, `GroupsAreComponents`, `ConflictsTold`, `NoDuplicate`, `CheckedMeansReminded` |
| `server` | host `JobTransactions` (2 agents, 2 requests, 2 rows, crashes; symmetric); guests `alerts`, `releases`, `last_retries` of `AgentAlerts` | `ClaimsExclusive`, `PoolOfflineTold`, `OfflineHoldsNoJobs` |
| `eventually` | host `OfflineSync` (2 results, 2 faults of any kind), guests `upload`, `validation`, fair | `NothingLost`, `PendingSettles`, `ClientSettles`, `ValidationSettles` |
| `error_status`, `chain_inventory`, `first` | see section 7 | expected violations |

*Bounds and why they are enough.* Rows, results, uploads, versions and listings
are created up to a bound in the guards (`MaxJobs`, `MaxResults`, `MaxUploads`,
`MaxVersion`, `MaxListings`, `MaxRows`); the hazards need at most three of each:
a job, its successor and the one after it; an original, a copy and a newer
original; a version, the one that an update makes and the one that an update in
a race makes; a listing, a newer one and the one a delta is against. Two agents,
two workers or two requests are enough for one to overtake the other; where three
parties matter (a process, the server, the message of an earlier attempt) the
third is in the network. Faults are counted where their number multiplies states
(`MaxFaults`, `MaxCrashes`: a fault, and another one during the recovery from
it), and unbounded elsewhere. The theorems of section 6 hold without these
numbers. Symmetry is used in `server`, where no property tells agents, jobs or
requests apart, and no liveness property is checked there.

*Deadlock* is checked in the runs of `JobQueue` and in `first`: only the bound on
rows stops users there, and time goes on. The union runs disable it, because
their instances may really come to an end (every file synchronised, every bound
on versions, results and faults used up).

## 6. Proofs

Each component's theorems are in `<Component>Proofs`, which EXTENDS the component
and `TLAPS`. The hypotheses are the types of the constants
(`ConstantsAssumption`, an `ASSUME` of `JobQueue` and a conjunct of the theorems
elsewhere, because those modules are also instantiated), without finiteness, plus
what a theorem names. So they hold for any number of agents, targets, requests,
rows, results, retries, versions, chunks and listings. The bounds in the guards
are constants too, and no proof uses more of them than that they are numbers.

A proof has the same plan everywhere: an inductive invariant `IInv` of named
parts, one lemma per helper that rewrites a table, one lemma per group of actions,
`InitIInv`, `NextIInv`, and a last temporal step.

**JobQueueProofs.** *TypeCorrect*, *HolderAlwaysOnline*: `TypeOK` is not inductive,
because a claim looks up the target of the row it takes and the executor the row
it works on. `TypeInv` adds that every row that exists names its target, and that a
process that works has a job. `HolderIsOnline` is inductive relative to it:
whatever takes an agent off the living releases its rows in the same step, and
whatever puts a row in an agent's hands has checked that it is ONLINE.
*JobQueueImplementsLifecycle*: each table operation maps each row to a move of its
abstract life or to nothing. The step that needs an argument is a handler's own
change composed with the sweep at its end: only held rows are swept, so a row that
was settled is not touched again, and a claim followed by the sweep of the claimer
does not change hands past the queue.
*AbortOnlyWhatIsCancelled* rests on one more inductive fact: a command names a job
that is cancelled, or removed since.
*BoundJobsNeverLeave* assumes `OfflineTargets = {}` (the placeholder of an offline
upload does not carry the binding, see section 8): rows carry the binding of their
target from creation to their end; the claim reads the row, the property speaks of
the collection. *OpenJobsNeverPileUp* assumes that too, and `~ManualRetry`, since
neither an upload nor a retry asks what is open; the work is in the order within
the handlers (a run request cancels the refresh before it inserts, a completion
ends its own row before the successor is inserted).
*RefreshChainHolds* is an action property. It assumes
`Inventory \cap Refreshed = {}`, and the run `chain_inventory` is the
counterexample otherwise. Each handler completes nothing, or rows of one target,
and then creates a successor in a table where a scheduled row that the query has
seen is still there; the sweep after it touches held rows only.

**JobTransactionsProofs.** *TypeCorrect*, *ClaimsNeverShared*: what a transaction has
loaded and locked is related to what is committed by now. `LockedQueued` (a locked
row is still in the queue), `LocksDisjoint`, `JobsGiven`, `HolderKnown` and
`CallerKnown` carry it: a claim writes a row that it loaded earlier, and only its
lock says that the row is not held by then. Reports and sweeps write stale rows too,
but none of them names a new holder. The theorem fails without the locks
(`ClaimsExclusive` has that mutant).

**OfflineSyncProofs.** *TypeCorrect*, *NoResultLost*: the client's mark, the request,
the answer and the two commits of the server are tied together by `HandledStored`
and `AnsweredStored` (a handler past its first commit, and an answer other than a
refusal, mean that the result is stored), `PlaceholdersOpen`, `OneRequestEach` and
`ClientsWait`. So a file is only marked when its result is stored, whatever is lost
or repeated. *AlwaysStoredOnce* assumes `OneUpload`: one upload handled at a time, the
server never stopped between its two commits. Section 8 has the counterexamples
without either. There a row that is stored and not yet noted as uploaded is that of
the handler at work (`UnnotedAtHand`), so the look-up that precedes an insertion
finds every other one.

**ResultStoreProofs.** *CopiesAlwaysFaithful* needs that originals are older than
their copies (`InOrder`), that a copy names a success with its own state
(`Sourced`), and that what a running job or command remembers of the previous
result is still true of it (`Informed`): results keep what they say, only their
existence changes. *NewestAlwaysSurvives* adds how far a cleanup has read and
assumes `~UserDeletes`. A user may delete the newest result, which is not
retention. *AlwaysAccounted* assumes that results come from jobs and that no
cleanup is cut off (`~CliRuns`, `~UserDeletes`, `~Crashes`), the cases in which
section 8 says that the numbers differ; it needs arithmetic on the cardinality of
batches. *DataAlwaysMatchesHash* assumes `Inventory`: there the listing that is
hashed is the one that is analysed, which without an inventory is false (section 8).

**ChunkedUploadProofs.** *AlwaysOneStage*, *AlwaysConsumedWhole*, *TypeCorrect*. The
invariant says which uploads a client in a given phase, and each late request, can
name, that kept and consumed uploads have all chunks, and that a consumed upload is
neither open nor kept. `Progress` is where the order of the client's loop enters: an
upload is named for completion only after its finalization was answered.

**InventoryImportProofs.** *NeverTwoScheduled* has no hypothesis: whatever creates a
scheduled import cancels the waiting one in the same transaction. *ChainHolds*
assumes that no import fails and that what is configured can be read (`~Failures`,
`Configs \subseteq Reachable`): after a failure the schedule really ends
(section 8). Its invariant follows the copy of the configuration in the job
(`Configured`, `AtWork`) to the completion that creates the next one.
*InfoNeverGoesBack* and *DeltaAlwaysDescribesInfo* assume one agent, and the second
`~Failures` and `~Clears`. Two imports at a time, or one cut off between file info
and delta, break them (section 8); with one agent the order of the phases is the
order of the listings (`Ordered`, `Compared`).

**FolderMappingProofs.** *OwnersAlwaysExist* assumes `~EarlyDeletes`, that nobody
deletes a collection that its request has not mapped yet; without it TLC finds a folder
mapped to a deleted collection (section 8). A request holds the collection it has
created until the folder does; `HeldLive` and `HeldOnce` say that whatever is held
exists and is held once, across every look-up, commit and crash in between, and
`AffectedAll` that a deletion has read every folder of what it deletes.
*SerialMappingIsConsistent* assumes `OneRequest`: one handler and no crash; both have
their counterexample in section 8. Folders that a later listing adds anywhere in the
tree are not excluded. Its invariant says what the flags are while they are
recalculated, from the load to the write (`Recalculating`), and that only a folder
of a later listing is ever said to be mappable that is not (`MaySay`).

**PipelinesProofs.** *PinnedAlwaysStored* and *VersionsAlwaysKept* hold under overlapping
requests. The invariant is that the history of a pipeline is complete from 1 up to its
version (`Complete`), that the unique index refuses a number twice, and that what a
request has read is not newer than the row (`Read`): of two updates that read the
same version, the second fails on the index instead of overwriting.
*DefaultAlwaysUsable* assumes one request at a time; two that overlap leave an
inactive default (section 8).

**The smaller components.** `AgentAlerts`, `DeadlineReminders`, `EventSeries`, `Conflicts` and
`CollectionAccess` have their theorems in the last parts of `JobTransactionsProofs`, `PipelinesProofs`
and `FolderMappingProofs`, the same hosts whose runs check them: each is an
`INSTANCE` with parameters of its own there, and nothing of the host is used.

* `AgentAlerts` (`AlertsTypeCorrect`, `OfflineNeverHoldsJobs`, `PoolOfflineAlwaysTold`).
  One server process in both. A held job is being released, or its agent is there and
  stays (`NoneForgotten`); the first theorem also excludes crashes where members ask
  for retry warnings, because reading who asks commits a release that is half done.
  When all are offline, an alert is under way or the sweep that will send it is
  (`WillBeTold`); the second theorem excludes crashes and the request for the status
  of the pool, which marks agents and tells nobody (section 8).
* `DeadlineReminders` (`NeverTwiceReminded`). One scheduler. A note that retention removed is of a
  day that is past (`Removed`), and the day that a check works with is at most one
  behind (`Recent`), so what a check is about to store was not stored and then
  removed before (`NotStored`), for every retention from one day on.
  *CheckAlwaysReminds* (the action property `CheckedMeansReminded`) holds for any number of processes:
  of the members that an undisturbed check has come to, all have their reminders but
  for the events that are left and the reminder at hand (`Covers`). It assumes
  that deadlines are set once and that nobody is behind the server's day
  (`Unmoved`); section 8 has both exceptions. A deadline moved by as many days as have
  gone by counts as reminded, and what is past for the server is not selected.
* `EventSeries`. Types (`EventsTypeCorrect`) need no hypothesis; the others assume
  one request at a time (`Serial`) or none that overlap in what they touch.
  *TotalAlwaysCounted* (no restorations) and *TotalNeverMoreThanOneShort* (with them): a
  deletion counts the events it will leave before it commits, so the invariant
  (`Counting`) is that what is pending will leave what it counted (`CountsLeft`), that
  at most one deletion is pending (`OnePending`), and that the total is what is left or,
  after a restoration, one less (`Sums`); shortages do not add up, because every
  count starts from the rows. The count of a series after each operation is an equality
  of cardinalities, by the finite rows.
  *DeadlinesAlwaysShown* also assumes that entries follow what they are the deadline of
  (`EntriesFollow`): nothing is restored, no deletion reaches only the later events,
  and a date is moved for one event at a time; section 8 has the counterexample of
  each that is excluded. The invariant (`Showing`) adds that live entries belong to a
  live owner and only one to each (`EntriesSound`, `AllShown`), and that a pending
  deletion takes the entry with the last event (`TakesEntries`).
  *AttendanceAlwaysKept*, an action property, assumes that a status is set for one event
  at a time (`OneStatusAtATime`): section 8 has the reset of later events otherwise.
* `Conflicts`. *GroupsAlwaysComponents* and *WindowsAlwaysAgree* are about an algorithm:
  `find` and the fold over the edges are recursive functions, and what these compute is
  induction over data. For these two it is done without the induction theorems. That a function
  with the equation of `find`, or of the fold, exists is shown from the least relation
  closed under its steps (`Walking`, `Peeling`). What it returns is shown on a
  smallest counterexample: of all states that `find` gets wrong, one whose event has the
  highest rank (`FindFinds`), and of all sets of edges, one that no smaller one is in
  (`ForestSplits`). The invariant of the forest (`Rooted`) labels each event with the root of
  its tree and ranks it so that the way up grows; shortening a path keeps both, and
  joining two roots gives one label to both trees (`JoinLabels`). With it goes what the labels
  mean (`Parts`): the ends of an edge that was joined have one label, and no cut of
  those edges comes between two events of one label. Any order of the edges will
  do, and `WindowsAlwaysAgree` follows, since a cut of all conflicts is one of the
  conflicts of a window.
  *ConflictsAlwaysTold* assumes `WithinReach`: the rules reach no further than the days
  looked at (seven, so `window <= 7` and `buffer <= 8`), and no series, restoration or
  decision of attendance introduces the conflict; section 8 has the cases in which
  nobody is told. The argument is that whatever clashes with the event of a request lies in
  the window around it (`ClashesNear`), and that an open edge is in a group that is not
  resolved (`OpenNoticed`). *ConflictsTypeCorrect* needs no such hypothesis.
* `CollectionAccess` (`ListingAlwaysCurrent` with one server process,
  `SecretsAlwaysOnlyOnServer` with no hypothesis, `ServerAlwaysHasCredentials` where no
  request moves a connector while it keeps the credentials, `~Careless`).
  *AlwaysTestedWhereItIs* assumes what the run's instance does: no collection is bound to
  another agent, no test fails and none comes from the command line, each of which
  leaves an older verdict behind. The invariant (`Whereabouts`) is about the queue:
  tests are of collections that exist and for the agent they are bound to, which runs
  the oldest of them first (`OldestFirst`); one that it runs while no other of the
  collection waits is at the place where the collection is (`LastCurrent`). A move
  appends a test, so a late answer about the place before is never the last one. What a
  removal leaves of the queue is `Remaining`, the increasing enumerations of the
  indices that stay; there is one, and it reaches them all (`RemainingFits`).

*What is only model-checked.* Liveness (fairness and `ENABLED` are out of the
prover's reach): `DeadAgentJobsReleased`, `NoEndlessBouncing`, `PendingJobsTaken`,
`PendingSettles`, `ClientSettles`, `ValidationSettles`. Every safety property that a
passing run checks has a theorem about its component.
The properties of the
union runs that are named for an instance (`JobsAccounted`, `FileInfoMatches`,
`SerialMapping`, `ChainOfImports`, ...) state the component's property for that
instance; where a theorem above proves the component's property, the run shows
that the hypotheses hold in an instance that does something.

## 7. Divergences that a run shows

* `error_status`: an agent whose last heartbeat said ERROR and which then dies is
  never swept, so its jobs are never released (`agent_service.py:842`).
* `chain_inventory`: a due refresh answered by the server is taken for its own
  successor, because the session does not flush before the query
  (`job_coordinator_service.py:2176`).
* `first`: retention deletes the first result of an input state while it preserves a
  copy that refers to it (`cleanup_service.py:459`).

The quotations are under `findings` in `PROJECT.json`.

## 8. Other disagreements met while modelling

The modules state the properties that these documents claim, and TLC finds them
violated under the constants that admit the case; they have no run in this project.
A property in brackets is a definition of the component's module, where there is one.

*Queue and agents.*
A manual retry does not ask `max_retries` (`tool_service.py:1354`).
An agent that dies and restarts within 90 s leaves its job RUNNING for ever
(`agent_service.py:842`).
The placeholder of an offline upload has no binding and, released, is claimed by any
agent (`routes.py:3285`).
A reported failure is final in the first attempt (`job_coordinator_service.py:2345`).
Two run requests insert two jobs (`tool_service.py:963`, `OneActive`).
A late cancellation overwrites a terminal status (`tool_service.py:1338`,
`TerminalStays`).
Commands are read and cleared in two statements and get lost
(`agent_service.py:1234`, `ClearedAtomically`).
A cancellation cut off between its commits never reaches the agent
(`tool_service.py:1340`, `AgentHears`).

*Results and uploads.*
Retention of failed jobs deletes results that should be preserved
(`cleanup_service.py:298`, `MinimumPreserved`).
Offline results do not count as reports (`tool_service.py:538`, `ReportsCounted`), and
leave more than one copy per original (`tool_service.py:510`, `OneCopyPerOriginal`).
The agent hashes one listing and analyses another (`job_executor.py:774`,
`DataMatchesHash` without an inventory).
Upload sessions live in one of several workers (`chunked_upload_service.py:52`,
`NeverRefused`); nothing expires them (`chunked_upload_service.py:925`).
A crash between the two commits of an upload, or two sync commands, store a result
twice (`routes.py:3450`, `routes.py:3363`, `StoredOnce`); a file that is marked and
not deleted stays (`sync_results.py:115`).

*Inventory and collections.*
Two imports of a connector run at a time (`inventory_service.py:603`) and can bring
back older file info (`inventory_service.py:1564`, `InfoNeverOlder`).
A failed, cancelled or released import ends the schedule
(`job_coordinator_service.py:2249`, `ScheduleContinues`).
A validation of an old configuration validates the new one
(`inventory_service.py:544`). `spec.md` of 107 says at line 260, of an agent that disconnects
during a validation, that the "system should mark validation as failed with a timeout
error": the job is released without its connector, fails at the next agent, and the
status stays pending (`job.py:463`, `ValidationSettles` with `Failures`). Folders are reported for a cleared configuration
(`routes.py:2357`).
Mapped folders overlap after a new listing (`inventory_service.py:771`), two requests
(`inventory_service.py:1058`) or a crash before the flags are recalculated
(`inventory_service.py:1084`) (`NoOverlap`); a refused mapping leaves its collection
(`collections.py:1378`). The look-up of the collection and the commit of the mapping are
two steps, and a deletion looks up the folders before its own commit: a collection
that is deleted while the request that created it is mapping it leaves a folder mapped
to a collection that is gone (`inventory_service.py:1070`, `collection_service.py:615`,
`OwnersExist` with `EarlyDeletes` and two requests).
`update_collection` assigns the new agent before it compares it with the old one, so
rebinding does not reset `is_accessible` (`collection_service.py:458`,
`TestedWhereItIs` with `Rebinds`). A connector that moves to the server without its
credentials being updated has none there (`connector_service.py:345`,
`ServerHasCredentials` with `Careless`). `test_connector` decrypts before it looks at the
location of the credentials. Cached listings are per process.

*Pipelines.*
An analysis gets the current nodes and edges under the version of its job
(`routes.py:1070`, `ResultsOfTheirVersion`). Setting a default clears those of all
teams, and a run takes the default of any team (`pipeline_service.py:598`). Two
overlapping requests leave an inactive or a second default (`DefaultUsable`).

*Calendar.*
Deleting this and future events, moving all, and restoring lose or move the deadline
entry (`event_service.py:1654`, `1471`, `1801`); a location is set in it (`1483`); the
last event leaves it behind (`1656`).
The docstring of `_update_series_total` (`1819`) says that the total is of "non-deleted
regular events": `restore` calls it before its `deleted_at = None` is flushed
(`1801`, `1806`; `autoflush=False` in `database.py:62`), and the total stays one short
until something else counts (`TotalCounted` with restorations).
Positions exceed the total after a deletion (`1835`); two deletions leave a series of
one (`1835`, `NoSeriesOfOne`).
An update of all events sets the attendance of cancelled ones (`1449`,
`SkippedWhenForced`) and resets that of later ones (`1467`).
Conflicts beyond seven days (`2156`), of new series (`1168`) and those that a restoration
or an attended event brings back are not told, known
ones are told again (`2178`).
A group is resolved with two attended events left (`conflict_service.py:614`).

*Notifications.*
A sweep by `get_pool_status` tells nobody (`agent_service.py:1269`). The debounce is
per process (`notification_service.py:33`, `NoSpam`). A release cut off after its
first warning leaves jobs with an offline agent (`agent_service.py:930`). Exhausted
retries are not told (`agent_service.py:938`).
Two schedulers store a reminder twice (`notification_service.py:1422`), and each
event of a series gets its own. Members behind UTC miss the last day (`1375`). A
moved deadline is not announced again (`1429`). A crash before the push (`1559`) or a
failed push (`565`) is not made up for.

## 9. What is not modelled

* The registry of agents, attestation and one-time tokens; users, teams, sessions and
  API tokens; cameras, categories, locations, organizers, performers, trends; the
  frontend: CRUD and presentation that share no state with the protocols above beyond
  identifiers.
* The in-memory job queue, which the agent-only architecture no longer fills.
* WebSocket broadcasts: best effort, they change no state.
* The analysis tools, the matching of files with pipelines, parsing of manifests,
  flow analytics: computations on lists, of which the models keep the outcome.
* Steps inside a modelled operation: the refusal of a finalization whose checksum or
  content is wrong (`chunked_upload_service.py:527`; the client takes it as any other
  refusal), a stop between the two commits of `update_validation_status`
  (`inventory_service.py:552`, `562`), and whether an alert that the debounce
  suppresses is another one that members did see (`AgentAlerts` counts it as told).
* Within the modelled components: display-graph jobs (no collection), the
  completion of connectivity tests in the queue (they are in `CollectionAccess`),
  statistics, searches, byte counts, encryption, and every payload.
