------------------------------ MODULE MCResults ------------------------------
(***************************************************************************)
(* ResultStore with jobs, the command line and retention and, as guests,   *)
(* instances of ResultStore, Pipelines, ChunkedUpload and OfflineSync:     *)
(* what analyses follow, and how their results come about and are stored,  *)
(* in one run of TLC. Each behaviour is one of the instance that its       *)
(* variable instance names.                                                *)
(***************************************************************************)
EXTENDS ResultStore

CONSTANTS w1, w2, r1, r2, s1, h1, h2, p1, p2, t1, x, y, Null

VARIABLES
  instance,  \* the instance that the behaviour is one of
  stored, state, run, offline, purge, counts, sessions, chunks, expired, finalized, temporary,
  created, client, late, report, local, jobs, syncing, handler, content, faults, pipeline, history,
  collection, queued, analysed, request

resultStoreVars == <<stored, state, run, offline, purge, counts>>
chunkedUploadVars == <<sessions, chunks, expired, finalized, temporary, created, client, late,
                       report>>
offlineSyncVars == <<local, jobs, syncing, handler, content, faults>>
pipelinesVars == <<pipeline, history, collection, queued, analysed, request>>
varsOne == <<instance, vars, resultStoreVars, chunkedUploadVars, offlineSyncVars, pipelinesVars>>

(* Results of jobs only, with retention in batches of one.                 *)
OnlyJobs == INSTANCE ResultStore WITH
  Versions <- {1}, Inventory <- FALSE, CliRuns <- FALSE, UserDeletes <- FALSE, Retention <- TRUE,
  Crashes <- FALSE, Preserve <- 1, BatchSize <- 1, MaxResults <- 4, results <- stored,
  files <- state, job <- run, cli <- offline, cleaner <- purge, metrics <- counts
(* Jobs with FileInfo from an inventory.                                   *)
FileInfo == INSTANCE ResultStore WITH
  Versions <- {1, 2}, Inventory <- TRUE, CliRuns <- FALSE, UserDeletes <- FALSE, Retention <- TRUE,
  Crashes <- FALSE, Preserve <- 1, BatchSize <- 1, MaxResults <- 3, results <- stored,
  files <- state, job <- run, cli <- offline, cleaner <- purge, metrics <- counts
(* Two workers, which may restart, and sessions that may expire.           *)
Upload == INSTANCE ChunkedUpload WITH
  Workers <- {w1, w2}, Parts <- 2, Chunks <- 2, MaxRetries <- 2, Expiry <- TRUE, Restarts <- TRUE,
  MaxUploads <- 3, files <- temporary, job <- report
(* One sync and one request at a time, and a server that keeps running.    *)
Sync == INSTANCE OfflineSync WITH
  Results <- {r1, r2}, Chunked <- {r1}, Syncs <- {s1}, Handlers <- {h1}, Kills <- TRUE,
  Stops <- FALSE, MaxFaults <- 3, MaxJobs <- 6, cli <- syncing
(* One request on pipelines at a time.                                     *)
Edits == INSTANCE Pipelines WITH
  Pipelines <- {p1, p2}, Teams <- {t1}, Collections <- {}, Handlers <- {h1}, Contents <- {x, y},
  Valids <- {x}, MaxVersion <- 2, results <- analysed, job <- queued, handler <- request

ASSUME ConstantsAssumptions ==
  /\ ConstantsAssumption
  /\ OnlyJobs!ConstantsAssumption
  /\ FileInfo!ConstantsAssumption
  /\ Upload!ConstantsAssumption
  /\ Sync!ConstantsAssumption
  /\ Edits!ConstantsAssumption

(* Variables of components that the instance is not of.                    *)
Absent(v) == v = "absent"
NoResultStore == Absent(stored) /\ Absent(state) /\ Absent(run) /\ Absent(offline) /\
                 Absent(purge) /\ Absent(counts)
NoChunkedUpload == Absent(sessions) /\ Absent(chunks) /\ Absent(expired) /\ Absent(finalized) /\
                   Absent(temporary) /\ Absent(created) /\ Absent(client) /\ Absent(late) /\
                   Absent(report)
NoOfflineSync == Absent(local) /\ Absent(jobs) /\ Absent(syncing) /\ Absent(handler) /\
                 Absent(content) /\ Absent(faults)
NoPipelines == Absent(pipeline) /\ Absent(history) /\ Absent(collection) /\ Absent(queued) /\
               Absent(analysed) /\ Absent(request)

InitOne ==
  \/ /\ instance = "retention" /\ Init /\ NoResultStore /\ NoChunkedUpload /\ NoOfflineSync /\ NoPipelines
  \/ /\ instance = "only_jobs" /\ OnlyJobs!Init /\ Init /\ NoChunkedUpload /\ NoOfflineSync /\ NoPipelines
  \/ /\ instance = "file_info" /\ FileInfo!Init /\ Init /\ NoChunkedUpload /\ NoOfflineSync /\ NoPipelines
  \/ /\ instance = "upload" /\ Upload!Init /\ Init /\ NoResultStore /\ NoOfflineSync /\ NoPipelines
  \/ /\ instance = "sync" /\ Sync!Init /\ Init /\ NoResultStore /\ NoChunkedUpload /\ NoPipelines
  \/ /\ instance = "edits" /\ Edits!Init /\ Init /\ NoResultStore /\ NoChunkedUpload /\ NoOfflineSync

NextOne ==
  \/ /\ instance = "retention" /\ Next
     /\ UNCHANGED <<instance, resultStoreVars, chunkedUploadVars, offlineSyncVars, pipelinesVars>>
  \/ /\ instance = "only_jobs" /\ OnlyJobs!Next
     /\ UNCHANGED <<instance, vars, chunkedUploadVars, offlineSyncVars, pipelinesVars>>
  \/ /\ instance = "file_info" /\ FileInfo!Next
     /\ UNCHANGED <<instance, vars, chunkedUploadVars, offlineSyncVars, pipelinesVars>>
  \/ /\ instance = "upload" /\ Upload!Next
     /\ UNCHANGED <<instance, vars, resultStoreVars, offlineSyncVars, pipelinesVars>>
  \/ /\ instance = "sync" /\ Sync!Next
     /\ UNCHANGED <<instance, vars, resultStoreVars, chunkedUploadVars, pipelinesVars>>
  \/ /\ instance = "edits" /\ Edits!Next
     /\ UNCHANGED <<instance, vars, resultStoreVars, chunkedUploadVars, offlineSyncVars>>

SpecOne == InitOne /\ [][NextOne]_varsOne

-----------------------------------------------------------------------------
(* Properties of the guests, in the instances that they are checked in.    *)

(* Every result a job generated is stored, or counted as purged in the     *)
(* metrics or in the tally of the cleanup under way.                       *)
JobsAccounted == instance = "only_jobs" => OnlyJobs!Accounted

(* A result that names an input state was computed from that state.        *)
FileInfoMatches == instance = "file_info" => FileInfo!DataMatchesHash

(* An upload is in one place: open in one worker, or finalized in one, and *)
(* nothing that is finalized is open for more chunks or for another        *)
(* finalization, whatever arrives late or twice.                           *)
OneStage == instance = "upload" => Upload!OneStage

(* A result is stored once.                                                *)
StoredOnce == instance = "sync" => Sync!StoredOnce

(* With one request at a time: at most one pipeline is the default, it is  *)
(* active, and what is active is valid, whatever is edited, activated and  *)
(* made default in between.                                                *)
DefaultUsable == instance = "edits" => Edits!DefaultUsable
=============================================================================
