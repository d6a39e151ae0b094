---------------------------- MODULE ResultStore ----------------------------
(***************************************************************************)
(* The results of one tool on one collection: how they are made by jobs    *)
(* (with the NO_CHANGE shortcut) and by the agent's CLI, and how they are  *)
(* unmade by the cleanup of intermediate copies, retention and users.      *)
(*                                                                         *)
(* A result's identifier is the order of completion (completed_at).  A row *)
(* that is deleted keeps its fields with live = FALSE, so that what refers *)
(* to it can still be compared with what it was.                           *)
(*                                                                         *)
(* A Version is a state of everything the Input State hash covers (files   *)
(* and configuration); the hash of v is written v, and 0 is a NULL hash.   *)
(***************************************************************************)
EXTENDS Naturals, FiniteSets

CONSTANTS
  Versions,     \* input states of the collection, positive numbers
  Inventory,    \* the collection has FileInfo from an inventory import
  CliRuns,      \* users run the tool from the agent's command line, too
  UserDeletes,  \* users delete results
  Retention,    \* the retention periods of the team are limited
  Crashes,      \* a cleanup may die between two of its commits
  Preserve,     \* preserve_per_collection
  BatchSize,    \* CleanupService.batch_size
  MaxResults    \* bound: results ever created

ConstantsAssumption ==
  /\ Versions \subseteq Nat \ {0}
  /\ {Inventory, CliRuns, UserDeletes, Retention, Crashes} \subseteq BOOLEAN
  /\ Preserve \in Nat \ {0}
  /\ BatchSize \in Nat \ {0}
  /\ MaxResults \in Nat

VARIABLES
  results,  \* results[i]: the i-th result to be completed
  files,    \* the input state of the collection now
  job,      \* the claimed job of the target and the agent that executes it
  cli,      \* a run of the agent's CLI on the target
  cleaner,  \* the retention run of a job creation
  metrics   \* the team's storage_metrics row

vars == <<results, files, job, cli, cleaner, metrics>>

ResultIds == 1 .. MaxResults
Success == {"COMPLETED", "NO_CHANGE"}

(* The check constraints of the table: copies, and only they, refer to a   *)
(* result (download_report_from).  results_json was computed from data.    *)
Result ==
  [kind: {"none", "COMPLETED", "FAILED"}, live: BOOLEAN,
   hash: Versions \cup {0}, data: Versions \cup {0}, from: {0}]
  \cup
  [kind: {"NO_CHANGE"}, live: BOOLEAN,
   hash: Versions \cup {0}, data: Versions \cup {0}, from: ResultIds]

NoResult == [kind |-> "none", live |-> FALSE, hash |-> 0, data |-> 0, from |-> 0]

(* A run of the tool: the previous result it was told of, the listing it   *)
(* holds, and the hash it will report.                                     *)
Run == [phase: {"idle", "claimed", "listed", "unchanged", "execute", "done"},
        prev: ResultIds \cup {0}, prevHash: Versions \cup {0},
        listing: Versions \cup {0}, hash: Versions \cup {0}]

NoRun == [phase |-> "idle", prev |-> 0, prevHash |-> 0, listing |-> 0, hash |-> 0]

(* The tally is CleanupStats: results deleted by this run.                 *)
Cleaner == [phase: {"idle", "select", "delete"}, cut: 0 .. MaxResults,
            keep: SUBSET ResultIds, original: Nat, copy: Nat]

NoCleanup == [phase |-> "idle", cut |-> 0, keep |-> {}, original |-> 0, copy |-> 0]

Metrics == [generated: Nat, original: Nat, copy: Nat]

TypeOK == /\ results \in [ResultIds -> Result]
          /\ files \in Versions
          /\ job \in Run
          /\ cli \in Run
          /\ cleaner \in Cleaner
          /\ metrics \in Metrics

Init == /\ results = [i \in ResultIds |-> NoResult]
        /\ files \in Versions
        /\ job = NoRun
        /\ cli = NoRun
        /\ cleaner = NoCleanup
        /\ metrics = [generated |-> 0, original |-> 0, copy |-> 0]

-----------------------------------------------------------------------------
(* Queries on the table.                                                   *)

Stored == {i \in ResultIds : results[i].kind # "none"}
Live == {i \in ResultIds : results[i].live}
Successes == {i \in Live : results[i].kind \in Success}
Copies == {i \in Live : results[i].kind = "NO_CHANGE"}

(* The identifier of the next result (empty: the bound is used up)         *)
Fresh == {i \in ResultIds : /\ results[i].kind = "none"
                            /\ \A k \in ResultIds : k < i => results[k].kind # "none"}

Newer(S, i) == {k \in S : k > i}

(* The newest successful result, as a set of at most one                   *)
FindPrevious == {i \in Successes : Newer(Successes, i) = {}}

Previous(run, i) == [run EXCEPT !.prev = i, !.prevHash = results[i].hash]
NoPrevious(run) == [run EXCEPT !.prev = 0, !.prevHash = 0]

(* The run that is told of the newest success, if there is one             *)
AskPrevious(run) ==
  IF FindPrevious = {} THEN {NoPrevious(run)} ELSE {Previous(run, i) : i \in FindPrevious}

(* check_no_change: there is a previous result with the same hash          *)
SameState(run, h) == run.prev # 0 /\ run.prevHash # 0 /\ run.prevHash = h

(* Mutant: a copy of a copy refers to the copy.                            *)
FromSource(i) == i

(* Where the report of a copy of result i is found: one level is followed, *)
(* for copies are never made of copies.                                    *)
DownloadFrom(i) == IF results[i].from # 0 THEN results[i].from ELSE i

(* The data behind the report that a user gets with result i; 0: not found *)
GetReport(i) ==
  LET source == DownloadFrom(i)
  IN IF results[source].live /\ results[source].kind = "COMPLETED"
     THEN results[source].data ELSE 0

NewResult(kind, h, v) == [kind |-> kind, live |-> TRUE, hash |-> h, data |-> v, from |-> 0]
CopyOf(i, h) == [kind |-> "NO_CHANGE", live |-> TRUE, hash |-> h,
                 data |-> results[i].data, from |-> DownloadFrom(i)]

Without(rs, S) == [i \in ResultIds |-> [rs[i] EXCEPT !.live = rs[i].live /\ i \notin S]]

(* _cleanup_intermediate_copies: the older copies of the same original     *)
IntermediateCopies(i) == {k \in Copies : results[k].from = DownloadFrom(i)}

(* Mutant: the copies that are cleaned up are not counted as purged.       *)
CountReport(purged) == [metrics EXCEPT !.generated = @ + 1]

(* increment_on_completion, and the purged copies of the same transaction  *)
CountCompletion(purged) ==
  [metrics EXCEPT !.generated = @ + 1, !.copy = @ + Cardinality(purged)]

(* The tables after a job completed with a copy of result i                *)
CompleteWithCopy(i, h) ==
  \E n \in Fresh :
    /\ results' = [Without(results, IntermediateCopies(i)) EXCEPT ![n] = CopyOf(i, h)]
    /\ metrics' = CountCompletion(IntermediateCopies(i))

-----------------------------------------------------------------------------
(* The collection.                                                         *)

ChangeFiles == /\ files' \in Versions \ {files}
               /\ UNCHANGED <<results, job, cli, cleaner, metrics>>

-----------------------------------------------------------------------------
(* A job on the target.  The job queue sees to it that there is one at a   *)
(* time, and that only its holder reports (JobQueue).                      *)

(* Mutant: the tool reads the collection again even with cached FileInfo.  *)
ReadNow(run) == files

(* What the tool analyses: the FileInfo the job was handed out with, or a  *)
(* listing of its own, made after the one the hash was computed from.      *)
Analysed(run) == IF Inventory THEN run.listing ELSE files

(* claim_job hands the job out, with the inventory's FileInfo if there is  *)
(* any.                                                                    *)
ClaimJob == /\ job.phase = "idle"
            /\ \E run \in AskPrevious(NoRun) :
                 /\ ~(Inventory /\ SameState(run, files))
                 /\ job' = [run EXCEPT !.phase = "claimed",
                                       !.listing = IF Inventory THEN files ELSE 0]
            /\ UNCHANGED <<results, files, cli, cleaner, metrics>>

(* _try_server_side_no_change: claim_job answers the job itself.           *)
CompleteServerSide ==
  /\ job.phase = "idle"
  /\ Inventory
  /\ \E run \in AskPrevious(NoRun) : /\ SameState(run, files)
                                     /\ CompleteWithCopy(run.prev, files)
  /\ UNCHANGED <<files, job, cli, cleaner>>

(* _check_no_change computes the hash ...                                  *)
ListFiles == /\ job.phase = "claimed"
             /\ LET seen == IF Inventory THEN job.listing ELSE files
                IN job' = [job EXCEPT !.phase = "listed", !.listing = seen, !.hash = seen]
             /\ UNCHANGED <<results, files, cli, cleaner, metrics>>

(* ... and compares it with that of the previous result; a listing that    *)
(* fails leaves the job without a hash.                                    *)
CheckNoChange ==
  /\ \/ /\ job.phase = "listed"
        /\ job' = [job EXCEPT !.phase = IF SameState(job, job.hash) THEN "unchanged"
                                                                    ELSE "execute"]
     \/ /\ job.phase = "claimed"
        /\ job' = [job EXCEPT !.phase = "execute"]
  /\ UNCHANGED <<results, files, cli, cleaner, metrics>>

(* complete_job_no_change: the source must exist and have the hash.        *)
CompleteJobNoChange ==
  /\ job.phase = "unchanged"
  /\ job.prev \in Live
  /\ results[job.prev].hash \in {0, job.hash}
  /\ CompleteWithCopy(job.prev, job.hash)
  /\ job' = NoRun
  /\ UNCHANGED <<files, cli, cleaner>>

(* The server refuses (the source is gone), or the request fails: the tool *)
(* is run after all, and reports no hash.                                  *)
FallBack == /\ job.phase = "unchanged"
            /\ job' = [job EXCEPT !.phase = "execute", !.hash = 0]
            /\ UNCHANGED <<results, files, cli, cleaner, metrics>>

ExecuteTool == /\ job.phase = "execute"
               /\ job' = [job EXCEPT !.phase = "done", !.listing = Analysed(job)]
               /\ UNCHANGED <<results, files, cli, cleaner, metrics>>

(* complete_job, fail_job: a result either way                             *)
CompleteJob ==
  /\ job.phase = "done"
  /\ \E n \in Fresh :
       results' = [results EXCEPT ![n] = NewResult("COMPLETED", job.hash, job.listing)]
  /\ metrics' = CountCompletion({})
  /\ job' = NoRun
  /\ UNCHANGED <<files, cli, cleaner>>

FailJob ==
  /\ job.phase \in {"execute", "done"}
  /\ \E n \in Fresh : results' = [results EXCEPT ![n] = NewResult("FAILED", 0, 0)]
  /\ metrics' = CountCompletion({})
  /\ job' = NoRun
  /\ UNCHANGED <<files, cli, cleaner>>

(* The job is released or cancelled, or its agent dies.                    *)
LoseJob == /\ job.phase # "idle"
           /\ job' = NoRun
           /\ UNCHANGED <<results, files, cli, cleaner, metrics>>

-----------------------------------------------------------------------------
(* The agent's CLI: list once, ask, then record or analyse and upload.     *)

CliPrepare == /\ CliRuns
              /\ cli.phase = "idle"
              /\ cli' = [NoRun EXCEPT !.phase = "listed", !.listing = files, !.hash = files]
              /\ UNCHANGED <<results, files, job, cleaner, metrics>>

(* An answer that fails, --force or --offline lead to an analysis.         *)
CliCheck ==
  /\ cli.phase = "listed"
  /\ \/ \E run \in AskPrevious(cli) :
          cli' = [run EXCEPT !.phase = IF SameState(run, run.hash) THEN "unchanged" ELSE "done"]
     \/ cli' = [cli EXCEPT !.phase = "done"]
  /\ UNCHANGED <<results, files, job, cleaner, metrics>>

(* agent_record_no_change_result: neither hash nor older copies are looked *)
(* at, and nothing is counted.                                             *)
CliRecordNoChange ==
  /\ cli.phase = "unchanged"
  /\ cli.prev \in Live
  /\ \E n \in Fresh : results' = [results EXCEPT ![n] = CopyOf(cli.prev, cli.hash)]
  /\ cli' = NoRun
  /\ UNCHANGED <<files, job, cleaner, metrics>>

(* agent_upload_offline_result                                             *)
CliUpload ==
  /\ cli.phase = "done"
  /\ \E n \in Fresh :
       results' = [results EXCEPT ![n] = NewResult("COMPLETED", cli.hash, cli.listing)]
  /\ cli' = NoRun
  /\ UNCHANGED <<files, job, cleaner, metrics>>

CliGiveUp == /\ cli.phase # "idle"
             /\ cli' = NoRun
             /\ UNCHANGED <<results, files, job, cleaner, metrics>>

-----------------------------------------------------------------------------
(* Retention, which every job creation runs first, and deletion by users.  *)

Counted(S) == [cleaner EXCEPT !.original = @ + Cardinality(S \ Copies),
                              !.copy = @ + Cardinality(S \cap Copies)]

(* cleanup_failed_jobs deletes failed jobs that are old enough with their  *)
(* results, and the cutoff of cleanup_old_results is set.                  *)
StartCleanup ==
  /\ Retention
  /\ cleaner.phase = "idle"
  /\ \E failedCut, cut \in Stored :
       LET old == {i \in Live : results[i].kind = "FAILED" /\ i <= failedCut}
       IN /\ results' = Without(results, old)
          /\ cleaner' = [Counted(old) EXCEPT !.phase = "select", !.cut = cut]
  /\ UNCHANGED <<files, job, cli, metrics>>

(* Mutant: failed results take the place of successful ones.               *)
NewestOfAnyStatus == {i \in Live : Cardinality(Newer(Live, i)) < Preserve}

(* _get_preserved_result_ids                                               *)
Preserved == {i \in Successes : Cardinality(Newer(Successes, i)) < Preserve}

SelectPreserved == /\ cleaner.phase = "select"
                   /\ cleaner' = [cleaner EXCEPT !.phase = "delete", !.keep = Preserved]
                   /\ UNCHANGED <<results, files, job, cli, metrics>>

Expired == {i \in Successes : i <= cleaner.cut /\ i \notin cleaner.keep}

(* One batch of cleanup_old_results: as many rows as the limit allows      *)
DeleteBatch ==
  /\ cleaner.phase = "delete"
  /\ Expired # {}
  /\ \E S \in SUBSET Expired :
       /\ \/ S = Expired /\ Cardinality(S) <= BatchSize
          \/ Cardinality(S) = BatchSize
       /\ results' = Without(results, S)
       /\ cleaner' = Counted(S)
  /\ UNCHANGED <<files, job, cli, metrics>>

(* _update_storage_metrics, in a commit of its own                         *)
UpdateMetrics ==
  /\ cleaner.phase = "delete"
  /\ Expired = {}
  /\ metrics' = [metrics EXCEPT !.original = @ + cleaner.original,
                                !.copy = @ + cleaner.copy]
  /\ cleaner' = NoCleanup
  /\ UNCHANGED <<results, files, job, cli>>

CrashCleanup == /\ Crashes
                /\ cleaner.phase # "idle"
                /\ cleaner' = NoCleanup
                /\ UNCHANGED <<results, files, job, cli, metrics>>

(* ResultService.delete_result                                             *)
DeleteResult == /\ UserDeletes
                /\ \E i \in Live : results' = Without(results, {i})
                /\ UNCHANGED <<files, job, cli, cleaner, metrics>>

-----------------------------------------------------------------------------
RunJob == \/ ClaimJob \/ CompleteServerSide \/ ListFiles \/ CheckNoChange
          \/ CompleteJobNoChange \/ FallBack \/ ExecuteTool
          \/ CompleteJob \/ FailJob \/ LoseJob
RunCli == CliPrepare \/ CliCheck \/ CliRecordNoChange \/ CliUpload \/ CliGiveUp
Cleanup == StartCleanup \/ SelectPreserved \/ DeleteBatch \/ UpdateMetrics \/ CrashCleanup

Next == ChangeFiles \/ RunJob \/ RunCli \/ Cleanup \/ DeleteResult

Spec == Init /\ [][Next]_vars

-----------------------------------------------------------------------------
(* Properties.                                                             *)

(* A copy never refers to a copy: get_report follows one reference only,   *)
(* and would find no report behind a second one.                           *)
ReferencesFlat ==
  \A i \in Copies : results[i].from # 0 /\ results[results[i].from].kind = "COMPLETED"

(* A copy has the hash of the original it refers to, which is no copy, and *)
(* the report that get_report serves for any result is that of its own     *)
(* data, or not found: through chains of copies, deleted sources and both  *)
(* ways of recording that nothing changed.                                 *)
CopiesFaithful ==
  /\ ReferencesFlat
  /\ \A i \in Copies : results[i].hash = results[results[i].from].hash
  /\ \A i \in Successes : GetReport(i) \in {results[i].data, 0}

(* The newest success of all is never deleted by the server of its own     *)
(* accord: neither by retention, whose selection and batches other         *)
(* completions overtake, nor by the cleanup of copies.                     *)
NewestSurvives ==
  \A i \in ResultIds :
    /\ results[i].kind \in Success
    /\ \A k \in Newer(ResultIds, i) : results[k].kind \notin Success
    => results[i].live

(* Jobs alone leave at most one copy of an original: the newest.           *)
OneCopyPerOriginal ==
  \A i, k \in Copies : results[i].from = results[k].from => i = k

(* Every result a job generated is stored, or counted as purged in the     *)
(* metrics or in the tally of the cleanup under way.                       *)
Accounted ==
  metrics.generated = Cardinality(Live) + metrics.original + metrics.copy
                      + cleaner.original + cleaner.copy

(* A result that names an input state was computed from that state.        *)
DataMatchesHash ==
  \A i \in Successes : results[i].hash # 0 => results[i].data = results[i].hash

(* docs/prd/022-storage-optimization-analysis-results.md:23 "First and     *)
(* latest results per Input State are always preserved": a copy of a       *)
(* state's first result implies that first result.                         *)
FirstPreserved == \A i \in Copies : results[results[i].from].live

(* specs/022-storage-optimization/spec.md:210 "preserve minimum results    *)
(* ... regardless of age or status": retention never takes a result away   *)
(* while no more than Preserve results are left.                           *)
MinimumPreserved ==
  [][Cleanup => Live' = Live \/ Cardinality(Live') >= Preserve]_vars

(* specs/022-storage-optimization/spec.md:231 "increment                   *)
(* total_reports_generated on each job completion"                         *)
ReportsCounted ==
  metrics.generated = Cardinality(Stored)
=============================================================================
