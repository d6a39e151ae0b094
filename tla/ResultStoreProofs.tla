------------------------- MODULE ResultStoreProofs -------------------------
(* What a result once says it says for ever, and copies say what their     *)
(* originals do.  From this follow the reports that users get; what the    *)
(* cleanup holds makes sure that the newest success outlives it.           *)
EXTENDS ResultStore, FiniteSetTheorems, TLAPS

(* Results are completed one after the other.                              *)
InOrder == \A i, k \in ResultIds : i < k /\ results[k].kind # "none" => results[i].kind # "none"

(* What is stored of the original of a copy, whether it still lives or not *)
Agrees(copy, original) == /\ original.kind = "COMPLETED"
                          /\ copy.hash = original.hash
                          /\ copy.data = original.data
Sourced == \A i \in ResultIds : results[i].kind = "NO_CHANGE"
                                  => Agrees(results[i], results[results[i].from])

(* A run knows its previous result as it is, and reports that nothing      *)
(* changed only if its hash is that of this result.                        *)
Informed(run) ==
  /\ run.prev # 0 => /\ results[run.prev].kind \in Success
                     /\ run.prevHash = results[run.prev].hash
  /\ run.phase = "unchanged" => SameState(run, run.hash)

IInv == TypeOK /\ InOrder /\ Sourced /\ Informed(job) /\ Informed(cli)

-----------------------------------------------------------------------------
(* What never changes: a result keeps what it says.                        *)
Keeps(rs) == \A i \in ResultIds : results[i].kind # "none" =>
                /\ rs[i].kind = results[i].kind
                /\ rs[i].hash = results[i].hash
                /\ rs[i].data = results[i].data
                /\ rs[i].from = results[i].from

ResultsOK == results \in [ResultIds -> Result] /\ InOrder /\ Sourced

LEMMA IdsAreNumbers ==
  ASSUME ConstantsAssumption
  PROVE  ResultIds \subseteq Nat /\ 0 \notin ResultIds
  BY DEF ResultIds, ConstantsAssumption

LEMMA WithoutKeeps ==
  ASSUME ResultsOK, NEW S
  PROVE  /\ Without(results, S) \in [ResultIds -> Result]
         /\ \A i \in ResultIds :
              /\ Without(results, S)[i].kind = results[i].kind
              /\ Without(results, S)[i].hash = results[i].hash
              /\ Without(results, S)[i].data = results[i].data
              /\ Without(results, S)[i].from = results[i].from
              /\ Without(results, S)[i].live = (results[i].live /\ i \notin S)
  <1>1. ASSUME NEW i \in ResultIds
        PROVE  LET r == [results[i] EXCEPT !.live = results[i].live /\ i \notin S]
               IN  /\ r \in Result
                   /\ r.kind = results[i].kind /\ r.hash = results[i].hash
                   /\ r.data = results[i].data /\ r.from = results[i].from
                   /\ r.live = (results[i].live /\ i \notin S)
    <2> DEFINE b == results[i].live /\ i \notin S
    <2>1. b \in BOOLEAN
      OBVIOUS
    <2> HIDE DEF b
    <2>2. results[i] \in Result
      BY DEF ResultsOK
    <2>3. LET r == [results[i] EXCEPT !.live = b]
          IN  /\ r \in Result
              /\ r.kind = results[i].kind /\ r.hash = results[i].hash
              /\ r.data = results[i].data /\ r.from = results[i].from
              /\ r.live = b
      BY <2>1, <2>2 DEF Result
    <2>4. QED
      BY <2>3 DEF b
  <1>2. QED
    BY <1>1 DEF Without

LEMMA DeletionKeeps ==
  ASSUME ResultsOK, NEW S, results' = Without(results, S)
  PROVE  ResultsOK' /\ Keeps(results')
  <1>1. results' \in [ResultIds -> Result] /\ Keeps(results')
    BY WithoutKeeps DEF Keeps
  <1>2. InOrder'
    BY WithoutKeeps DEF ResultsOK, InOrder
  <1>3. Sourced'
    <2> SUFFICES ASSUME NEW i \in ResultIds, results'[i].kind = "NO_CHANGE"
                 PROVE  Agrees(results'[i], results'[results'[i].from])
      BY DEF Sourced
    <2>1. results'[i].from \in ResultIds /\ results'[i].from = results[i].from
      BY <1>1, WithoutKeeps DEF Result
    <2>2. QED
      BY <2>1, WithoutKeeps DEF ResultsOK, Sourced, Agrees
  <1>4. QED
    BY <1>1, <1>2, <1>3 DEF ResultsOK

(* A result is added, and older ones may be deleted.                       *)
LEMMA AdditionKeeps ==
  ASSUME ResultsOK, NEW S, NEW n \in Fresh, NEW new \in Result, new.kind # "none",
         new.kind = "NO_CHANGE" => /\ results[new.from].kind = "COMPLETED"
                                   /\ Agrees(new, results[new.from]),
         results' = [Without(results, S) EXCEPT ![n] = new]
  PROVE  ResultsOK' /\ Keeps(results')
  <1>1. n \in ResultIds /\ results[n].kind = "none"
    BY DEF Fresh
  <1>2. results' \in [ResultIds -> Result]
    BY <1>1, WithoutKeeps
  <1>3. /\ results'[n] = new
        /\ \A i \in ResultIds \ {n} : results'[i] = Without(results, S)[i]
    BY <1>1, WithoutKeeps
  <1>4. Keeps(results')
    BY <1>1, <1>3, WithoutKeeps DEF Keeps
  <1>5. InOrder'
    <2> SUFFICES ASSUME NEW i \in ResultIds, NEW k \in ResultIds, i < k,
                        results'[k].kind # "none"
                 PROVE  results'[i].kind # "none"
      BY DEF InOrder
    <2>1. CASE k = n
      BY <2>1, <1>3, <1>4 DEF Fresh, Keeps
    <2>2. CASE k # n
      BY <2>2, <1>3, <1>4, WithoutKeeps DEF ResultsOK, InOrder, Keeps
    <2>3. QED
      BY <2>1, <2>2
  <1>6. Sourced'
    <2> SUFFICES ASSUME NEW i \in ResultIds, results'[i].kind = "NO_CHANGE"
                 PROVE  Agrees(results'[i], results'[results'[i].from])
      BY DEF Sourced
    <2>1. results'[i].from \in ResultIds
      BY <1>2 DEF Result
    <2>2. Agrees(results'[i], results[results'[i].from])
      BY <1>3, WithoutKeeps DEF ResultsOK, Sourced, Agrees
    <2>3. QED
      BY <2>1, <2>2, <1>4 DEF Keeps, Agrees
  <1>7. QED
    BY <1>2, <1>4, <1>5, <1>6 DEF ResultsOK

(* Nothing is deleted when a result is added without cleanup.              *)
LEMMA WithoutNothing ==
  ASSUME ResultsOK
  PROVE  Without(results, {}) = results
  <1>1. \A i \in ResultIds : [results[i] EXCEPT !.live = results[i].live /\ i \notin {}] = results[i]
    BY DEF ResultsOK, Result
  <1>2. QED
    BY <1>1 DEF Without, ResultsOK

LEMMA InformedStays ==
  ASSUME NEW run \in Run, Informed(run), Keeps(results')
  PROVE  Informed(run)'
  BY DEF Informed, Keeps, Success, Run, SameState

-----------------------------------------------------------------------------
(* What is stored of a new result.                                         *)

LEMMA NewResultFits ==
  ASSUME NEW kind \in {"COMPLETED", "FAILED"}, NEW h \in Versions \cup {0}, NEW v \in Versions \cup {0}
  PROVE  /\ NewResult(kind, h, v) \in Result
         /\ NewResult(kind, h, v).kind = kind
         /\ NewResult(kind, h, v).hash = h /\ NewResult(kind, h, v).data = v
  BY DEF NewResult, Result

(* A copy of a success with its hash agrees with the original.             *)
LEMMA CopyFits ==
  ASSUME ConstantsAssumption, ResultsOK, NEW i \in ResultIds, results[i].kind \in Success
  PROVE  LET copy == CopyOf(i, results[i].hash)
         IN  /\ copy \in Result /\ copy.kind = "NO_CHANGE"
             /\ copy.from = DownloadFrom(i) /\ copy.hash = results[i].hash
             /\ copy.data = results[i].data
             /\ results[copy.from].kind = "COMPLETED"
             /\ Agrees(copy, results[copy.from])
  <1> DEFINE copy == CopyOf(i, results[i].hash)
  <1>1. /\ copy.kind = "NO_CHANGE" /\ copy.live = TRUE
        /\ copy.from = DownloadFrom(i)
        /\ copy.hash = results[i].hash /\ copy.data = results[i].data
    BY DEF CopyOf
  <1>2. CASE results[i].kind = "COMPLETED"
    <2>1. results[i].from = 0 /\ results[i].hash \in Versions \cup {0}
          /\ results[i].data \in Versions \cup {0}
      BY <1>2 DEF ResultsOK, Result
    <2>2. DownloadFrom(i) = i
      BY <2>1 DEF DownloadFrom
    <2>3. copy \in Result
      BY <2>1, <2>2 DEF CopyOf, Result
    <2>4. QED
      BY <1>1, <1>2, <2>2, <2>3 DEF Agrees
  <1>3. CASE results[i].kind = "NO_CHANGE"
    <2>1. results[i].from \in ResultIds /\ results[i].hash \in Versions \cup {0}
          /\ results[i].data \in Versions \cup {0}
      BY <1>3 DEF ResultsOK, Result
    <2>2. DownloadFrom(i) = results[i].from
      BY <2>1, IdsAreNumbers DEF DownloadFrom
    <2>3. copy \in Result
      BY <2>1, <2>2 DEF CopyOf, Result
    <2>4. QED
      BY <1>1, <1>3, <2>2, <2>3 DEF ResultsOK, Sourced, Agrees
  <1>4. QED
    BY <1>2, <1>3 DEF Success

-----------------------------------------------------------------------------
(* What a run is told.                                                     *)

LEMMA AskedInformed ==
  ASSUME ConstantsAssumption, TypeOK, NEW run \in Run, run.phase # "unchanged",
         NEW told \in AskPrevious(run)
  PROVE  /\ told \in Run /\ told.phase = run.phase
         /\ told.listing = run.listing /\ told.hash = run.hash
         /\ Informed(told)
  <1>1. CASE told = NoPrevious(run)
    BY <1>1 DEF NoPrevious, Run, Informed
  <1>2. ASSUME NEW i \in FindPrevious, told = Previous(run, i)
        PROVE  /\ told \in Run /\ told.phase = run.phase
               /\ told.listing = run.listing /\ told.hash = run.hash
               /\ Informed(told)
    <2>1. i \in ResultIds /\ results[i].kind \in Success
      BY DEF FindPrevious, Successes, Live
    <2>2. results[i].hash \in Versions \cup {0}
      BY <2>1 DEF TypeOK, Result
    <2>3. QED
      BY <1>2, <2>1, <2>2 DEF Previous, Run, Informed
  <1>3. QED
    BY <1>1, <1>2 DEF AskPrevious

LEMMA NoRunFits == NoRun \in Run /\ NoRun.prev = 0 /\ NoRun.phase = "idle" /\ Informed(NoRun)
  BY DEF NoRun, Run, Informed

-----------------------------------------------------------------------------
(* Sets of results are finite.                                             *)
LEMMA Countable ==
  ASSUME ConstantsAssumption, NEW S \in SUBSET ResultIds
  PROVE  IsFiniteSet(S) /\ Cardinality(S) \in Nat
  <1>1. IsFiniteSet(ResultIds)
    BY FS_Interval DEF ResultIds, ConstantsAssumption
  <1>2. IsFiniteSet(S)
    BY <1>1, FS_Subset
  <1>3. QED
    BY <1>2, FS_CardinalityType

LEMMA InitIInv ==
  ASSUME ConstantsAssumption, Init
  PROVE  IInv
  <1>1. NoResult \in Result /\ NoResult.kind = "none" /\ NoResult.live = FALSE
    BY DEF NoResult, Result
  <1>2. results \in [ResultIds -> Result] /\ \A i \in ResultIds : results[i].kind = "none"
    BY <1>1 DEF Init
  <1>3. cleaner \in Cleaner
    BY DEF Init, NoCleanup, Cleaner, ConstantsAssumption
  <1>4. metrics \in Metrics
    BY DEF Init, Metrics
  <1>5. TypeOK
    BY <1>2, <1>3, <1>4, NoRunFits DEF TypeOK, Init
  <1>6. InOrder /\ Sourced
    BY <1>2 DEF InOrder, Sourced
  <1>7. QED
    BY <1>5, <1>6, NoRunFits DEF IInv, Init

(* A step that leaves the results alone.                                   *)
LEMMA SameResults ==
  ASSUME ResultsOK, results' = results
  PROVE  ResultsOK' /\ Keeps(results')
  BY DEF ResultsOK, InOrder, Sourced, Keeps

(* A step after which all runs are as they were, or informed.              *)
LEMMA IInvStep ==
  ASSUME IInv, ResultsOK', Keeps(results'), files' \in Versions,
         cleaner' \in Cleaner, metrics' \in Metrics,
         job' = job \/ (job' \in Run /\ Informed(job)'),
         cli' = cli \/ (cli' \in Run /\ Informed(cli)')
  PROVE  IInv'
  <1>1. job' \in Run /\ Informed(job)'
    BY DEF IInv, TypeOK, Informed, Keeps, Success, Run, SameState
  <1>2. cli' \in Run /\ Informed(cli)'
    BY DEF IInv, TypeOK, Informed, Keeps, Success, Run, SameState
  <1>3. QED
    BY <1>1, <1>2 DEF IInv, TypeOK, ResultsOK

(* A step of a job, or of the command line, that leaves the rest alone.    *)
LEMMA JobStep ==
  ASSUME IInv, job' \in Run, Informed(job)', UNCHANGED <<results, files, cli, cleaner, metrics>>
  PROVE  IInv'
  <1>0. cli' = cli
    OBVIOUS
  <1>1. ResultsOK' /\ Keeps(results')
    BY SameResults DEF IInv, TypeOK, ResultsOK
  <1>2. files' \in Versions /\ cleaner' \in Cleaner /\ metrics' \in Metrics
    BY DEF IInv, TypeOK
  <1>3. QED
    BY <1>0, <1>1, <1>2, IInvStep

LEMMA CliStep ==
  ASSUME IInv, cli' \in Run, Informed(cli)', UNCHANGED <<results, files, job, cleaner, metrics>>
  PROVE  IInv'
  <1>0. job' = job
    OBVIOUS
  <1>1. ResultsOK' /\ Keeps(results')
    BY SameResults DEF IInv, TypeOK, ResultsOK
  <1>2. files' \in Versions /\ cleaner' \in Cleaner /\ metrics' \in Metrics
    BY DEF IInv, TypeOK
  <1>3. QED
    BY <1>0, <1>1, <1>2, IInvStep

-----------------------------------------------------------------------------
(* The steps that complete results.                                        *)

LEMMA MetricsFit ==
  ASSUME NEW m \in Metrics, NEW g \in Nat, NEW c \in Nat
  PROVE  [m EXCEPT !.generated = g, !.copy = c] \in Metrics
  BY DEF Metrics

LEMMA CountFits ==
  ASSUME metrics \in Metrics, NEW S, Cardinality(S) \in Nat
  PROVE  CountCompletion(S) \in Metrics
  <1> DEFINE g == metrics.generated + 1
             c == metrics.copy + Cardinality(S)
  <1>1. g \in Nat /\ c \in Nat
    BY DEF Metrics
  <1>2. CountCompletion(S) = [metrics EXCEPT !.generated = g, !.copy = c]
    BY ZenonT(30) DEF CountCompletion
  <1> HIDE DEF g, c
  <1>3. [metrics EXCEPT !.generated = g, !.copy = c] \in Metrics
    BY <1>1, MetricsFit
  <1>4. QED
    BY <1>2, <1>3

(* A job completes: its row and the counts are written, the job is gone.   *)
LEMMA Completes ==
  ASSUME ConstantsAssumption, IInv, ResultsOK', Keeps(results'), metrics' \in Metrics,
         UNCHANGED <<files, cleaner>>, job' \in {job, NoRun}, cli' \in {cli, NoRun}
  PROVE  IInv'
  <1>1. files' \in Versions /\ cleaner' \in Cleaner
    BY DEF IInv, TypeOK
  <1>2. job' = job \/ (job' \in Run /\ Informed(job)')
    BY NoRunFits DEF Informed
  <1>3. cli' = cli \/ (cli' \in Run /\ Informed(cli)')
    BY NoRunFits DEF Informed
  <1>4. QED
    BY <1>1, <1>2, <1>3, IInvStep

LEMMA CompleteWithCopyKeeps ==
  ASSUME ConstantsAssumption, IInv, NEW i \in ResultIds, results[i].kind \in Success,
         CompleteWithCopy(i, results[i].hash)
  PROVE  ResultsOK' /\ Keeps(results') /\ metrics' \in Metrics
  <1>1. ResultsOK
    BY DEF IInv, TypeOK, ResultsOK
  <1> DEFINE copy == CopyOf(i, results[i].hash)
             purged == IntermediateCopies(i)
  <1>2. PICK n \in Fresh : results' = [Without(results, purged) EXCEPT ![n] = copy]
    BY DEF CompleteWithCopy
  <1>3. ResultsOK' /\ Keeps(results')
    <2>1. /\ copy \in Result /\ copy.kind = "NO_CHANGE"
          /\ results[copy.from].kind = "COMPLETED" /\ Agrees(copy, results[copy.from])
      BY <1>1, CopyFits
    <2> HIDE DEF copy, purged
    <2>2. QED
      BY <1>1, <1>2, <2>1, AdditionKeeps
  <1>4. Cardinality(purged) \in Nat
    BY Countable DEF IntermediateCopies, Copies, Live
  <1>5. metrics' = CountCompletion(purged)
    BY DEF CompleteWithCopy
  <1>6. metrics' \in Metrics
    BY <1>4, <1>5, CountFits DEF IInv, TypeOK
  <1>7. QED
    BY <1>3, <1>6

LEMMA NewResultKeeps ==
  ASSUME ConstantsAssumption, IInv, NEW kind \in {"COMPLETED", "FAILED"},
         NEW h \in Versions \cup {0}, NEW v \in Versions \cup {0},
         NEW n \in Fresh, results' = [results EXCEPT ![n] = NewResult(kind, h, v)]
  PROVE  ResultsOK' /\ Keeps(results')
  <1>1. ResultsOK
    BY DEF IInv, TypeOK, ResultsOK
  <1>2. results' = [Without(results, {}) EXCEPT ![n] = NewResult(kind, h, v)]
    BY <1>1, WithoutNothing
  <1> DEFINE new == NewResult(kind, h, v)
  <1>3. new \in Result /\ new.kind # "none" /\ new.kind # "NO_CHANGE"
    BY NewResultFits
  <1> HIDE DEF new
  <1>4. results' = [Without(results, {}) EXCEPT ![n] = new]
    BY <1>2 DEF new
  <1>5. QED
    BY <1>1, <1>3, <1>4, AdditionKeeps

LEMMA RunJobKeepsIInv ==
  ASSUME ConstantsAssumption, IInv, RunJob
  PROVE  IInv'
  <1>0. /\ files \in Versions /\ job \in Run /\ Informed(job)
        /\ TypeOK /\ metrics \in Metrics
    BY DEF IInv, TypeOK
  <1>1. CASE ClaimJob
    <2>1. PICK run \in AskPrevious(NoRun) :
            job' = [run EXCEPT !.phase = "claimed", !.listing = IF Inventory THEN files ELSE 0]
      BY <1>1 DEF ClaimJob
    <2>2. run \in Run /\ Informed(run)
      BY <1>0, AskedInformed, NoRunFits DEF NoRun
    <2>3. /\ job' \in Run /\ job'.phase = "claimed"
          /\ job'.prev = run.prev /\ job'.prevHash = run.prevHash
      BY <1>0, <2>1, <2>2 DEF Run
    <2>4. UNCHANGED <<results, files, cli, cleaner, metrics>>
      BY <1>1 DEF ClaimJob
    <2>5. Informed(job)'
      BY <2>2, <2>3, <2>4 DEF Informed
    <2>6. QED
      BY <2>3, <2>4, <2>5, JobStep
  <1>2. CASE CompleteServerSide
    <2>1. PICK run \in AskPrevious(NoRun) : SameState(run, files) /\ CompleteWithCopy(run.prev, files)
      BY <1>2 DEF CompleteServerSide
    <2>2. run \in Run /\ Informed(run)
      BY <1>0, AskedInformed, NoRunFits DEF NoRun
    <2>3. /\ run.prev \in ResultIds /\ results[run.prev].kind \in Success
          /\ files = results[run.prev].hash
      BY <2>1, <2>2 DEF SameState, Informed, Run
    <2>4. CompleteWithCopy(run.prev, results[run.prev].hash)
      BY <2>1, <2>3
    <2>5. ResultsOK' /\ Keeps(results') /\ metrics' \in Metrics
      BY <2>3, <2>4, CompleteWithCopyKeeps
    <2>6. UNCHANGED <<files, job, cli, cleaner>>
      BY <1>2 DEF CompleteServerSide
    <2>7. QED
      BY <2>5, <2>6, Completes
  <1>3. CASE ListFiles
    <2> DEFINE seen == IF Inventory THEN job.listing ELSE files
    <2>1. job' = [job EXCEPT !.phase = "listed", !.listing = seen, !.hash = seen]
      BY <1>3 DEF ListFiles
    <2>2. seen \in Versions \cup {0}
      BY <1>0 DEF Run
    <2> HIDE DEF seen
    <2>3. /\ job' \in Run /\ job'.phase = "listed"
          /\ job'.prev = job.prev /\ job'.prevHash = job.prevHash
      BY <1>0, <2>1, <2>2 DEF Run
    <2>4. UNCHANGED <<results, files, cli, cleaner, metrics>>
      BY <1>3 DEF ListFiles
    <2>5. Informed(job)'
      BY <1>0, <2>3, <2>4 DEF Informed
    <2>6. QED
      BY <2>3, <2>4, <2>5, JobStep
  <1>4. CASE CheckNoChange
    <2> DEFINE phase == IF job.phase = "listed" /\ SameState(job, job.hash) THEN "unchanged"
                                                                             ELSE "execute"
    <2>1. job' = [job EXCEPT !.phase = phase]
      BY <1>4 DEF CheckNoChange
    <2>2. phase \in {"unchanged", "execute"} /\ (phase = "unchanged" => SameState(job, job.hash))
      OBVIOUS
    <2> HIDE DEF phase
    <2>3. /\ job' \in Run /\ job'.phase = phase
          /\ job'.prev = job.prev /\ job'.prevHash = job.prevHash /\ job'.hash = job.hash
      BY <1>0, <2>1, <2>2 DEF Run
    <2>4. UNCHANGED <<results, files, cli, cleaner, metrics>>
      BY <1>4 DEF CheckNoChange
    <2>5. Informed(job)'
      BY <1>0, <2>2, <2>3, <2>4 DEF Informed, SameState
    <2>6. QED
      BY <2>3, <2>4, <2>5, JobStep
  <1>5. CASE CompleteJobNoChange
    <2>1. /\ job.prev \in ResultIds /\ results[job.prev].kind \in Success
          /\ job.hash = results[job.prev].hash
      BY <1>0, <1>5 DEF CompleteJobNoChange, SameState, Informed, Run
    <2>2. CompleteWithCopy(job.prev, results[job.prev].hash)
      BY <1>5, <2>1 DEF CompleteJobNoChange
    <2>3. ResultsOK' /\ Keeps(results') /\ metrics' \in Metrics
      BY <2>1, <2>2, CompleteWithCopyKeeps
    <2>4. job' = NoRun /\ UNCHANGED <<files, cli, cleaner>>
      BY <1>5 DEF CompleteJobNoChange
    <2>5. QED
      BY <2>3, <2>4, Completes
  <1>6. CASE FallBack \/ ExecuteTool
    <2>1. \E listing, hash \in Versions \cup {0} :
            \/ job' = [job EXCEPT !.phase = "execute", !.hash = hash]
            \/ job' = [job EXCEPT !.phase = "done", !.listing = listing]
      BY <1>0, <1>6 DEF FallBack, ExecuteTool, Analysed, Run
    <2>2. /\ job' \in Run /\ job'.phase \in {"execute", "done"}
          /\ job'.prev = job.prev /\ job'.prevHash = job.prevHash
      BY <1>0, <2>1 DEF Run
    <2>3. UNCHANGED <<results, files, cli, cleaner, metrics>>
      BY <1>6 DEF FallBack, ExecuteTool
    <2>4. Informed(job)'
      BY <1>0, <2>2, <2>3 DEF Informed
    <2>5. QED
      BY <2>2, <2>3, <2>4, JobStep
  <1>7. CASE CompleteJob \/ FailJob
    <2>1. PICK kind \in {"COMPLETED", "FAILED"}, h \in Versions \cup {0}, v \in Versions \cup {0},
               n \in Fresh : results' = [results EXCEPT ![n] = NewResult(kind, h, v)]
      BY <1>0, <1>7 DEF CompleteJob, FailJob, Run
    <2>2. ResultsOK' /\ Keeps(results')
      BY <2>1, NewResultKeeps
    <2>3. /\ job' = NoRun /\ metrics' = CountCompletion({})
          /\ UNCHANGED <<files, cli, cleaner>>
      BY <1>7 DEF CompleteJob, FailJob
    <2>4. metrics' \in Metrics
      BY <1>0, <2>3, CountFits, FS_EmptySet
    <2>5. QED
      BY <2>2, <2>3, <2>4, Completes
  <1>8. CASE LoseJob
    <2>1. job' = NoRun /\ UNCHANGED <<results, files, cli, cleaner, metrics>>
      BY <1>8 DEF LoseJob
    <2>2. job' \in Run /\ Informed(job)'
      BY <2>1, NoRunFits DEF Informed, NoRun
    <2>3. QED
      BY <2>1, <2>2, JobStep
  <1>9. QED
    BY <1>1, <1>2, <1>3, <1>4, <1>5, <1>6, <1>7, <1>8 DEF RunJob

LEMMA RunCliKeepsIInv ==
  ASSUME ConstantsAssumption, IInv, RunCli
  PROVE  IInv'
  <1>0. /\ files \in Versions /\ cli \in Run /\ Informed(cli)
        /\ TypeOK /\ ResultsOK /\ metrics \in Metrics
    BY DEF IInv, TypeOK, ResultsOK
  <1>1. CASE CliPrepare
    <2>1. /\ cli' \in Run /\ cli'.phase = "listed" /\ cli'.prev = 0
      BY <1>0, <1>1, NoRunFits DEF CliPrepare, Run
    <2>2. UNCHANGED <<results, files, job, cleaner, metrics>>
      BY <1>1 DEF CliPrepare
    <2>3. Informed(cli)'
      BY <2>1 DEF Informed
    <2>4. QED
      BY <2>1, <2>2, <2>3, CliStep
  <1>2. CASE CliCheck
    <2>1. UNCHANGED <<results, files, job, cleaner, metrics>> /\ cli.phase = "listed"
      BY <1>2 DEF CliCheck
    <2>2. PICK run, phase : /\ run \in AskPrevious(cli) \/ (run = cli /\ phase = "done")
                            /\ cli' = [run EXCEPT !.phase = phase]
                            /\ phase \in {"unchanged", "done"}
                            /\ phase = "unchanged" => SameState(run, run.hash)
      BY <1>2 DEF CliCheck
    <2>3. run \in Run /\ Informed(run)
      BY <1>0, <2>1, <2>2, AskedInformed
    <2>4. /\ cli' \in Run /\ cli'.phase = phase
          /\ cli'.prev = run.prev /\ cli'.prevHash = run.prevHash /\ cli'.hash = run.hash
      BY <2>2, <2>3 DEF Run
    <2>5. Informed(cli)'
      BY <2>1, <2>2, <2>3, <2>4 DEF Informed, SameState
    <2>6. QED
      BY <2>1, <2>4, <2>5, CliStep
  <1>3. CASE CliRecordNoChange
    <2>1. /\ cli.prev \in ResultIds /\ results[cli.prev].kind \in Success
          /\ cli.hash = results[cli.prev].hash
      BY <1>0, <1>3 DEF CliRecordNoChange, SameState, Informed, Run
    <2> DEFINE copy == CopyOf(cli.prev, results[cli.prev].hash)
    <2>2. PICK n \in Fresh : results' = [Without(results, {}) EXCEPT ![n] = copy]
      BY <1>0, <1>3, <2>1, WithoutNothing DEF CliRecordNoChange
    <2>3. /\ copy \in Result /\ copy.kind = "NO_CHANGE"
          /\ results[copy.from].kind = "COMPLETED" /\ Agrees(copy, results[copy.from])
      BY <1>0, <2>1, CopyFits
    <2> HIDE DEF copy
    <2>4. ResultsOK' /\ Keeps(results')
      BY <1>0, <2>2, <2>3, AdditionKeeps
    <2>5. cli' = NoRun /\ UNCHANGED <<files, job, cleaner, metrics>>
      BY <1>3 DEF CliRecordNoChange
    <2>6. metrics' \in Metrics
      BY <1>0, <2>5
    <2>7. QED
      BY <2>4, <2>5, <2>6, Completes
  <1>4. CASE CliUpload
    <2>1. PICK n \in Fresh : results' = [results EXCEPT ![n] = NewResult("COMPLETED", cli.hash, cli.listing)]
      BY <1>4 DEF CliUpload
    <2>2. cli.hash \in Versions \cup {0} /\ cli.listing \in Versions \cup {0}
      BY <1>0 DEF Run
    <2>3. ResultsOK' /\ Keeps(results')
      BY <2>1, <2>2, NewResultKeeps
    <2>4. cli' = NoRun /\ UNCHANGED <<files, job, cleaner, metrics>>
      BY <1>4 DEF CliUpload
    <2>5. metrics' \in Metrics
      BY <1>0, <2>4
    <2>6. QED
      BY <2>3, <2>4, <2>5, Completes
  <1>5. CASE CliGiveUp
    <2>1. cli' = NoRun /\ UNCHANGED <<results, files, job, cleaner, metrics>>
      BY <1>5 DEF CliGiveUp
    <2>2. cli' \in Run /\ Informed(cli)'
      BY <2>1, NoRunFits DEF Informed
    <2>3. QED
      BY <2>1, <2>2, CliStep
  <1>6. QED
    BY <1>1, <1>2, <1>3, <1>4, <1>5 DEF RunCli

-----------------------------------------------------------------------------
(* The steps of the cleanup, and deletions by users.                       *)

LEMMA CountedFits ==
  ASSUME ConstantsAssumption, TypeOK, NEW S \in SUBSET ResultIds
  PROVE  /\ Counted(S) \in Cleaner
         /\ Counted(S).phase = cleaner.phase
         /\ Counted(S).cut = cleaner.cut /\ Counted(S).keep = cleaner.keep
  <1> DEFINE o == cleaner.original + Cardinality(S \ Copies)
             c == cleaner.copy + Cardinality(S \cap Copies)
  <1>1. Cardinality(S \ Copies) \in Nat /\ Cardinality(S \cap Copies) \in Nat
    BY Countable
  <1>2. o \in Nat /\ c \in Nat
    BY <1>1 DEF TypeOK, Cleaner
  <1>3. Counted(S) = [cleaner EXCEPT !.original = o, !.copy = c]
    BY DEF Counted
  <1> HIDE DEF o, c
  <1>4. QED
    BY <1>2, <1>3 DEF TypeOK, Cleaner

(* A step of the cleanup deletes some results, or none.                    *)
LEMMA Cleans ==
  ASSUME IInv, NEW S, results' = Without(results, S),
         cleaner' \in Cleaner, metrics' \in Metrics, UNCHANGED <<files, job, cli>>
  PROVE  IInv'
  <1>1. ResultsOK' /\ Keeps(results')
    BY DeletionKeeps DEF IInv, TypeOK, ResultsOK
  <1>2. files' \in Versions /\ job' = job /\ cli' = cli
    BY DEF IInv, TypeOK
  <1>3. QED
    BY <1>1, <1>2, IInvStep

(* The deletions of a step of the cleanup or of a user, and what is kept.  *)
LEMMA CleanupDeletes ==
  ASSUME ConstantsAssumption, IInv, Cleanup \/ DeleteResult
  PROVE  \E S \in SUBSET ResultIds :
           /\ results' = Without(results, S)
           /\ cleaner' \in Cleaner /\ metrics' \in Metrics /\ UNCHANGED <<files, job, cli>>
  <1>0. TypeOK /\ ResultsOK /\ cleaner \in Cleaner /\ metrics \in Metrics /\ NoCleanup \in Cleaner
    BY DEF IInv, TypeOK, ResultsOK, NoCleanup, Cleaner, ConstantsAssumption
  <1>1. CASE StartCleanup
    <2>1. PICK failedCut, cut \in Stored :
            LET old == {i \in Live : results[i].kind = "FAILED" /\ i <= failedCut}
            IN /\ results' = Without(results, old)
               /\ cleaner' = [Counted(old) EXCEPT !.phase = "select", !.cut = cut]
      BY <1>1 DEF StartCleanup
    <2> DEFINE old == {i \in Live : results[i].kind = "FAILED" /\ i <= failedCut}
    <2>2. old \in SUBSET ResultIds
      BY DEF Live
    <2>3. Counted(old) \in Cleaner
      BY <1>0, <2>2, CountedFits
    <2>4. cut \in 0 .. MaxResults
      BY DEF Stored, ResultIds
    <2>5. cleaner' = [Counted(old) EXCEPT !.phase = "select", !.cut = cut]
      BY <2>1
    <2>6. results' = Without(results, old)
      BY <2>1
    <2> HIDE DEF old
    <2>7. cleaner' \in Cleaner
      BY <2>3, <2>4, <2>5 DEF Cleaner
    <2>8. UNCHANGED <<files, job, cli, metrics>>
      BY <1>1 DEF StartCleanup
    <2>9. QED
      BY <1>0, <2>2, <2>6, <2>7, <2>8
  <1>2. CASE SelectPreserved
    <2>1. Preserved \in SUBSET ResultIds
      BY DEF Preserved, Successes, Live
    <2>2. cleaner' \in Cleaner
      BY <1>0, <1>2, <2>1 DEF SelectPreserved, Cleaner
    <2>3. results' = Without(results, {})
      BY <1>0, <1>2, WithoutNothing DEF SelectPreserved
    <2>4. UNCHANGED <<files, job, cli, metrics>>
      BY <1>2 DEF SelectPreserved
    <2>5. QED
      BY <1>0, <2>2, <2>3, <2>4
  <1>3. CASE DeleteBatch
    <2>1. PICK S \in SUBSET Expired : results' = Without(results, S) /\ cleaner' = Counted(S)
      BY <1>3 DEF DeleteBatch
    <2>2. S \in SUBSET ResultIds
      BY DEF Expired, Successes, Live
    <2>3. UNCHANGED <<files, job, cli, metrics>>
      BY <1>3 DEF DeleteBatch
    <2>4. QED
      BY <1>0, <2>1, <2>2, <2>3, CountedFits
  <1>4. CASE UpdateMetrics \/ CrashCleanup
    <2> DEFINE o == metrics.original + cleaner.original
               c == metrics.copy + cleaner.copy
    <2>1. o \in Nat /\ c \in Nat
      BY <1>0 DEF Cleaner, Metrics
    <2>2. metrics' = metrics \/ metrics' = [metrics EXCEPT !.original = o, !.copy = c]
      BY <1>4 DEF UpdateMetrics, CrashCleanup
    <2> HIDE DEF o, c
    <2>3. metrics' \in Metrics
      BY <1>0, <2>1, <2>2 DEF Metrics
    <2>4. cleaner' = NoCleanup /\ UNCHANGED <<results, files, job, cli>>
      BY <1>4 DEF UpdateMetrics, CrashCleanup
    <2>5. results' = Without(results, {})
      BY <1>0, <2>4, WithoutNothing
    <2>6. QED
      BY <1>0, <2>3, <2>4, <2>5
  <1>5. CASE DeleteResult
    <2>1. PICK i \in Live : results' = Without(results, {i})
      BY <1>5 DEF DeleteResult
    <2>2. {i} \in SUBSET ResultIds
      BY DEF Live
    <2>3. UNCHANGED <<files, job, cli, cleaner, metrics>>
      BY <1>5 DEF DeleteResult
    <2>4. QED
      BY <1>0, <2>1, <2>2, <2>3
  <1>6. QED
    BY <1>1, <1>2, <1>3, <1>4, <1>5 DEF Cleanup

LEMMA NextKeepsIInv ==
  ASSUME ConstantsAssumption, IInv, [Next]_vars
  PROVE  IInv'
  <1>1. CASE ChangeFiles
    <2>1. UNCHANGED <<results, job, cli, cleaner, metrics>> /\ files' \in Versions
      BY <1>1 DEF ChangeFiles
    <2>2. ResultsOK' /\ Keeps(results')
      BY <2>1, SameResults DEF IInv, TypeOK, ResultsOK
    <2>3. cleaner' \in Cleaner /\ metrics' \in Metrics /\ job' = job /\ cli' = cli
      BY <2>1 DEF IInv, TypeOK
    <2>4. QED
      BY <2>1, <2>2, <2>3, IInvStep
  <1>2. CASE Cleanup \/ DeleteResult
    BY <1>2, CleanupDeletes, Cleans
  <1>3. CASE UNCHANGED vars
    BY <1>3 DEF vars, IInv, TypeOK, InOrder, Sourced, Informed
  <1>4. QED
    BY <1>1, <1>2, <1>3, RunJobKeepsIInv, RunCliKeepsIInv DEF Next

-----------------------------------------------------------------------------
(* The reports that users get.                                             *)

LEMMA IInvFaithful ==
  ASSUME ConstantsAssumption, IInv
  PROVE  CopiesFaithful
  <1>0. ResultsOK /\ \A i \in ResultIds : results[i] \in Result
    BY DEF IInv, TypeOK, ResultsOK
  <1>1. ASSUME NEW i \in Copies
        PROVE  /\ i \in ResultIds /\ results[i].kind = "NO_CHANGE"
               /\ results[i].from # 0
               /\ Agrees(results[i], results[results[i].from])
    BY <1>0, IdsAreNumbers DEF Copies, Live, ResultsOK, Sourced, Result
  <1>2. ASSUME NEW i \in Successes
        PROVE  GetReport(i) \in {results[i].data, 0}
    <2>1. CASE results[i].kind = "COMPLETED"
      <3>1. DownloadFrom(i) = i
        BY <1>0, <2>1 DEF Successes, Live, Result, DownloadFrom
      <3>2. QED
        BY <3>1 DEF GetReport
    <2>2. CASE results[i].kind = "NO_CHANGE"
      <3>1. i \in Copies
        BY <2>2 DEF Successes, Copies
      <3>2. DownloadFrom(i) = results[i].from
        BY <1>1, <3>1 DEF DownloadFrom
      <3>3. results[results[i].from].data = results[i].data
        BY <1>1, <3>1 DEF Agrees
      <3>4. QED
        BY <3>2, <3>3 DEF GetReport
    <2>3. QED
      BY <2>1, <2>2 DEF Successes, Success
  <1>3. QED
    BY <1>1, <1>2 DEF CopiesFaithful, ReferencesFlat, Agrees

(* A stored result is what its type says, for ever: no step of a job, of   *)
(* the command line or of the cleanup stores what the table would refuse.  *)
THEOREM TypeCorrect == ConstantsAssumption /\ Spec => []TypeOK
  <1> SUFFICES ASSUME ConstantsAssumption
               PROVE  Spec => []TypeOK
    OBVIOUS
  <1>1. Init => IInv
    BY InitIInv
  <1>2. IInv /\ [Next]_vars => IInv'
    BY NextKeepsIInv
  <1>3. IInv => TypeOK
    BY DEF IInv
  <1>4. QED
    BY <1>1, <1>2, <1>3, PTL DEF Spec

(* A copy refers to an original, with its hash, and the report that is     *)
(* served for a result is that of its data or none: whatever jobs, the     *)
(* command line, retention, its crashes and users do to the table.         *)
THEOREM CopiesAlwaysFaithful == ConstantsAssumption /\ Spec => []CopiesFaithful
  <1> SUFFICES ASSUME ConstantsAssumption
               PROVE  Spec => []CopiesFaithful
    OBVIOUS
  <1>1. Init => IInv
    BY InitIInv
  <1>2. IInv /\ [Next]_vars => IInv'
    BY NextKeepsIInv
  <1>3. IInv => CopiesFaithful
    BY IInvFaithful
  <1>4. QED
    BY <1>1, <1>2, <1>3, PTL DEF Spec

-----------------------------------------------------------------------------
(* The newest success.                                                     *)

Top(i) == /\ results[i].kind \in Success
          /\ \A k \in Newer(ResultIds, i) : results[k].kind \notin Success

(* The cleanup works with a cutoff that lies behind every later result,    *)
(* and holds the newest success if that is as old as the cutoff.           *)
Held == /\ cleaner.phase # "idle" => cleaner.cut \in Stored
        /\ cleaner.phase = "delete" =>
             \A i \in ResultIds : Top(i) /\ i <= cleaner.cut => i \in cleaner.keep

NInv == NewestSurvives /\ Held

(* A new result says what another one says, what a run found, or names no  *)
(* input state.                                                            *)
Told(new) ==
  \/ new.hash = 0
  \/ \E i \in ResultIds : new.hash = results[i].hash /\ new.data = results[i].data
  \/ \E run \in {job, cli} : new.hash = run.hash /\ new.data = run.listing

(* A result is added, and copies are deleted only when it is one.          *)
Adds(S) ==
  \E n \in Fresh, new \in Result :
    /\ new.live = TRUE
    /\ new.kind # "none"
    /\ Told(new)
    /\ S = {} \/ new.kind = "NO_CHANGE"
    /\ results' = [Without(results, S) EXCEPT ![n] = new]
    /\ cleaner' = cleaner

LEMMA CompleteWithCopyAdds ==
  ASSUME ConstantsAssumption, IInv, NEW i \in ResultIds, results[i].kind \in Success,
         CompleteWithCopy(i, results[i].hash), cleaner' = cleaner
  PROVE  \E S \in SUBSET Copies : Adds(S) /\ metrics' = CountCompletion(S)
  <1> DEFINE copy == CopyOf(i, results[i].hash)
             purged == IntermediateCopies(i)
  <1>1. PICK n \in Fresh : results' = [Without(results, purged) EXCEPT ![n] = copy]
    BY DEF CompleteWithCopy
  <1>2. copy \in Result /\ copy.kind = "NO_CHANGE"
    BY CopyFits DEF IInv, TypeOK, ResultsOK
  <1>3. copy.live = TRUE /\ Told(copy)
    BY DEF CopyOf, Told
  <1>4. metrics' = CountCompletion(purged)
    BY DEF CompleteWithCopy
  <1>5. purged \in SUBSET Copies
    BY DEF IntermediateCopies
  <1> HIDE DEF copy, purged
  <1>6. Adds(purged)
    BY <1>1, <1>2, <1>3 DEF Adds
  <1>7. QED
    BY <1>4, <1>5, <1>6

LEMMA NewResultAdds ==
  ASSUME ConstantsAssumption, IInv, NEW kind \in {"COMPLETED", "FAILED"},
         NEW h \in Versions \cup {0}, NEW v \in Versions \cup {0}, NEW n \in Fresh,
         Told(NewResult(kind, h, v)),
         results' = [results EXCEPT ![n] = NewResult(kind, h, v)], cleaner' = cleaner
  PROVE  Adds({})
  <1> DEFINE new == NewResult(kind, h, v)
  <1>1. new \in Result /\ new.kind # "none"
    BY NewResultFits
  <1>2. new.live = TRUE /\ Told(new)
    BY DEF NewResult
  <1>3. results' = [Without(results, {}) EXCEPT ![n] = new]
    BY WithoutNothing DEF IInv, TypeOK, ResultsOK
  <1> HIDE DEF new
  <1>4. QED
    BY <1>1, <1>2, <1>3 DEF Adds

(* What a step of a job does to the table: nothing, or a result is added   *)
(* and counted.                                                            *)
LEMMA RunJobAdds ==
  ASSUME ConstantsAssumption, IInv, RunJob
  PROVE  \/ UNCHANGED <<results, cleaner, metrics>>
         \/ \E S \in SUBSET Copies : Adds(S) /\ metrics' = CountCompletion(S)
  <1>0. /\ files \in Versions /\ job \in Run /\ Informed(job) /\ TypeOK
    BY DEF IInv, TypeOK
  <1>1. CASE ClaimJob \/ ListFiles \/ CheckNoChange \/ FallBack \/ ExecuteTool \/ LoseJob
    BY <1>1 DEF ClaimJob, ListFiles, CheckNoChange, FallBack, ExecuteTool, LoseJob
  <1>2. CASE CompleteServerSide
    <2>1. PICK run \in AskPrevious(NoRun) : SameState(run, files) /\ CompleteWithCopy(run.prev, files)
      BY <1>2 DEF CompleteServerSide
    <2>2. run \in Run /\ Informed(run)
      BY <1>0, AskedInformed, NoRunFits DEF NoRun
    <2>3. /\ run.prev \in ResultIds /\ results[run.prev].kind \in Success
          /\ files = results[run.prev].hash
      BY <2>1, <2>2 DEF SameState, Informed, Run
    <2>4. CompleteWithCopy(run.prev, results[run.prev].hash)
      BY <2>1, <2>3
    <2>5. cleaner' = cleaner
      BY <1>2 DEF CompleteServerSide
    <2>6. QED
      BY <2>3, <2>4, <2>5, CompleteWithCopyAdds
  <1>3. CASE CompleteJobNoChange
    <2>1. /\ job.prev \in ResultIds /\ results[job.prev].kind \in Success
          /\ job.hash = results[job.prev].hash
      BY <1>0, <1>3 DEF CompleteJobNoChange, SameState, Informed, Run
    <2>2. CompleteWithCopy(job.prev, results[job.prev].hash) /\ cleaner' = cleaner
      BY <1>3, <2>1 DEF CompleteJobNoChange
    <2>3. QED
      BY <2>1, <2>2, CompleteWithCopyAdds
  <1>4. CASE CompleteJob \/ FailJob
    <2>0. Told(NewResult("COMPLETED", job.hash, job.listing)) /\ Told(NewResult("FAILED", 0, 0))
      BY DEF Told, NewResult
    <2>1. PICK kind \in {"COMPLETED", "FAILED"}, h \in Versions \cup {0}, v \in Versions \cup {0},
               n \in Fresh : /\ results' = [results EXCEPT ![n] = NewResult(kind, h, v)]
                            /\ Told(NewResult(kind, h, v))
      BY <1>0, <1>4, <2>0 DEF CompleteJob, FailJob, Run
    <2>2. cleaner' = cleaner /\ metrics' = CountCompletion({})
      BY <1>4 DEF CompleteJob, FailJob
    <2>3. Adds({})
      BY <2>1, <2>2, NewResultAdds
    <2>4. QED
      BY <2>2, <2>3
  <1>5. QED
    BY <1>1, <1>2, <1>3, <1>4 DEF RunJob

(* What a step of the command line does to the table.                      *)
LEMMA RunCliAdds ==
  ASSUME ConstantsAssumption, IInv, RunCli
  PROVE  \/ UNCHANGED <<results, cleaner, metrics>>
         \/ Adds({}) /\ UNCHANGED metrics
  <1>0. cli \in Run /\ Informed(cli) /\ ResultsOK
    BY DEF IInv, TypeOK, ResultsOK
  <1>1. CASE CliPrepare \/ CliCheck \/ CliGiveUp
    BY <1>1 DEF CliPrepare, CliCheck, CliGiveUp
  <1>2. CASE CliRecordNoChange
    <2>1. /\ cli.prev \in ResultIds /\ results[cli.prev].kind \in Success
          /\ cli.hash = results[cli.prev].hash
      BY <1>0, <1>2 DEF CliRecordNoChange, SameState, Informed, Run
    <2> DEFINE copy == CopyOf(cli.prev, results[cli.prev].hash)
    <2>2. PICK n \in Fresh : results' = [Without(results, {}) EXCEPT ![n] = copy]
      BY <1>0, <1>2, <2>1, WithoutNothing DEF CliRecordNoChange
    <2>3. copy \in Result /\ copy.kind = "NO_CHANGE"
      BY <1>0, <2>1, CopyFits
    <2>4. copy.live = TRUE /\ Told(copy)
      BY <2>1 DEF CopyOf, Told
    <2>5. UNCHANGED <<cleaner, metrics>>
      BY <1>2 DEF CliRecordNoChange
    <2> HIDE DEF copy
    <2>6. Adds({})
      BY <2>2, <2>3, <2>4, <2>5 DEF Adds
    <2>7. QED
      BY <2>5, <2>6
  <1>3. CASE CliUpload
    <2>1. PICK n \in Fresh : results' = [results EXCEPT ![n] = NewResult("COMPLETED", cli.hash, cli.listing)]
      BY <1>3 DEF CliUpload
    <2>2. cli.hash \in Versions \cup {0} /\ cli.listing \in Versions \cup {0}
      BY <1>0 DEF Run
    <2>3. UNCHANGED <<cleaner, metrics>>
      BY <1>3 DEF CliUpload
    <2>4. Told(NewResult("COMPLETED", cli.hash, cli.listing))
      BY DEF Told, NewResult
    <2>5. Adds({})
      BY <2>1, <2>2, <2>3, <2>4, NewResultAdds
    <2>6. QED
      BY <2>3, <2>5
  <1>4. QED
    BY <1>1, <1>2, <1>3 DEF RunCli

(* The new result is newer than all others.                                *)
LEMMA FreshIsNewest ==
  ASSUME ConstantsAssumption, IInv, NEW n \in Fresh
  PROVE  n \in ResultIds /\ n \notin Stored /\ \A i \in Stored : i < n
  <1>1. n \in ResultIds /\ results[n].kind = "none"
    BY DEF Fresh
  <1>2. ASSUME NEW i \in Stored
        PROVE  i < n
    <2>1. i \in ResultIds /\ results[i].kind # "none" /\ i \in Nat /\ n \in Nat
      BY <1>1, IdsAreNumbers DEF Stored
    <2>2. ~(n < i)
      BY <1>1, <2>1 DEF IInv, InOrder
    <2>3. i # n
      BY <1>1, <2>1
    <2>4. QED
      BY <2>1, <2>2, <2>3
  <1>3. QED
    BY <1>1, <1>2 DEF Stored

LEMMA AdditionSpares ==
  ASSUME ConstantsAssumption, IInv, NInv, NEW S \in SUBSET Copies, Adds(S)
  PROVE  NInv'
  <1>0. ResultsOK
    BY DEF IInv, TypeOK, ResultsOK
  <1>1. PICK n \in Fresh, new \in Result :
          /\ new.live = TRUE
          /\ new.kind # "none"
          /\ Told(new)
          /\ S = {} \/ new.kind = "NO_CHANGE"
          /\ results' = [Without(results, S) EXCEPT ![n] = new]
          /\ cleaner' = cleaner
    BY DEF Adds
  <1>2. n \in ResultIds /\ n \notin Stored /\ \A i \in Stored : i < n
    BY FreshIsNewest
  <1>3. /\ results'[n] = new
        /\ \A i \in ResultIds \ {n} : /\ results'[i].kind = results[i].kind
                                      /\ results'[i].live = (results[i].live /\ i \notin S)
    BY <1>0, <1>1, <1>2, WithoutKeeps
  <1>4. Stored \subseteq Stored'
    BY <1>1, <1>3 DEF Stored
  <1>5. ASSUME NEW i \in ResultIds, Top(i)'
        PROVE  i = n \/ (new.kind \notin Success /\ Top(i))
    <2>1. CASE i # n
      <3>1. results[i].kind \in Success /\ i \in Stored
        BY <1>3, <1>5, <2>1 DEF Top, Stored, Success
      <3>2. n \in Newer(ResultIds, i)
        BY <1>2, <3>1 DEF Newer
      <3>3. new.kind \notin Success
        BY <1>3, <1>5, <3>2 DEF Top, Newer
      <3>4. results[n].kind \notin Success
        BY <1>2 DEF Stored, Success
      <3>5. \A k \in Newer(ResultIds, i) : results[k].kind \notin Success
        BY <1>3, <1>5, <3>4 DEF Top, Newer
      <3>6. QED
        BY <3>1, <3>3, <3>5 DEF Top
    <2>2. QED
      BY <2>1
  <1>6. NewestSurvives'
    <2> SUFFICES ASSUME NEW i \in ResultIds, Top(i)'
                 PROVE  results'[i].live
      BY DEF NewestSurvives, Top, Newer
    <2>1. CASE i = n
      BY <2>1, <1>1, <1>3
    <2>2. CASE i # n
      <3>1. new.kind \notin Success /\ Top(i)
        BY <1>5, <2>2
      <3>2. S = {} /\ results[i].live
        BY <1>1, <3>1 DEF NInv, NewestSurvives, Top, Success
      <3>3. QED
        BY <1>3, <2>2, <3>2
    <2>3. QED
      BY <2>1, <2>2
  <1>7. Held'
    <2>1. cleaner.phase # "idle" => cleaner.cut \in Stored' /\ cleaner.cut < n
      BY <1>2, <1>4 DEF NInv, Held
    <2>2. ASSUME cleaner.phase = "delete", NEW i \in ResultIds, Top(i)', i <= cleaner.cut
          PROVE  i \in cleaner.keep
      <3>1. cleaner.cut \in Nat /\ i \in Nat /\ n \in Nat /\ cleaner.cut < n
        BY <1>2, <2>1, <2>2, IdsAreNumbers DEF NInv, Held, Stored
      <3>2. i # n
        BY <2>2, <3>1
      <3>3. QED
        BY <1>5, <2>2, <3>2 DEF NInv, Held
    <2>3. QED
      BY <1>1, <2>1, <2>2 DEF Held, Top, Newer
  <1>8. QED
    BY <1>6, <1>7 DEF NInv

(* Deletions that spare the newest success.                                *)
LEMMA DeletionSpares ==
  ASSUME IInv, NInv, NEW S, results' = Without(results, S),
         \A i \in ResultIds : Top(i) => i \notin S
  PROVE  /\ NewestSurvives'
         /\ Stored' = Stored
         /\ \A i \in ResultIds : Top(i)' <=> Top(i)
  <1>1. \A i \in ResultIds : /\ results'[i].kind = results[i].kind
                             /\ results'[i].live = (results[i].live /\ i \notin S)
    BY WithoutKeeps DEF IInv, TypeOK, ResultsOK
  <1>2. Stored' = Stored
    BY <1>1 DEF Stored
  <1>3. \A i \in ResultIds : Top(i)' <=> Top(i)
    BY <1>1 DEF Top, Newer
  <1>4. NewestSurvives'
    BY <1>1, <1>3 DEF NInv, NewestSurvives, Top, Newer
  <1>5. QED
    BY <1>2, <1>3, <1>4

(* The newest success is among those that are preserved.                   *)
LEMMA TopIsPreserved ==
  ASSUME ConstantsAssumption, NewestSurvives, NEW i \in ResultIds, Top(i)
  PROVE  i \in Preserved
  <1>1. i \in Successes
    BY DEF NewestSurvives, Top, Newer, Successes, Live
  <1>2. Newer(Successes, i) = {}
    BY DEF Top, Newer, Successes, Live
  <1>3. QED
    BY <1>1, <1>2, FS_EmptySet DEF Preserved, ConstantsAssumption

LEMMA CleanupSpares ==
  ASSUME ConstantsAssumption, IInv, NInv, Cleanup
  PROVE  NInv'
  <1>0. ResultsOK /\ TypeOK /\ cleaner \in Cleaner
    BY DEF IInv, TypeOK, ResultsOK
  <1>1. CASE StartCleanup
    <2>1. PICK failedCut, cut \in Stored :
            LET old == {i \in Live : results[i].kind = "FAILED" /\ i <= failedCut}
            IN /\ results' = Without(results, old)
               /\ cleaner' = [Counted(old) EXCEPT !.phase = "select", !.cut = cut]
      BY <1>1 DEF StartCleanup
    <2> DEFINE old == {i \in Live : results[i].kind = "FAILED" /\ i <= failedCut}
    <2>2. \A i \in ResultIds : Top(i) => i \notin old
      BY DEF Top, Success
    <2>3. NewestSurvives' /\ Stored' = Stored
      BY <2>1, <2>2, DeletionSpares
    <2>4. Counted(old) \in Cleaner
      BY <1>0, CountedFits DEF Live
    <2>5. cleaner'.phase = "select" /\ cleaner'.cut = cut
      BY <2>1, <2>4 DEF Cleaner
    <2>6. QED
      BY <2>1, <2>3, <2>5 DEF NInv, Held
  <1>2. CASE SelectPreserved
    <2>1. results' = Without(results, {})
      BY <1>0, <1>2, WithoutNothing DEF SelectPreserved
    <2>2. NewestSurvives' /\ Stored' = Stored /\ \A i \in ResultIds : Top(i)' <=> Top(i)
      BY <2>1, DeletionSpares
    <2>3. /\ cleaner.phase = "select"
          /\ cleaner'.phase = "delete" /\ cleaner'.cut = cleaner.cut /\ cleaner'.keep = Preserved
      BY <1>0, <1>2 DEF SelectPreserved, Cleaner
    <2>4. \A i \in ResultIds : Top(i) => i \in Preserved
      BY TopIsPreserved DEF NInv
    <2>5. QED
      BY <2>2, <2>3, <2>4 DEF NInv, Held
  <1>3. CASE DeleteBatch
    <2>1. PICK S \in SUBSET Expired : results' = Without(results, S) /\ cleaner' = Counted(S)
      BY <1>3 DEF DeleteBatch
    <2>2. \A i \in ResultIds : Top(i) => i \notin S
      BY <1>3 DEF DeleteBatch, Expired, NInv, Held
    <2>3. NewestSurvives' /\ Stored' = Stored /\ \A i \in ResultIds : Top(i)' <=> Top(i)
      BY <2>1, <2>2, DeletionSpares
    <2>4. S \in SUBSET ResultIds
      BY DEF Expired, Successes, Live
    <2>5. cleaner'.phase = cleaner.phase /\ cleaner'.cut = cleaner.cut /\ cleaner'.keep = cleaner.keep
      BY <1>0, <2>1, <2>4, CountedFits
    <2>6. QED
      BY <2>3, <2>5 DEF NInv, Held
  <1>4. CASE UpdateMetrics \/ CrashCleanup
    <2>1. results' = Without(results, {}) /\ cleaner'.phase = "idle"
      BY <1>0, <1>4, WithoutNothing DEF UpdateMetrics, CrashCleanup, NoCleanup
    <2>2. NewestSurvives'
      BY <2>1, DeletionSpares
    <2>3. QED
      BY <2>1, <2>2 DEF NInv, Held
  <1>5. QED
    BY <1>1, <1>2, <1>3, <1>4 DEF Cleanup

LEMMA NextSpares ==
  ASSUME ConstantsAssumption, ~UserDeletes, IInv, NInv, [Next]_vars
  PROVE  NInv'
  <1>1. CASE UNCHANGED <<results, cleaner>>
    BY <1>1 DEF NInv, NewestSurvives, Held, Stored, Top, Newer
  <1>2. CASE RunJob \/ RunCli
    BY <1>1, <1>2, RunJobAdds, RunCliAdds, AdditionSpares
  <1>3. QED
    BY <1>1, <1>2, CleanupSpares DEF Next, ChangeFiles, DeleteResult, vars

(* The newest success survives all that the server does by itself: the     *)
(* selection of what retention keeps is followed by completions and by     *)
(* batches of deletions, and copies are cleaned up in between.             *)
THEOREM NewestAlwaysSurvives == ConstantsAssumption /\ ~UserDeletes /\ Spec => []NewestSurvives
  <1> SUFFICES ASSUME ConstantsAssumption, ~UserDeletes
               PROVE  Spec => []NewestSurvives
    OBVIOUS
  <1>1. Init => IInv /\ NInv
    <2> SUFFICES ASSUME Init
                 PROVE  NInv
      BY InitIInv
    <2>1. \A i \in ResultIds : results[i].kind = "none"
      BY DEF Init, NoResult
    <2>2. QED
      BY <2>1 DEF NInv, NewestSurvives, Held, Success, Init, NoCleanup
  <1>2. IInv /\ NInv /\ [Next]_vars => (IInv /\ NInv)'
    BY NextKeepsIInv, NextSpares
  <1>3. NInv => NewestSurvives
    BY DEF NInv
  <1>4. QED
    BY <1>1, <1>2, <1>3, PTL DEF Spec

-----------------------------------------------------------------------------
(* The accounts.                                                           *)

LiveAreStored == Live \subseteq Stored

AInv == LiveAreStored /\ Accounted /\ cli.phase = "idle"

LEMMA Removed ==
  ASSUME NEW T, IsFiniteSet(T), NEW S \in SUBSET T
  PROVE  Cardinality(T \ S) = Cardinality(T) - Cardinality(S)
  <1>1. T \cap S = S
    OBVIOUS
  <1>2. QED
    BY <1>1, FS_Difference

LEMMA AdditionAccounts ==
  ASSUME ConstantsAssumption, IInv, LiveAreStored, Accounted,
         NEW S \in SUBSET Copies, Adds(S), metrics' = CountCompletion(S)
  PROVE  (LiveAreStored /\ Accounted)'
  <1>0. ResultsOK /\ metrics \in Metrics /\ cleaner \in Cleaner
    BY DEF IInv, TypeOK, ResultsOK
  <1>1. PICK n \in Fresh, new \in Result :
          /\ new.live = TRUE
          /\ new.kind # "none"
          /\ results' = [Without(results, S) EXCEPT ![n] = new]
          /\ cleaner' = cleaner
    BY DEF Adds
  <1>2. n \in ResultIds /\ n \notin Stored
    BY FreshIsNewest
  <1>3. /\ results'[n] = new
        /\ \A i \in ResultIds \ {n} : /\ results'[i].kind = results[i].kind
                                      /\ results'[i].live = (results[i].live /\ i \notin S)
    BY <1>0, <1>1, <1>2, WithoutKeeps
  <1>4. Live' = (Live \ S) \cup {n} /\ n \notin Live \ S
    BY <1>1, <1>2, <1>3 DEF Live, LiveAreStored
  <1>5. LiveAreStored'
    BY <1>1, <1>2, <1>3 DEF LiveAreStored, Live, Stored
  <1>6. S \subseteq Live /\ Live \subseteq ResultIds
    BY DEF Copies, Live
  <1>7. /\ IsFiniteSet(Live) /\ IsFiniteSet(Live \ S)
        /\ Cardinality(Live) \in Nat /\ Cardinality(S) \in Nat /\ Cardinality(Live \ S) \in Nat
    BY <1>6, Countable
  <1>8. Cardinality(Live \ S) = Cardinality(Live) - Cardinality(S)
    BY <1>6, <1>7, Removed
  <1>9. Cardinality(Live') = Cardinality(Live) - Cardinality(S) + 1
    BY <1>4, <1>7, <1>8, FS_AddElement
  <1>10. /\ metrics'.generated = metrics.generated + 1
         /\ metrics'.copy = metrics.copy + Cardinality(S)
         /\ metrics'.original = metrics.original
    BY <1>0 DEF CountCompletion, Metrics
  <1>11. Accounted'
    BY <1>0, <1>1, <1>7, <1>9, <1>10 DEF Accounted, Metrics, Cleaner
  <1>12. QED
    BY <1>5, <1>11

(* Deletions that are tallied.                                             *)
LEMMA DeletionAccounts ==
  ASSUME ConstantsAssumption, IInv, LiveAreStored, Accounted,
         NEW S \in SUBSET Live, results' = Without(results, S), metrics' = metrics,
         cleaner'.original = cleaner.original + Cardinality(S \ Copies),
         cleaner'.copy = cleaner.copy + Cardinality(S \cap Copies)
  PROVE  (LiveAreStored /\ Accounted)'
  <1>0. ResultsOK /\ metrics \in Metrics /\ cleaner \in Cleaner
    BY DEF IInv, TypeOK, ResultsOK
  <1>1. \A i \in ResultIds : /\ results'[i].kind = results[i].kind
                             /\ results'[i].live = (results[i].live /\ i \notin S)
    BY <1>0, WithoutKeeps
  <1>2. Live' = Live \ S /\ LiveAreStored'
    BY <1>1 DEF Live, Stored, LiveAreStored
  <1>3. S \in SUBSET ResultIds /\ Live \in SUBSET ResultIds
    BY DEF Live
  <1>4. /\ IsFiniteSet(Live) /\ IsFiniteSet(S)
        /\ Cardinality(Live) \in Nat /\ Cardinality(S) \in Nat
        /\ Cardinality(S \ Copies) \in Nat /\ Cardinality(S \cap Copies) \in Nat
    BY <1>3, Countable
  <1>5. Cardinality(Live') = Cardinality(Live) - Cardinality(S)
    BY <1>2, <1>4, Removed
  <1>6. Cardinality(S \ Copies) = Cardinality(S) - Cardinality(S \cap Copies)
    BY <1>4, FS_Difference
  <1>7. Accounted'
    BY <1>0, <1>4, <1>5, <1>6 DEF Accounted, Metrics, Cleaner
  <1>8. QED
    BY <1>2, <1>7

LEMMA Tallied ==
  ASSUME ConstantsAssumption, TypeOK, NEW S \in SUBSET ResultIds
  PROVE  /\ Counted(S) \in Cleaner
         /\ Counted(S).original = cleaner.original + Cardinality(S \ Copies)
         /\ Counted(S).copy = cleaner.copy + Cardinality(S \cap Copies)
  <1> DEFINE o == cleaner.original + Cardinality(S \ Copies)
             c == cleaner.copy + Cardinality(S \cap Copies)
  <1>1. Counted(S) = [cleaner EXCEPT !.original = o, !.copy = c]
    BY DEF Counted
  <1> HIDE DEF o, c
  <1>2. Counted(S).original = o /\ Counted(S).copy = c
    BY <1>1 DEF TypeOK, Cleaner
  <1>3. QED
    BY <1>2, CountedFits DEF o, c

LEMMA CleanupAccounts ==
  ASSUME ConstantsAssumption, ~Crashes, IInv, LiveAreStored, Accounted, Cleanup
  PROVE  (LiveAreStored /\ Accounted)'
  <1>0. ResultsOK /\ TypeOK /\ cleaner \in Cleaner /\ metrics \in Metrics
    BY DEF IInv, TypeOK, ResultsOK
  <1>1. CASE StartCleanup
    <2>1. PICK failedCut, cut \in Stored :
            LET old == {i \in Live : results[i].kind = "FAILED" /\ i <= failedCut}
            IN /\ results' = Without(results, old)
               /\ cleaner' = [Counted(old) EXCEPT !.phase = "select", !.cut = cut]
      BY <1>1 DEF StartCleanup
    <2> DEFINE old == {i \in Live : results[i].kind = "FAILED" /\ i <= failedCut}
    <2>2. old \in SUBSET Live /\ old \in SUBSET ResultIds
      BY DEF Live
    <2>3. results' = Without(results, old) /\ cleaner' = [Counted(old) EXCEPT !.phase = "select", !.cut = cut]
      BY <2>1
    <2>4. metrics' = metrics
      BY <1>1 DEF StartCleanup
    <2> HIDE DEF old
    <2>5. /\ cleaner'.original = cleaner.original + Cardinality(old \ Copies)
          /\ cleaner'.copy = cleaner.copy + Cardinality(old \cap Copies)
      BY <1>0, <2>2, <2>3, Tallied DEF Cleaner
    <2>6. QED
      BY <2>2, <2>3, <2>4, <2>5, DeletionAccounts
  <1>2. CASE SelectPreserved
    <2>1. /\ UNCHANGED <<results, metrics>>
          /\ cleaner'.original = cleaner.original /\ cleaner'.copy = cleaner.copy
      BY <1>0, <1>2 DEF SelectPreserved, Cleaner
    <2>2. QED
      BY <2>1 DEF LiveAreStored, Accounted, Live, Stored
  <1>3. CASE DeleteBatch
    <2>1. PICK S \in SUBSET Expired : results' = Without(results, S) /\ cleaner' = Counted(S)
      BY <1>3 DEF DeleteBatch
    <2>2. S \in SUBSET Live /\ S \in SUBSET ResultIds
      BY DEF Expired, Successes, Live
    <2>3. metrics' = metrics
      BY <1>3 DEF DeleteBatch
    <2>4. QED
      BY <1>0, <2>1, <2>2, <2>3, Tallied, DeletionAccounts
  <1>4. CASE UpdateMetrics
    <2>1. /\ metrics'.generated = metrics.generated
          /\ metrics'.original = metrics.original + cleaner.original
          /\ metrics'.copy = metrics.copy + cleaner.copy
      BY <1>0, <1>4 DEF UpdateMetrics, Metrics
    <2>2. results' = results /\ cleaner'.original = 0 /\ cleaner'.copy = 0
      BY <1>4 DEF UpdateMetrics, NoCleanup
    <2>3. Cardinality(Live) \in Nat /\ Live' = Live /\ Stored' = Stored
      BY <2>2, Countable DEF Live, Stored
    <2>4. QED
      BY <1>0, <2>1, <2>2, <2>3 DEF LiveAreStored, Accounted, Metrics, Cleaner
  <1>5. QED
    BY <1>1, <1>2, <1>3, <1>4 DEF Cleanup, CrashCleanup

LEMMA NextAccounts ==
  ASSUME ConstantsAssumption, ~CliRuns, ~UserDeletes, ~Crashes, IInv, AInv, [Next]_vars
  PROVE  AInv'
  <1>1. cli' = cli /\ ~RunCli
    BY DEF AInv, Next, vars, ChangeFiles, RunJob, ClaimJob, CompleteServerSide, ListFiles,
           CheckNoChange, CompleteJobNoChange, FallBack, ExecuteTool, CompleteJob, FailJob,
           LoseJob, RunCli, CliPrepare, CliCheck, CliRecordNoChange, CliUpload, CliGiveUp,
           Cleanup, StartCleanup, SelectPreserved, DeleteBatch, UpdateMetrics, CrashCleanup,
           DeleteResult
  <1>2. CASE UNCHANGED <<results, cleaner, metrics>>
    BY <1>1, <1>2 DEF AInv, LiveAreStored, Accounted, Live, Stored
  <1>3. CASE RunJob
    BY <1>1, <1>2, <1>3, RunJobAdds, AdditionAccounts DEF AInv
  <1>4. CASE Cleanup
    BY <1>1, <1>4, CleanupAccounts DEF AInv
  <1>5. QED
    BY <1>1, <1>2, <1>3, <1>4 DEF Next, ChangeFiles, DeleteResult, vars

(* Where results come from jobs and go by retention, and no cleanup is cut *)
(* off, the metrics lose none: what was generated is stored, purged or in  *)
(* the tally, after every commit of every batch.                           *)
THEOREM AlwaysAccounted ==
  ConstantsAssumption /\ ~CliRuns /\ ~UserDeletes /\ ~Crashes /\ Spec => []Accounted
  <1> SUFFICES ASSUME ConstantsAssumption, ~CliRuns, ~UserDeletes, ~Crashes
               PROVE  Spec => []Accounted
    OBVIOUS
  <1>1. Init => IInv /\ AInv
    <2> SUFFICES ASSUME Init
                 PROVE  AInv
      BY InitIInv
    <2>1. Live = {}
      BY DEF Init, NoResult, Live
    <2>2. /\ cleaner.original = 0 /\ cleaner.copy = 0 /\ cli.phase = "idle"
          /\ metrics.generated = 0 /\ metrics.original = 0 /\ metrics.copy = 0
      BY DEF Init, NoCleanup, NoRun
    <2>3. QED
      BY <2>1, <2>2, FS_EmptySet DEF AInv, LiveAreStored, Accounted
  <1>2. IInv /\ AInv /\ [Next]_vars => (IInv /\ AInv)'
    BY NextKeepsIInv, NextAccounts
  <1>3. AInv => Accounted
    BY DEF AInv
  <1>4. QED
    BY <1>1, <1>2, <1>3, PTL DEF Spec

-----------------------------------------------------------------------------
(* The hash and the data.                                                  *)

Matching(run) == run.hash # 0 => run.listing = run.hash

MInv == /\ \A i \in ResultIds : results[i].hash # 0 => results[i].data = results[i].hash
        /\ Matching(job)
        /\ Matching(cli)

LEMMA AdditionMatches ==
  ASSUME ConstantsAssumption, IInv, MInv, NEW S \in SUBSET Copies, Adds(S),
         NEW i \in ResultIds, results'[i].hash # 0
  PROVE  results'[i].data = results'[i].hash
  <1>0. ResultsOK
    BY DEF IInv, TypeOK, ResultsOK
  <1>1. PICK n \in Fresh, new \in Result :
          Told(new) /\ results' = [Without(results, S) EXCEPT ![n] = new]
    BY DEF Adds
  <1>2. n \in ResultIds
    BY DEF Fresh
  <1>3. CASE i = n
    <2>1. results'[i] = new
      BY <1>0, <1>1, <1>2, <1>3, WithoutKeeps
    <2>2. QED
      BY <1>1, <2>1 DEF Told, MInv, Matching
  <1>4. CASE i # n
    <2>1. results'[i].hash = results[i].hash /\ results'[i].data = results[i].data
      BY <1>0, <1>1, <1>2, <1>4, WithoutKeeps
    <2>2. QED
      BY <2>1 DEF MInv
  <1>5. QED
    BY <1>3, <1>4

(* With FileInfo, a job analyses the listing that its hash is of.          *)
LEMMA RunsMatch ==
  ASSUME ConstantsAssumption, Inventory, IInv, MInv, [Next]_vars
  PROVE  Matching(job)' /\ Matching(cli)'
  <1>0. job \in Run /\ cli \in Run /\ files \in Versions /\ TypeOK
    BY DEF IInv, TypeOK
  <1>1. CASE UNCHANGED <<job, cli>>
    BY <1>1 DEF MInv, Matching
  <1>2. CASE RunJob
    <2>1. cli' = cli
      BY <1>2 DEF RunJob, ClaimJob, CompleteServerSide, ListFiles, CheckNoChange,
           CompleteJobNoChange, FallBack, ExecuteTool, CompleteJob, FailJob, LoseJob
    <2>2. CASE ClaimJob
      <3>1. PICK told \in AskPrevious(NoRun) :
              job' = [told EXCEPT !.phase = "claimed", !.listing = IF Inventory THEN files ELSE 0]
        BY <2>2 DEF ClaimJob
      <3>2. told \in Run /\ told.hash = 0
        BY <1>0, AskedInformed, NoRunFits DEF NoRun
      <3>3. job'.hash = 0
        BY <3>1, <3>2 DEF Run
      <3>4. QED
        BY <2>1, <3>3 DEF MInv, Matching
    <2>3. CASE ListFiles
      BY <1>0, <2>1, <2>3 DEF ListFiles, Matching, MInv, Run
    <2>4. CASE CheckNoChange \/ FallBack
      BY <1>0, <2>1, <2>4 DEF CheckNoChange, FallBack, Matching, MInv, Run
    <2>5. CASE ExecuteTool
      BY <1>0, <2>1, <2>5 DEF ExecuteTool, Analysed, Matching, MInv, Run
    <2>6. CASE CompleteJobNoChange \/ CompleteJob \/ FailJob \/ LoseJob
      BY <2>1, <2>6 DEF CompleteJobNoChange, CompleteJob, FailJob, LoseJob, NoRun, Matching, MInv
    <2>7. QED
      BY <1>1, <1>2, <2>1, <2>2, <2>3, <2>4, <2>5, <2>6 DEF RunJob, CompleteServerSide
  <1>3. CASE RunCli
    <2>1. job' = job
      BY <1>3 DEF RunCli, CliPrepare, CliCheck, CliRecordNoChange, CliUpload, CliGiveUp
    <2>2. CASE CliPrepare
      BY <2>1, <2>2 DEF CliPrepare, NoRun, Matching, MInv
    <2>3. CASE CliCheck
      <3>1. PICK told, phase : /\ told \in AskPrevious(cli) \/ told = cli
                               /\ cli' = [told EXCEPT !.phase = phase]
        BY <2>3 DEF CliCheck
      <3>2. told \in Run /\ told.hash = cli.hash /\ told.listing = cli.listing
        BY <1>0, <2>3, <3>1, AskedInformed DEF CliCheck
      <3>3. cli'.hash = cli.hash /\ cli'.listing = cli.listing
        BY <3>1, <3>2 DEF Run
      <3>4. QED
        BY <2>1, <3>3 DEF MInv, Matching
    <2>4. CASE CliRecordNoChange \/ CliUpload \/ CliGiveUp
      BY <2>1, <2>4 DEF CliRecordNoChange, CliUpload, CliGiveUp, NoRun, Matching, MInv
    <2>5. QED
      BY <1>3, <2>2, <2>3, <2>4 DEF RunCli
  <1>4. CASE Cleanup \/ DeleteResult
    BY <1>1, <1>4, CleanupDeletes
  <1>5. QED
    BY <1>1, <1>2, <1>3, <1>4 DEF Next, ChangeFiles, vars

LEMMA NextMatches ==
  ASSUME ConstantsAssumption, Inventory, IInv, MInv, [Next]_vars
  PROVE  MInv'
  <1>1. ASSUME NEW i \in ResultIds, results'[i].hash # 0
        PROVE  results'[i].data = results'[i].hash
    <2>1. CASE results' = results
      BY <1>1, <2>1 DEF MInv
    <2>2. CASE RunJob \/ RunCli
      BY <1>1, <2>1, <2>2, RunJobAdds, RunCliAdds, AdditionMatches
    <2>3. CASE Cleanup \/ DeleteResult
      <3>1. PICK S : results' = Without(results, S)
        BY <2>3, CleanupDeletes
      <3>2. results'[i].hash = results[i].hash /\ results'[i].data = results[i].data
        BY <3>1, WithoutKeeps DEF IInv, TypeOK, ResultsOK
      <3>3. QED
        BY <1>1, <3>2 DEF MInv
    <2>4. QED
      BY <2>1, <2>2, <2>3 DEF Next, ChangeFiles, vars
  <1>2. QED
    BY <1>1, RunsMatch DEF MInv

(* Where the jobs get FileInfo from an inventory, a result that names an   *)
(* input state was computed from that very state, however often the files  *)
(* change between the hash, the analysis and the upload.                   *)
THEOREM DataAlwaysMatchesHash ==
  ConstantsAssumption /\ Inventory /\ Spec => []DataMatchesHash
  <1> SUFFICES ASSUME ConstantsAssumption, Inventory
               PROVE  Spec => []DataMatchesHash
    OBVIOUS
  <1>1. Init => IInv /\ MInv
    <2> SUFFICES ASSUME Init
                 PROVE  MInv
      BY InitIInv
    <2>1. QED
      BY DEF Init, NoResult, NoRun, MInv, Matching
  <1>2. IInv /\ MInv /\ [Next]_vars => (IInv /\ MInv)'
    BY NextKeepsIInv, NextMatches
  <1>3. MInv => DataMatchesHash
    BY DEF MInv, DataMatchesHash, Successes, Live
  <1>4. QED
    BY <1>1, <1>2, <1>3, PTL DEF Spec
=============================================================================
