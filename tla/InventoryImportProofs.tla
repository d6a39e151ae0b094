----------------------- MODULE InventoryImportProofs -----------------------
(* Of the imports of one connector, for any number of agents, jobs,        *)
(* configurations and listings: one at most waits on the schedule; where   *)
(* nothing fails the chain of imports does not break; and with one agent   *)
(* the file info never goes back and its delta describes it.               *)
EXTENDS InventoryImport, FiniteSetTheorems, TLAPS

Rows == [JobIds -> Job]
Waits(row) == row.tool = "import" /\ row.state \in {"SCHEDULED", "due"}

(* A process that is not idle has a job; what it reports was listed.       *)
Working == \A a \in Agents : proc[a].phase # "idle" =>
             /\ proc[a].job \in JobIds
             /\ proc[a].phase = "folders" => proc[a].read >= 1

OneWaits(js) == \A i, j \in JobIds : Waits(js[i]) /\ Waits(js[j]) => i = j

IInv == TypeOK /\ Working /\ OneWaits(jobs)

LEMMA Bounds ==
  ASSUME ConstantsAssumption
  PROVE  /\ MaxConfigs \in Nat /\ MaxJobs \in Nat /\ MaxListings \in Nat /\ MaxListings >= 1
         /\ Null \notin Configs /\ Null \notin Agents
         /\ Failures \in BOOLEAN /\ Clears \in BOOLEAN
  BY DEF ConstantsAssumption

LEMMA NoJobFits == NoJob \in Job /\ ~ Waits(NoJob) /\ NoJob.state = "none"
  BY DEF NoJob, Job, Open, Queued, Held, Waits

LEMMA NewJobFits ==
  ASSUME NEW tool \in {"validate", "import"}, NEW state \in {"PENDING", "SCHEDULED"},
         NEW config \in Configs
  PROVE  /\ NewJob(tool, state, config) \in Job
         /\ NewJob(tool, state, config).tool = tool
         /\ NewJob(tool, state, config).state = state
         /\ NewJob(tool, state, config).config = config
         /\ NewJob(tool, state, config).agent = Null
  BY DEF NewJob, Job, Open, Queued, Held

LEMMA IdleFits ==
  ASSUME ConstantsAssumption
  PROVE  Idle \in Proc /\ Idle.phase = "idle"
  BY Bounds DEF Idle, Proc, Listings

LEMMA InitIInv ==
  ASSUME ConstantsAssumption, Init
  PROVE  IInv
  <1>1. connector \in Connector
    BY DEF Init, NoConnector, Connector
  <1>2. jobs \in Rows /\ \A j \in JobIds : jobs[j] = NoJob
    BY NoJobFits DEF Init, Rows
  <1>3. proc \in [Agents -> Proc] /\ \A a \in Agents : proc[a].phase = "idle"
    BY IdleFits DEF Init
  <1>4. collection \in Collection /\ listing \in 1 .. MaxListings /\ edits \in 0 .. MaxConfigs
    BY Bounds DEF Init, Collection, Listings
  <1>5. TypeOK
    BY <1>1, <1>2, <1>3, <1>4 DEF Init, TypeOK, Rows
  <1>6. QED
    BY <1>2, <1>3, <1>5, NoJobFits DEF IInv, Working, OneWaits

-----------------------------------------------------------------------------
(* Rows that a request puts, cancels or renews.                            *)
LEMMA Put ==
  ASSUME NEW js \in Rows, NEW j \in JobIds, NEW row \in Job, Waits(row) => Waits(js[j]),
         NEW new, new = [js EXCEPT ![j] = row]
  PROVE  /\ new \in Rows
         /\ new[j] = row
         /\ \A i \in JobIds \ {j} : new[i] = js[i]
         /\ OneWaits(js) => OneWaits(new)
  <1>1. new \in Rows /\ new[j] = row /\ \A i \in JobIds \ {j} : new[i] = js[i]
    BY DEF Rows
  <1>2. OneWaits(js) => OneWaits(new)
    BY <1>1 DEF OneWaits
  <1>3. QED
    BY <1>1, <1>2

LEMMA Cancelled ==
  ASSUME NEW js \in Rows
  PROVE  /\ CancelScheduled(js) \in Rows
         /\ \A j \in JobIds : CancelScheduled(js)[j] = IF Waits(js[j]) THEN NoJob ELSE js[j]
         /\ OneWaits(CancelScheduled(js))
  <1>1. \A j \in JobIds : j \in ScheduledImports(js) <=> Waits(js[j])
    BY DEF ScheduledImports, Waits
  <1>2. /\ CancelScheduled(js) \in Rows
        /\ \A j \in JobIds : CancelScheduled(js)[j] = IF Waits(js[j]) THEN NoJob ELSE js[j]
    BY <1>1, NoJobFits DEF CancelScheduled, Rows
  <1>3. QED
    BY <1>2, NoJobFits DEF OneWaits

(* A renewal takes a free row, and only the scheduled import is cancelled. *)
LEMMA Renewal ==
  ASSUME ConstantsAssumption, NEW js \in Rows, NEW c \in Connector, NEW new \in Renewed(js, c)
  PROVE  /\ new \in Rows
         /\ OneWaits(js) => OneWaits(new)
         /\ \A j \in JobIds : \/ new[j] = js[j]
                              \/ Waits(js[j]) /\ new[j] = NoJob
                              \/ /\ js[j] = NoJob \/ Waits(js[j])
                                 /\ new[j] = NewJob("import", "SCHEDULED", c.config)
                                 /\ c.config \in Configs
         /\ c.config \in Configs /\ c.schedule = "daily"
              => \E j \in JobIds : new[j] = NewJob("import", "SCHEDULED", c.config)
  <1>1. CASE c.schedule = "manual" \/ c.config = Null
    <2>1. new = js
      BY <1>1 DEF Renewed
    <2>2. QED
      BY <1>1, <2>1, Bounds
  <1>2. CASE ~ (c.schedule = "manual" \/ c.config = Null)
    <2> DEFINE import == NewJob("import", "SCHEDULED", c.config)
               cancelled == CancelScheduled(js)
    <2>1. c.config \in Configs
      BY <1>2 DEF Connector
    <2>2. PICK j \in JobIds : Fresh(js, j) /\ new = [cancelled EXCEPT ![j] = import]
      BY <1>2 DEF Renewed
    <2>3. js[j] = NoJob
      BY <2>2 DEF Fresh, Free
    <2>4. import \in Job
      BY <2>1, NewJobFits
    <2> HIDE DEF import, cancelled
    <2>5. /\ cancelled \in Rows
          /\ \A i \in JobIds : cancelled[i] = IF Waits(js[i]) THEN NoJob ELSE js[i]
      BY Cancelled DEF cancelled
    <2>6. new \in Rows /\ new[j] = import /\ \A i \in JobIds \ {j} : new[i] = cancelled[i]
      BY <2>2, <2>4, <2>5 DEF Rows
    <2>7. OneWaits(new)
      BY <2>5, <2>6, NoJobFits DEF OneWaits
    <2>8. QED
      BY <2>1, <2>3, <2>5, <2>6, <2>7 DEF import
  <1>3. QED
    BY <1>1, <1>2

(* A process that goes on with its job.                                    *)
LEMMA GoesOn ==
  ASSUME TypeOK, Working, NEW a \in Agents, proc[a].phase # "idle",
         NEW phase \in {"starting", "check", "list", "collections", "info", "delta",
                        "finish", "fail"},
         NEW read \in Listings, NEW known \in Listings,
         proc' = [proc EXCEPT ![a].phase = phase, ![a].read = read, ![a].known = known]
  PROVE  proc' \in [Agents -> Proc] /\ Working'
  <1> DEFINE next == [proc[a] EXCEPT !.phase = phase, !.read = read, !.known = known]
  <1>1. proc[a] \in Proc /\ proc[a].job \in JobIds
    BY DEF TypeOK, Working
  <1>2. next \in Proc /\ next.phase = phase /\ next.job = proc[a].job
    BY <1>1 DEF Proc
  <1>3. proc' = [proc EXCEPT ![a] = next]
    BY ZenonT(30)
  <1> HIDE DEF next
  <1>4. proc' \in [Agents -> Proc]
    BY <1>2, <1>3 DEF TypeOK
  <1>5. proc'[a] = next /\ \A b \in Agents \ {a} : proc'[b] = proc[b]
    BY <1>3 DEF TypeOK
  <1>6. QED
    BY <1>1, <1>2, <1>4, <1>5 DEF Working

LEMMA Leaves ==
  ASSUME ConstantsAssumption, TypeOK, Working, NEW a \in Agents,
         proc' = [proc EXCEPT ![a] = Idle]
  PROVE  proc' \in [Agents -> Proc] /\ Working'
  BY IdleFits DEF TypeOK, Working

LEMMA GotoFits ==
  ASSUME TypeOK, Working, NEW a \in Agents, proc[a].phase # "idle",
         NEW phase \in {"starting", "check", "list", "collections", "info", "delta",
                        "finish", "fail"},
         Goto(a, phase)
  PROVE  proc' \in [Agents -> Proc] /\ Working'
  <1> DEFINE next == [proc[a] EXCEPT !.phase = phase]
  <1>1. proc[a] \in Proc /\ proc[a].job \in JobIds
    BY DEF TypeOK, Working
  <1>2. next \in Proc /\ next.phase = phase /\ next.job = proc[a].job
    BY <1>1 DEF Proc
  <1>3. proc' = [proc EXCEPT ![a] = next]
    BY DEF TypeOK, Proc, Goto
  <1> HIDE DEF next
  <1>4. QED
    BY <1>1, <1>2, <1>3 DEF TypeOK, Working
-----------------------------------------------------------------------------
(* Every step keeps the types and the one import that waits.               *)
LEMMA TypesOfSteps ==
  ASSUME IInv, proc' \in [Agents -> Proc], Working',
         connector' \in Connector, checking' \in Configs \cup {Null},
         jobs' \in Rows, OneWaits(jobs'),
         listing' \in 1 .. MaxListings, folders' \subseteq 1 .. MaxListings,
         collection' \in Collection, edits' \in 0 .. MaxConfigs
  PROVE  IInv'
  BY DEF IInv, TypeOK, Rows

LEMMA UpdateValidationFits ==
  ASSUME ConstantsAssumption, IInv, NEW success \in BOOLEAN, UpdateValidation(success)
  PROVE  connector' \in Connector /\ jobs' \in Rows /\ OneWaits(jobs')
  <1> DEFINE updated == [connector EXCEPT !.status = IF success THEN "validated" ELSE "failed"]
  <1>1. updated \in Connector /\ connector' = updated
    BY DEF UpdateValidation, IInv, TypeOK, Connector
  <1>2. jobs' = jobs \/ jobs' \in Renewed(jobs, updated)
    BY DEF UpdateValidation
  <1> HIDE DEF updated
  <1>3. jobs \in Rows /\ OneWaits(jobs)
    BY DEF IInv, TypeOK, Rows
  <1>4. QED
    BY <1>1, <1>2, <1>3, Renewal

LEMMA PutRow ==
  ASSUME IInv, NEW j \in JobIds, NEW row \in Job, Waits(row) => Waits(jobs[j]),
         jobs' = [jobs EXCEPT ![j] = row]
  PROVE  jobs' \in Rows /\ OneWaits(jobs')
  BY Put DEF IInv, TypeOK, Rows

LEMMA UserStep ==
  ASSUME ConstantsAssumption, IInv,
         \/ \E c \in Configs, s \in {"manual", "daily"} : SetConfig(c, s)
         \/ ClearConfig \/ CreateCollection \/ NewListing \/ StartCheck \/ EndCheck
  PROVE  IInv'
  <1> USE Bounds
  <1>1. jobs \in Rows /\ OneWaits(jobs) /\ TypeOK /\ Working
    BY DEF IInv, TypeOK, Rows
  <1>2. CancelScheduled(jobs) \in Rows /\ OneWaits(CancelScheduled(jobs))
    BY <1>1, Cancelled
  <1>3. ASSUME NEW c \in Configs, NEW s \in {"manual", "daily"}, SetConfig(c, s)
        PROVE  IInv'
    <2>1. connector' \in Connector
      BY <1>3 DEF SetConfig, Connector
    <2>2. edits' \in 0 .. MaxConfigs
      BY <1>1, <1>3 DEF SetConfig, TypeOK
    <2>3. QED
      BY <1>1, <1>2, <1>3, <2>1, <2>2, TypesOfSteps DEF SetConfig, TypeOK, Working
  <1>4. CASE ClearConfig
    <2>1. connector' \in Connector /\ collection' \in Collection
      BY <1>1, <1>4 DEF ClearConfig, NoConnector, Connector, Collection, TypeOK
    <2>2. QED
      BY <1>1, <1>2, <1>4, <2>1, TypesOfSteps DEF ClearConfig, TypeOK, Working
  <1>5. CASE CreateCollection
    <2>1. collection' \in Collection
      BY <1>1, <1>5 DEF CreateCollection, Collection, TypeOK
    <2>2. QED
      BY <1>1, <1>5, <2>1, TypesOfSteps DEF CreateCollection, TypeOK, Working
  <1>6. CASE NewListing
    <2>1. listing' \in 1 .. MaxListings
      BY <1>1, <1>6 DEF NewListing, TypeOK
    <2>2. QED
      BY <1>1, <1>6, <2>1, TypesOfSteps DEF NewListing, TypeOK, Working
  <1>7. CASE StartCheck
    <2>1. connector' \in Connector /\ checking' \in Configs
      BY <1>1, <1>7 DEF StartCheck, Connector, TypeOK
    <2>2. QED
      BY <1>1, <1>7, <2>1, TypesOfSteps DEF StartCheck, TypeOK, Working
  <1>8. CASE EndCheck
    <2>1. connector' \in Connector /\ jobs' \in Rows /\ OneWaits(jobs')
      <3>1. UpdateValidation(TRUE) \/ UpdateValidation(FALSE)
        BY <1>8 DEF EndCheck, UpdateValidation
      <3>2. QED
        BY <3>1, UpdateValidationFits
    <2>2. QED
      BY <1>1, <1>8, <2>1, TypesOfSteps DEF EndCheck, TypeOK, Working
  <1>9. QED
    BY <1>3, <1>4, <1>5, <1>6, <1>7, <1>8

LEMMA QueueStep ==
  ASSUME ConstantsAssumption, IInv, NEW j \in JobIds,
         RequestValidation(j) \/ ImportNow(j) \/ CancelJob(j) \/ BecomeDue(j) \/ Release(j)
  PROVE  IInv'
  <1> USE Bounds
  <1>1. jobs \in Rows /\ OneWaits(jobs) /\ TypeOK /\ Working /\ jobs[j] \in Job
    BY DEF IInv, TypeOK, Rows
  <1>2. CASE RequestValidation(j)
    <2>1. connector' \in Connector /\ connector.config \in Configs
      BY <1>1, <1>2 DEF RequestValidation, Connector, TypeOK
    <2>2. jobs' \in Rows /\ OneWaits(jobs')
      <3> DEFINE row == NewJob("validate", "PENDING", connector.config)
      <3>1. row \in Job /\ ~ Waits(row) /\ jobs' = [jobs EXCEPT ![j] = row]
        BY <1>2, <2>1, NewJobFits DEF RequestValidation, Waits
      <3> HIDE DEF row
      <3>2. QED
        BY <3>1, PutRow
    <2>3. QED
      BY <1>1, <1>2, <2>1, <2>2, TypesOfSteps DEF RequestValidation, TypeOK, Working
  <1>3. CASE ImportNow(j)
    <2>1. connector.config \in Configs
      BY <1>1, <1>3 DEF ImportNow, MayImport, Connector, TypeOK
    <2>2. jobs' \in Rows /\ OneWaits(jobs')
      <3> DEFINE row == NewJob("import", "PENDING", connector.config)
      <3>1. row \in Job /\ ~ Waits(row) /\ jobs' = [jobs EXCEPT ![j] = row]
        BY <1>3, <2>1, NewJobFits DEF ImportNow, Waits
      <3> HIDE DEF row
      <3>2. QED
        BY <3>1, PutRow
    <2>3. QED
      BY <1>1, <1>3, <2>2, TypesOfSteps DEF ImportNow, TypeOK, Working
  <1>4. CASE CancelJob(j)
    <2>1. jobs' \in Rows /\ OneWaits(jobs')
      <3> DEFINE row == IF \E a \in Agents : proc[a].job = j
                        THEN [jobs[j] EXCEPT !.state = "CANCELLED"] ELSE NoJob
      <3>1. row \in Job /\ ~ Waits(row)
        BY <1>1, NoJobFits DEF Job, Waits
      <3>2. jobs' = [jobs EXCEPT ![j] = row]
        BY <1>4 DEF CancelJob
      <3> HIDE DEF row
      <3>3. QED
        BY <3>1, <3>2, PutRow
    <2>2. QED
      BY <1>1, <1>4, <2>1, TypesOfSteps DEF CancelJob, TypeOK, Working
  <1>5. CASE BecomeDue(j)
    <2>1. jobs' \in Rows /\ OneWaits(jobs')
      <3> DEFINE row == [jobs[j] EXCEPT !.state = "due"]
      <3>1. row \in Job /\ (Waits(row) => Waits(jobs[j]))
        BY <1>1, <1>5 DEF BecomeDue, Job, Waits, Open, Queued
      <3>2. jobs' = [jobs EXCEPT ![j] = row]
        BY <1>1, <1>5 DEF BecomeDue, Rows, Job
      <3> HIDE DEF row
      <3>3. QED
        BY <3>1, <3>2, PutRow
    <2>2. QED
      BY <1>1, <1>5, <2>1, TypesOfSteps DEF BecomeDue, TypeOK, Working
  <1>6. CASE Release(j)
    <2>1. jobs' \in Rows /\ OneWaits(jobs')
      <3>1. Released(jobs[j]) \in Job /\ ~ Waits(Released(jobs[j]))
        BY <1>1 DEF Released, Job, Waits, Open, Queued
      <3>2. QED
        BY <1>6, <3>1, PutRow DEF Release
    <2>2. QED
      BY <1>1, <1>6, <2>1, TypesOfSteps DEF Release, TypeOK, Working
  <1>7. QED
    BY <1>2, <1>3, <1>4, <1>5, <1>6
(* What becomes of the row of a's job.                                     *)
LEMMA EndedFits ==
  ASSUME IInv, NEW a \in Agents, proc[a].phase # "idle"
  PROVE  /\ Ended(a) \in Rows /\ OneWaits(Ended(a))
         /\ \A j \in JobIds : Ended(a)[j] = IF j = Job0(a) /\ Owns(a) THEN NoJob ELSE jobs[j]
  <1>1. jobs \in Rows /\ OneWaits(jobs) /\ Job0(a) \in JobIds
    BY DEF IInv, TypeOK, Working, Rows, Job0
  <1>2. CASE Owns(a)
    <2>1. Ended(a) = [jobs EXCEPT ![Job0(a)] = NoJob]
      BY <1>2 DEF Ended
    <2> DEFINE new == Ended(a)
    <2> HIDE DEF new
    <2>2. new = [jobs EXCEPT ![Job0(a)] = NoJob]
      BY <2>1 DEF new
    <2>3. /\ new \in Rows /\ OneWaits(new) /\ new[Job0(a)] = NoJob
          /\ \A i \in JobIds \ {Job0(a)} : new[i] = jobs[i]
      <3> USE Put, NoJobFits
      <3>1. QED
        BY <1>1, <2>2 DEF Rows
    <2>4. QED
      BY <1>2, <2>3 DEF new
  <1>3. CASE ~ Owns(a)
    BY <1>1, <1>3 DEF Ended
  <1>4. QED
    BY <1>2, <1>3

LEMMA ClaimFits ==
  ASSUME ConstantsAssumption, IInv, NEW a \in Agents, NEW j \in JobIds, Claim(a, j)
  PROVE  /\ proc' \in [Agents -> Proc] /\ Working' /\ jobs' \in Rows /\ OneWaits(jobs')
         /\ proc'[a].phase = "starting" /\ proc'[a].job = j /\ proc'[a].config = jobs[j].config
         /\ \A b \in Agents \ {a} : proc'[b] = proc[b]
         /\ jobs'[j] = [jobs[j] EXCEPT !.state = "ASSIGNED", !.agent = a]
         /\ \A i \in JobIds \ {j} : jobs'[i] = jobs[i]
  <1> DEFINE row == [jobs[j] EXCEPT !.state = "ASSIGNED", !.agent = a]
             next == [Idle EXCEPT !.phase = "starting", !.job = j, !.config = jobs[j].config]
  <1>1. jobs[j] \in Job /\ jobs \in Rows /\ OneWaits(jobs)
    BY DEF IInv, TypeOK, Rows
  <1>2. row \in Job /\ ~ Waits(row)
    BY <1>1 DEF Job, Waits, Open, Queued, Held
  <1>3. jobs' = [jobs EXCEPT ![j] = row]
    BY <1>1 DEF Claim, Rows, Job
  <1>4. next \in Proc /\ next.phase = "starting" /\ next.job = j /\ next.config = jobs[j].config
    <2>1. jobs[j].config \in Configs \cup {Null} /\ 0 \in Listings
      BY <1>1, Bounds DEF Job, Listings
    <2>2. QED
      BY <2>1 DEF Idle, Proc
  <1>5. proc' = [proc EXCEPT ![a] = next]
    BY DEF Claim
  <1> HIDE DEF next
  <1>6. /\ proc' \in [Agents -> Proc] /\ Working' /\ proc'[a] = next
        /\ \A b \in Agents \ {a} : proc'[b] = proc[b]
    BY <1>4, <1>5 DEF IInv, TypeOK, Working
  <1>7. /\ jobs' \in Rows /\ OneWaits(jobs') /\ jobs'[j] = row
        /\ \A i \in JobIds \ {j} : jobs'[i] = jobs[i]
    <2> HIDE DEF row
    <2>1. QED
      BY <1>1, <1>2, <1>3, Put DEF Rows
  <1>8. QED
    BY <1>4, <1>6, <1>7

LEMMA StartFits ==
  ASSUME ConstantsAssumption, IInv, NEW a \in Agents, Start(a)
  PROVE  /\ proc' \in [Agents -> Proc] /\ Working' /\ jobs' \in Rows /\ OneWaits(jobs')
         /\ Goto(a, FirstPhase(a))
         /\ \A j \in JobIds :
              jobs'[j] = IF j = Job0(a) /\ Owns(a) /\ jobs[j].state = "ASSIGNED"
                         THEN [jobs[j] EXCEPT !.state = "RUNNING"] ELSE jobs[j]
  <1> DEFINE j == Job0(a)
             row == [jobs[j] EXCEPT !.state = "RUNNING"]
  <1>1. jobs \in Rows /\ OneWaits(jobs) /\ j \in JobIds /\ jobs[j] \in Job
    BY DEF Start, IInv, TypeOK, Working, Rows, Job0
  <1>2. FirstPhase(a) \in {"fail", "check", "list"} /\ Goto(a, FirstPhase(a))
    BY DEF Start, FirstPhase
  <1>3. proc' \in [Agents -> Proc] /\ Working'
    BY <1>2, GotoFits DEF Start, IInv
  <1>4. row \in Job /\ ~ Waits(row)
    BY <1>1 DEF Job, Waits, Open, Queued, Held
  <1>5. CASE Owns(a) /\ jobs[j].state = "ASSIGNED"
    <2>1. jobs' = [jobs EXCEPT ![j] = row]
      BY <1>1, <1>5 DEF Start, Rows, Job
    <2>2. jobs' \in Rows /\ OneWaits(jobs') /\ jobs'[j] = row
          /\ \A i \in JobIds \ {j} : jobs'[i] = jobs[i]
      <3> HIDE DEF row, j
      <3>1. QED
        BY <1>1, <1>4, <2>1, Put DEF Rows
    <2>3. QED
      BY <1>2, <1>3, <1>5, <2>2
  <1>6. CASE ~ (Owns(a) /\ jobs[j].state = "ASSIGNED")
    BY <1>1, <1>2, <1>3, <1>6 DEF Start
  <1>7. QED
    BY <1>5, <1>6

LEMMA AgentStep ==
  ASSUME ConstantsAssumption, IInv, NEW a \in Agents,
         Work(a) \/ LoseReport(a) \/ Stop(a) \/ \E j \in JobIds : Claim(a, j)
  PROVE  IInv'
  <1> USE Bounds
  <1>1. jobs \in Rows /\ OneWaits(jobs) /\ TypeOK /\ Working /\ proc[a] \in Proc
    BY DEF IInv, TypeOK, Rows
  <1>2. CASE Start(a)
    BY <1>1, <1>2, StartFits, TypesOfSteps DEF Start, TypeOK
  <1>3. CASE ReportValidation(a)
    <2>1. proc' \in [Agents -> Proc] /\ Working'
      BY <1>1, <1>3, GotoFits DEF ReportValidation
    <2>2. UpdateValidation(TRUE) \/ UpdateValidation(FALSE) \/ UNCHANGED <<connector, jobs>>
      BY <1>3 DEF ReportValidation, UpdateValidation
    <2>3. connector' \in Connector /\ jobs' \in Rows /\ OneWaits(jobs')
      BY <1>1, <2>2, UpdateValidationFits DEF TypeOK
    <2>4. QED
      BY <1>1, <1>3, <2>1, <2>3, TypesOfSteps DEF ReportValidation, TypeOK
  <1>4. CASE List(a)
    <2> DEFINE phase == IF proc[a].config \in Reachable THEN "folders" ELSE "fail"
               next == [proc[a] EXCEPT !.phase = phase, !.read = listing]
    <2>1. proc' = [proc EXCEPT ![a] = next]
      BY <1>1, <1>4 DEF List, TypeOK, Proc
    <2>2. next \in Proc /\ next.job = proc[a].job /\ next.read >= 1 /\ proc[a].job \in JobIds
      <3>1. /\ listing >= 1 /\ listing \in Listings /\ proc[a].job \in JobIds
            /\ phase \in {"folders", "fail"}
        BY <1>1, <1>4 DEF List, TypeOK, Working, Listings
      <3>2. QED
        BY <1>1, <3>1 DEF Proc
    <2>3. proc' \in [Agents -> Proc] /\ Working'
      <3> HIDE DEF next
      <3>1. QED
        BY <1>1, <2>1, <2>2 DEF TypeOK, Working
    <2>4. QED
      BY <1>1, <1>4, <2>3, TypesOfSteps DEF List, ServerUnchanged, TypeOK
  <1>5. CASE ReportFolders(a)
    <2>1. proc' \in [Agents -> Proc] /\ Working'
      BY <1>1, <1>5, GotoFits DEF ReportFolders
    <2>2. folders' \subseteq 1 .. MaxListings
      <3>1. proc[a].read \in Listings /\ proc[a].read >= 1
        BY <1>1, <1>5 DEF ReportFolders, Working, Proc
      <3>2. proc[a].read \in 1 .. MaxListings
        BY <3>1 DEF Listings
      <3>3. QED
        BY <1>1, <1>5, <3>2 DEF ReportFolders, TypeOK
    <2>3. QED
      BY <1>1, <1>5, <2>1, <2>2, TypesOfSteps DEF ReportFolders, TypeOK
  <1>6. CASE FetchCollections(a)
    <2> DEFINE phase == IF collection.mapped THEN "info" ELSE "finish"
    <2>1. proc' = [proc EXCEPT ![a].phase = phase, ![a].read = proc[a].read,
                               ![a].known = collection.info]
      BY <1>1, <1>6 DEF FetchCollections, TypeOK, Proc
    <2>2. proc[a].read \in Listings /\ collection.info \in Listings
      BY <1>1 DEF TypeOK, Proc, Collection
    <2>3. phase \in {"info", "finish"} /\ proc[a].phase # "idle"
      BY <1>6 DEF FetchCollections
    <2>4. proc' \in [Agents -> Proc] /\ Working'
      <3> HIDE DEF phase
      <3>1. QED
        BY <1>1, <2>1, <2>2, <2>3, GoesOn
    <2>5. QED
      BY <1>1, <1>6, <2>4, TypesOfSteps DEF FetchCollections, ServerUnchanged, TypeOK
  <1>7. CASE ReportFileInfo(a)
    <2>1. proc' \in [Agents -> Proc] /\ Working'
      BY <1>1, <1>7, GotoFits DEF ReportFileInfo
    <2>2. collection' \in Collection
      BY <1>1, <1>7 DEF ReportFileInfo, StoreFileInfo, TypeOK, Collection, Proc
    <2>3. QED
      BY <1>1, <1>7, <2>1, <2>2, TypesOfSteps DEF ReportFileInfo, TypeOK
  <1>8. CASE ReportDelta(a)
    <2>1. proc' \in [Agents -> Proc] /\ Working'
      BY <1>1, <1>8, GotoFits DEF ReportDelta
    <2>2. collection' \in Collection
      BY <1>1, <1>8 DEF ReportDelta, StoreDelta, TypeOK, Collection, Proc
    <2>3. QED
      BY <1>1, <1>8, <2>1, <2>2, TypesOfSteps DEF ReportDelta, TypeOK
  <1>9. CASE Complete(a)
    <2>1. proc' \in [Agents -> Proc] /\ Working'
      BY <1>1, <1>9, Leaves DEF Complete
    <2>2. Ended(a) \in Rows /\ OneWaits(Ended(a))
      BY <1>9, EndedFits DEF Complete
    <2>3. jobs' = Ended(a) \/ jobs' \in Renewed(Ended(a), connector)
      BY <1>9 DEF Complete
    <2>4. jobs' \in Rows /\ OneWaits(jobs')
      BY <1>1, <2>2, <2>3, Renewal DEF TypeOK
    <2>5. QED
      BY <1>1, <1>9, <2>1, <2>4, TypesOfSteps DEF Complete, TypeOK
  <1>10. CASE Fail(a)
    <2>1. proc' \in [Agents -> Proc] /\ Working'
      BY <1>1, <1>10, Leaves DEF Fail
    <2>2. jobs' \in Rows /\ OneWaits(jobs')
      BY <1>10, EndedFits DEF Fail
    <2>3. QED
      BY <1>1, <1>10, <2>1, <2>2, TypesOfSteps DEF Fail, TypeOK
  <1>11. CASE Stop(a)
    <2>1. proc' \in [Agents -> Proc] /\ Working'
      BY <1>1, <1>11, Leaves DEF Stop
    <2>2. jobs' \in Rows /\ OneWaits(jobs')
      BY <1>1, <1>11, EndedFits DEF Stop
    <2>3. QED
      BY <1>1, <1>11, <2>1, <2>2, TypesOfSteps DEF Stop, TypeOK
  <1>12. CASE LoseReport(a)
    <2>1. proc' \in [Agents -> Proc] /\ Working'
      BY <1>1, <1>12, GotoFits DEF LoseReport
    <2>2. QED
      BY <1>1, <1>12, <2>1, TypesOfSteps DEF LoseReport, ServerUnchanged, TypeOK
  <1>13. CASE \E j \in JobIds : Claim(a, j)
    <2>1. PICK j \in JobIds : Claim(a, j)
      BY <1>13
    <2>2. proc' \in [Agents -> Proc] /\ Working' /\ jobs' \in Rows /\ OneWaits(jobs')
      BY <2>1, ClaimFits
    <2>3. QED
      BY <1>1, <2>1, <2>2, TypesOfSteps DEF Claim, TypeOK
  <1>14. QED
    BY <1>2, <1>3, <1>4, <1>5, <1>6, <1>7, <1>8, <1>9, <1>10, <1>11, <1>12, <1>13 DEF Work

LEMMA StepIInv ==
  ASSUME ConstantsAssumption, IInv, [Next]_vars
  PROVE  IInv'
  <1>1. CASE UNCHANGED vars
    BY <1>1 DEF IInv, TypeOK, Working, OneWaits, vars
  <1>2. CASE Next
    BY <1>2, UserStep, QueueStep, AgentStep DEF Next
  <1>3. QED
    BY <1>1, <1>2

(* The configuration, schedule and rows of a connector, the agents'        *)
(* processes and the collection keep their types.                          *)
THEOREM TypeCorrect == ConstantsAssumption /\ Spec => []TypeOK
  <1> SUFFICES ASSUME ConstantsAssumption
               PROVE  Spec => []TypeOK
    OBVIOUS
  <1>1. Init => IInv
    BY InitIInv
  <1>2. IInv /\ [Next]_vars => IInv'
    BY StepIInv
  <1>3. IInv => TypeOK
    BY DEF IInv
  <1>4. QED
    BY <1>1, <1>2, <1>3, PTL DEF Spec

(* However validations, completions, edits and clears of overlapping       *)
(* agents and users follow one another, and whatever fails, a connector    *)
(* has at most one import waiting on the schedule.                         *)
THEOREM NeverTwoScheduled == ConstantsAssumption /\ Spec => []OneScheduledImport
  <1> SUFFICES ASSUME ConstantsAssumption
               PROVE  Spec => []OneScheduledImport
    OBVIOUS
  <1>1. Init => IInv
    BY InitIInv
  <1>2. IInv /\ [Next]_vars => IInv'
    BY StepIInv
  <1>3. IInv => OneScheduledImport
    <2> SUFFICES ASSUME IInv
                 PROVE  OneScheduledImport
      OBVIOUS
    <2>1. \A i, j \in ScheduledImports(jobs) : i = j
      BY DEF IInv, OneWaits, Waits, ScheduledImports
    <2>2. ScheduledImports(jobs) = {} \/ \E i : ScheduledImports(jobs) = {i}
      BY <2>1
    <2>3. Cardinality(ScheduledImports(jobs)) \in {0, 1}
      BY <2>2, FS_EmptySet, FS_Singleton
    <2>4. QED
      BY <2>3 DEF OneScheduledImport
  <1>4. QED
    BY <1>1, <1>2, <1>3, PTL DEF Spec
-----------------------------------------------------------------------------
(* Where nothing fails and nothing is cancelled, a process works on a row  *)
(* that is held in its name, with the configuration the row was given.     *)
AtWork == \A a \in Agents : proc[a].phase # "idle" =>
            /\ proc[a].config \in Configs
            /\ Owns(a)
            /\ \/ jobs[Job0(a)].state = "RUNNING"
               \/ jobs[Job0(a)].state = "ASSIGNED" /\ proc[a].phase = "starting"

Configured == /\ \A j \in JobIds : jobs[j].state \in Open => jobs[j].config \in Configs
              /\ connector.config = Null => connector.schedule = "manual"

(* Such an import ends well when the inventory can be read, and then the   *)
(* next one is scheduled.                                                  *)
NoneFails == \A a \in Agents : proc[a].phase # "fail"

WInv == IInv /\ AtWork /\ Configured
CInv == WInv /\ NoneFails /\ ScheduleContinues

(* With one agent, what it lists is never older than what is stored, and   *)
(* what it compares with is what is stored until it reports the file info. *)
Ordered == \A a \in Agents :
  /\ collection.info <= listing
  /\ proc[a].phase \in {"folders", "collections", "info", "delta"} =>
       collection.info <= proc[a].read /\ proc[a].read <= listing

Compared == \A a \in Agents :
  /\ proc[a].phase = "info" => collection.mapped /\ proc[a].known = collection.info
  /\ IF proc[a].phase = "delta"
     THEN collection.mapped /\ collection.info = proc[a].read /\ proc[a].known <= proc[a].read
     ELSE collection.to = collection.info /\ collection.from <= collection.to

-----------------------------------------------------------------------------
(* Rows that are held stay, and what is queued has a configuration.        *)
RowsKept(js, new) ==
  \A j \in JobIds : \/ new[j] = js[j]
                     \/ /\ js[j].state \notin Held
                        /\ new[j].state \in Open => new[j].config \in Configs

LEMMA NewImport ==
  ASSUME NEW config \in Configs, NEW row, row = NewJob("import", "SCHEDULED", config)
  PROVE  /\ row.tool = "import" /\ row.state = "SCHEDULED" /\ row.config = config
         /\ row.state \in Open /\ row.state \notin Held
  BY DEF NewJob, Open, Held

LEMMA RenewalKeeps ==
  ASSUME ConstantsAssumption, NEW js \in Rows, NEW c \in Connector, NEW new \in Renewed(js, c)
  PROVE  RowsKept(js, new)
  <1> SUFFICES ASSUME NEW j \in JobIds, new[j] # js[j]
               PROVE  /\ js[j].state \notin Held
                      /\ new[j].state \in Open => new[j].config \in Configs
    BY DEF RowsKept
  <1>1. js[j] = NoJob \/ Waits(js[j])
    BY Renewal
  <1>2. js[j].state \notin Held
    BY <1>1, NoJobFits DEF Waits, Held
  <1>3. CASE new[j] = NoJob
    BY <1>2, <1>3, NoJobFits DEF Open, Queued, Held
  <1>4. CASE new[j] = NewJob("import", "SCHEDULED", c.config) /\ c.config \in Configs
    BY <1>2, <1>4, NewImport
  <1>5. QED
    BY <1>3, <1>4, Renewal

LEMMA CancelKeeps ==
  ASSUME NEW js \in Rows
  PROVE  RowsKept(js, CancelScheduled(js))
  BY Cancelled, NoJobFits DEF RowsKept, Waits, Held, Open, Queued

LEMMA UpdateKeeps ==
  ASSUME ConstantsAssumption, IInv, NEW success \in BOOLEAN, UpdateValidation(success)
  PROVE  RowsKept(jobs, jobs')
  <1> DEFINE updated == [connector EXCEPT !.status = IF success THEN "validated" ELSE "failed"]
  <1>1. updated \in Connector
    BY DEF IInv, TypeOK, Connector
  <1>2. jobs' = jobs \/ jobs' \in Renewed(jobs, updated)
    BY DEF UpdateValidation
  <1> HIDE DEF updated
  <1>3. jobs \in Rows
    BY DEF IInv, TypeOK, Rows
  <1>4. QED
    BY <1>1, <1>2, <1>3, RenewalKeeps DEF RowsKept

(* A step of the server that keeps the rows that are held.                 *)
LEMMA ServerKeeps ==
  ASSUME WInv, RowsKept(jobs, jobs'), proc' = proc,
         connector'.config = Null => connector'.schedule = "manual"
  PROVE  AtWork' /\ Configured'
  <1>1. ASSUME NEW a \in Agents, proc[a].phase # "idle"
        PROVE  jobs'[Job0(a)] = jobs[Job0(a)]
    <2>1. Job0(a) \in JobIds /\ jobs[Job0(a)].state \in Held
      BY <1>1 DEF WInv, IInv, Working, AtWork, Job0, Held
    <2>2. QED
      BY <2>1 DEF RowsKept
  <1>2. AtWork'
    BY <1>1 DEF WInv, AtWork, Job0, Owns
  <1>3. Configured'
    BY DEF WInv, Configured, RowsKept
  <1>4. QED
    BY <1>2, <1>3

(* A step of agent a that keeps the rows of the others.                    *)
LEMMA AgentKeeps ==
  ASSUME WInv, NEW a \in Agents, NEW js, RowsKept(js, jobs'),
         \A b \in Agents \ {a} : proc'[b] = proc[b],
         \A b \in Agents \ {a} : proc[b].phase # "idle" => js[Job0(b)] = jobs[Job0(b)],
         \A j \in JobIds : js[j].state \in Open => js[j].config \in Configs,
         connector'.config = Null => connector'.schedule = "manual",
         \/ proc'[a].phase = "idle"
         \/ /\ proc'[a].phase # "starting" /\ proc'[a].config = proc[a].config
            /\ proc'[a].job = proc[a].job
            /\ proc[a].phase \notin {"idle", "starting"} /\ js[Job0(a)] = jobs[Job0(a)]
  PROVE  AtWork' /\ Configured'
  <1>1. ASSUME NEW b \in Agents, proc[b].phase # "idle", js[Job0(b)] = jobs[Job0(b)]
        PROVE  jobs'[Job0(b)] = jobs[Job0(b)]
    <2>1. Job0(b) \in JobIds /\ jobs[Job0(b)].state \in Held
      BY <1>1 DEF WInv, IInv, Working, AtWork, Job0, Held
    <2>2. QED
      BY <1>1, <2>1 DEF RowsKept
  <1>2. ASSUME NEW b \in Agents \ {a}, proc'[b].phase # "idle"
        PROVE  /\ proc'[b].config \in Configs
               /\ Owns(b)'
               /\ \/ jobs'[Job0(b)'].state = "RUNNING"
                  \/ jobs'[Job0(b)'].state = "ASSIGNED" /\ proc'[b].phase = "starting"
    BY <1>1, <1>2 DEF WInv, AtWork, Job0, Owns
  <1>3. ASSUME proc'[a].phase # "idle"
        PROVE  /\ proc'[a].config \in Configs
               /\ Owns(a)'
               /\ jobs'[Job0(a)'].state = "RUNNING"
    BY <1>1, <1>3 DEF WInv, AtWork, Job0, Owns
  <1>4. AtWork'
    BY <1>2, <1>3 DEF AtWork
  <1>5. Configured'
    BY DEF Configured, RowsKept
  <1>6. QED
    BY <1>4, <1>5
LEMMA NoneAborted ==
  ASSUME WInv, ~ Failures, NEW a \in Agents
  PROVE  ~ Stop(a) /\ ~ LoseReport(a)
  BY DEF WInv, AtWork, Job0, Stop, LoseReport

LEMMA UserKeepsWork ==
  ASSUME ConstantsAssumption, WInv,
         \/ \E c \in Configs, s \in {"manual", "daily"} : SetConfig(c, s)
         \/ ClearConfig \/ CreateCollection \/ NewListing \/ StartCheck \/ EndCheck
  PROVE  AtWork' /\ Configured'
  <1>1. IInv /\ jobs \in Rows /\ TypeOK
    BY DEF WInv, IInv, TypeOK, Rows
  <1>2. RowsKept(jobs, CancelScheduled(jobs)) /\ RowsKept(jobs, jobs)
    BY <1>1, CancelKeeps DEF RowsKept
  <1>3. RowsKept(jobs, jobs')
    <2>1. CASE EndCheck
      <3>1. UpdateValidation(TRUE) \/ UpdateValidation(FALSE)
        BY <2>1 DEF EndCheck, UpdateValidation
      <3>2. QED
        BY <1>1, <3>1, UpdateKeeps
    <2>2. CASE ~ EndCheck
      BY <1>2, <2>2 DEF SetConfig, ClearConfig, CreateCollection, NewListing, StartCheck
    <2>3. QED
      BY <2>1, <2>2
  <1>4. proc' = proc
    BY DEF SetConfig, ClearConfig, CreateCollection, NewListing, StartCheck, EndCheck
  <1>5. connector'.config = Null => connector'.schedule = "manual"
    BY <1>1, Bounds DEF SetConfig, ClearConfig, CreateCollection, NewListing, StartCheck, EndCheck,
                UpdateValidation, NoConnector, WInv, Configured, TypeOK, Connector
  <1>6. QED
    BY <1>3, <1>4, <1>5, ServerKeeps

LEMMA QueueKeepsWork ==
  ASSUME ConstantsAssumption, WInv, ~ Failures, NEW j \in JobIds,
         RequestValidation(j) \/ ImportNow(j) \/ CancelJob(j) \/ BecomeDue(j) \/ Release(j)
  PROVE  AtWork' /\ Configured'
  <1>1. jobs \in Rows /\ TypeOK /\ jobs[j] \in Job /\ connector \in Connector
    BY DEF WInv, IInv, TypeOK, Rows
  <1>2. proc' = proc /\ (connector'.config = Null => connector'.schedule = "manual")
    BY <1>1 DEF RequestValidation, ImportNow, CancelJob, BecomeDue, Release, WInv, Configured,
                Connector
  <1>3. CASE RequestValidation(j) \/ ImportNow(j)
    <2>1. PICK tool \in {"validate", "import"} :
            jobs' = [jobs EXCEPT ![j] = NewJob(tool, "PENDING", connector.config)]
      BY <1>3 DEF RequestValidation, ImportNow
    <2>2. jobs[j] = NoJob /\ connector.config \in Configs
      BY <1>1, <1>3 DEF RequestValidation, ImportNow, MayImport, Room, Fresh, Free, Connector
    <2>3. NewJob(tool, "PENDING", connector.config).config \in Configs
      BY <2>2, NewJobFits
    <2>4. RowsKept(jobs, jobs')
      BY <1>1, <2>1, <2>2, <2>3, NoJobFits DEF RowsKept, Rows, Held
    <2>5. QED
      BY <1>2, <2>4, ServerKeeps
  <1>4. CASE BecomeDue(j)
    <2>1. /\ jobs'[j].config = jobs[j].config
          /\ \A i \in JobIds \ {j} : jobs'[i] = jobs[i]
      BY <1>1, <1>4 DEF BecomeDue, Rows, Job
    <2>2. jobs[j].state \in Open /\ jobs[j].state \notin Held
      BY <1>4 DEF BecomeDue, Open, Held
    <2>3. RowsKept(jobs, jobs')
      BY <2>1, <2>2 DEF RowsKept, WInv, Configured
    <2>4. QED
      BY <1>2, <2>3, ServerKeeps
  <1>5. QED
    BY <1>3, <1>4 DEF CancelJob, Release

LEMMA AgentKeepsWork ==
  ASSUME ConstantsAssumption, WInv, ~ Failures, NEW a \in Agents,
         Work(a) \/ LoseReport(a) \/ Stop(a) \/ \E j \in JobIds : Claim(a, j)
  PROVE  AtWork' /\ Configured'
  <1>1. /\ jobs \in Rows /\ TypeOK /\ IInv /\ proc[a] \in Proc /\ AtWork /\ Configured /\ Working
        /\ proc \in [Agents -> Proc] /\ connector \in Connector
    BY DEF WInv, IInv, TypeOK, Rows
  <1>2. RowsKept(jobs, jobs)
    BY DEF RowsKept
  <1>3. CASE \E j \in JobIds : Claim(a, j)
    <2>1. PICK j \in JobIds : Claim(a, j)
      BY <1>3
    <2>2. /\ proc'[a].phase = "starting" /\ proc'[a].job = j /\ proc'[a].config = jobs[j].config
          /\ \A b \in Agents \ {a} : proc'[b] = proc[b]
          /\ jobs'[j] = [jobs[j] EXCEPT !.state = "ASSIGNED", !.agent = a]
          /\ \A i \in JobIds \ {j} : jobs'[i] = jobs[i]
      BY <1>1, <2>1, ClaimFits
    <2>3. jobs'[j].state = "ASSIGNED" /\ jobs'[j].agent = a /\ jobs'[j].config = jobs[j].config
      BY <1>1, <2>2 DEF Rows, Job
    <2>4. jobs[j].state \in Open /\ jobs[j].state \notin Held
      BY <2>1 DEF Claim, Claimable, Open, Queued, Held
    <2>5. jobs[j].config \in Configs
      BY <1>1, <2>4 DEF Configured
    <2>6. \A b \in Agents : proc[b].phase # "idle" => Job0(b) \in JobIds /\ Job0(b) # j
      BY <1>1, <2>4 DEF AtWork, Working, Job0, Held
    <2>7. AtWork'
      <3>1. ASSUME NEW b \in Agents \ {a}, proc'[b].phase # "idle"
            PROVE  /\ proc'[b].config \in Configs
                   /\ Owns(b)'
                   /\ \/ jobs'[Job0(b)'].state = "RUNNING"
                      \/ jobs'[Job0(b)'].state = "ASSIGNED" /\ proc'[b].phase = "starting"
        BY <1>1, <2>2, <2>6, <3>1 DEF AtWork, Owns, Job0
      <3>2. QED
        BY <2>2, <2>3, <2>5, <3>1 DEF AtWork, Owns, Job0
    <2>8. Configured'
      <3>1. connector' = connector
        BY <2>1 DEF Claim
      <3>2. ASSUME NEW i \in JobIds, jobs'[i].state \in Open
            PROVE  jobs'[i].config \in Configs
        <4>1. CASE i = j
          BY <2>3, <2>5, <4>1
        <4>2. CASE i # j
          BY <1>1, <2>2, <3>2, <4>2 DEF Configured
        <4>3. QED
          BY <4>1, <4>2
      <3>3. QED
        BY <1>1, <3>1, <3>2 DEF Configured
    <2>9. QED
      BY <2>7, <2>8
  <1>4. CASE Start(a)
    <2> DEFINE r == Job0(a)
    <2>1. /\ \A j \in JobIds :
               jobs'[j] = IF j = Job0(a) /\ Owns(a) /\ jobs[j].state = "ASSIGNED"
                          THEN [jobs[j] EXCEPT !.state = "RUNNING"] ELSE jobs[j]
          /\ Goto(a, FirstPhase(a)) /\ proc[a].phase = "starting"
      BY <1>1, <1>4, StartFits DEF Start
    <2>2. FirstPhase(a) \in {"check", "list", "fail"}
      BY DEF FirstPhase
    <2>3. /\ proc'[a].phase = FirstPhase(a) /\ proc'[a].job = proc[a].job
          /\ proc'[a].config = proc[a].config
          /\ \A b \in Agents \ {a} : proc'[b] = proc[b]
      BY <1>1, <2>1 DEF Goto, Proc
    <2>4. /\ r \in JobIds /\ Owns(a) /\ jobs[r] \in Job /\ proc[a].config \in Configs
          /\ jobs[r].state \in {"ASSIGNED", "RUNNING"}
      BY <1>1, <2>1 DEF AtWork, Working, Job0, Rows
    <2>5. /\ jobs'[r].state = "RUNNING" /\ jobs'[r].agent = a /\ jobs'[r].config = jobs[r].config
          /\ \A i \in JobIds \ {r} : jobs'[i] = jobs[i]
      BY <2>1, <2>4 DEF Job, Owns
    <2>6. \A b \in Agents \ {a} : proc[b].phase # "idle" => Job0(b) \in JobIds /\ Job0(b) # r
      BY <1>1, <2>4 DEF AtWork, Working, Owns, Job0
    <2>7. Job0(a)' = r
      BY <2>3 DEF Job0
    <2> HIDE DEF r
    <2>8. AtWork'
      <3>1. ASSUME NEW b \in Agents \ {a}, proc'[b].phase # "idle"
            PROVE  /\ proc'[b].config \in Configs
                   /\ Owns(b)'
                   /\ \/ jobs'[Job0(b)'].state = "RUNNING"
                      \/ jobs'[Job0(b)'].state = "ASSIGNED" /\ proc'[b].phase = "starting"
        BY <1>1, <2>3, <2>5, <2>6, <3>1 DEF AtWork, Owns, Job0
      <3>2. QED
        BY <2>3, <2>4, <2>5, <2>7, <3>1 DEF AtWork, Owns
    <2>9. Configured'
      <3>1. jobs[r].state \in Open
        BY <2>4 DEF Open, Held
      <3>2. connector' = connector
        BY <1>4 DEF Start
      <3>3. QED
        BY <1>1, <2>4, <2>5, <3>1, <3>2 DEF Configured
    <2>10. QED
      BY <2>8, <2>9
  <1>5. CASE Complete(a) \/ Fail(a)
    <2>1. /\ proc'[a].phase = "idle" /\ \A b \in Agents \ {a} : proc'[b] = proc[b]
          /\ proc[a].phase # "idle" /\ connector' = connector
      BY <1>1, <1>5, IdleFits DEF Complete, Fail
    <2>2. /\ Ended(a) \in Rows
          /\ \A j \in JobIds : Ended(a)[j] = IF j = Job0(a) /\ Owns(a) THEN NoJob ELSE jobs[j]
      BY <1>1, <2>1, EndedFits
    <2>3. jobs' = Ended(a) \/ jobs' \in Renewed(Ended(a), connector)
      BY <1>5 DEF Complete, Fail
    <2>4. RowsKept(Ended(a), jobs')
      <3>1. RowsKept(Ended(a), Ended(a))
        BY DEF RowsKept
      <3>2. QED
        BY <1>1, <2>2, <2>3, <3>1, RenewalKeeps
    <2>5. \A b \in Agents \ {a} : proc[b].phase # "idle" => Ended(a)[Job0(b)] = jobs[Job0(b)]
      BY <1>1, <2>1, <2>2 DEF AtWork, Working, Owns, Job0
    <2>6. \A j \in JobIds : Ended(a)[j].state \in Open => Ended(a)[j].config \in Configs
      BY <1>1, <2>2, NoJobFits DEF Configured, Open, Queued, Held
    <2>7. QED
      <3> DEFINE js == Ended(a)
      <3>1. /\ RowsKept(js, jobs')
            /\ \A b \in Agents \ {a} : proc[b].phase # "idle" => js[Job0(b)] = jobs[Job0(b)]
            /\ \A j \in JobIds : js[j].state \in Open => js[j].config \in Configs
        BY <2>4, <2>5, <2>6
      <3> HIDE DEF js
      <3>2. connector'.config = Null => connector'.schedule = "manual"
        BY <1>1, <2>1 DEF Configured
      <3>3. QED
        BY <2>1, <3>1, <3>2, AgentKeeps
  <1>6. CASE ReportValidation(a) \/ List(a) \/ ReportFolders(a) \/ FetchCollections(a)
             \/ ReportFileInfo(a) \/ ReportDelta(a)
    <2>1. /\ proc[a].phase \notin {"idle", "starting"}
          /\ proc'[a].phase \notin {"idle", "starting"} /\ proc'[a].config = proc[a].config
          /\ proc'[a].job = proc[a].job /\ \A b \in Agents \ {a} : proc'[b] = proc[b]
      BY <1>1, <1>6 DEF ReportValidation, List, ReportFolders, FetchCollections, ReportFileInfo,
                        ReportDelta, Goto, Proc
    <2>2. RowsKept(jobs, jobs')
      <3>1. jobs' = jobs \/ UpdateValidation(TRUE) \/ UpdateValidation(FALSE)
        BY <1>6 DEF ReportValidation, List, ReportFolders, FetchCollections, ReportFileInfo,
                    ReportDelta, ServerUnchanged, UpdateValidation
      <3>2. QED
        BY <1>1, <1>2, <3>1, UpdateKeeps
    <2>3. connector'.config = Null => connector'.schedule = "manual"
      BY <1>1, <1>6 DEF ReportValidation, List, ReportFolders, FetchCollections, ReportFileInfo,
                  ReportDelta, ServerUnchanged, UpdateValidation, Configured, Connector
    <2>4. \A j \in JobIds : jobs[j].state \in Open => jobs[j].config \in Configs
      BY <1>1 DEF Configured
    <2>5. QED
      BY <2>1, <2>2, <2>3, <2>4, AgentKeeps
  <1>7. QED
    BY <1>3, <1>4, <1>5, <1>6, NoneAborted DEF Work

LEMMA StepWInv ==
  ASSUME ConstantsAssumption, ~ Failures, WInv, [Next]_vars
  PROVE  WInv'
  <1>1. IInv'
    BY StepIInv DEF WInv
  <1>2. CASE UNCHANGED vars
    BY <1>1, <1>2 DEF WInv, AtWork, Configured, Owns, Job0, vars
  <1>3. CASE Next
    <2>1. AtWork' /\ Configured'
      BY <1>3, UserKeepsWork, QueueKeepsWork, AgentKeepsWork DEF Next
    <2>2. QED
      BY <1>1, <2>1 DEF WInv
  <1>4. QED
    BY <1>2, <1>3

LEMMA InitWInv ==
  ASSUME ConstantsAssumption, Init
  PROVE  WInv
  BY InitIInv, NoJobFits, IdleFits
     DEF Init, WInv, AtWork, Configured, NoConnector, Open, Queued, Held
-----------------------------------------------------------------------------
(* The chain of imports.                                                   *)
Opens(js) == \E j \in JobIds : js[j].tool = "import" /\ js[j].state \in Open

LEMMA Continues ==
  ScheduleContinues <=>
    (connector.schedule # "manual" /\ connector.status = "validated" => Opens(jobs))
  BY DEF ScheduleContinues, OpenImports, Opens

LEMMA RenewalOpens ==
  ASSUME ConstantsAssumption, NEW js \in Rows, NEW c \in Connector, NEW new \in Renewed(js, c),
         c.config \in Configs, c.schedule = "daily"
  PROVE  Opens(new)
  <1>1. PICK j \in JobIds : new[j] = NewJob("import", "SCHEDULED", c.config)
    BY Renewal
  <1>2. QED
    BY <1>1, NewImport DEF Opens

(* A validation that succeeds schedules an import, one that fails needs    *)
(* none.                                                                   *)
LEMMA UpdateContinues ==
  ASSUME ConstantsAssumption, WInv, NEW success \in BOOLEAN, UpdateValidation(success)
  PROVE  ScheduleContinues'
  <1> DEFINE updated == [connector EXCEPT !.status = IF success THEN "validated" ELSE "failed"]
  <1>1. /\ updated \in Connector /\ connector' = updated /\ jobs \in Rows
        /\ updated.config = connector.config /\ updated.schedule = connector.schedule
        /\ connector.schedule \in {"manual", "daily"} /\ connector.config \in Configs \cup {Null}
        /\ success \/ updated.status = "failed"
    BY DEF WInv, IInv, TypeOK, Connector, UpdateValidation, Rows
  <1>2. success => jobs' \in Renewed(jobs, updated)
    BY DEF UpdateValidation
  <1> HIDE DEF updated
  <1>3. CASE success /\ connector.schedule = "daily"
    <2>1. connector.config \in Configs
      BY <1>1, <1>3 DEF WInv, Configured
    <2>2. Opens(jobs')
      BY <1>1, <1>2, <1>3, <2>1, RenewalOpens
    <2>3. QED
      BY <2>2 DEF ScheduleContinues, OpenImports, Opens
  <1>4. CASE ~ (success /\ connector.schedule = "daily")
    BY <1>1, <1>4 DEF ScheduleContinues
  <1>5. QED
    BY <1>3, <1>4

(* Steps under which an import that is open stays open.                    *)
LEMMA StaysOpen ==
  ASSUME ScheduleContinues, connector' = connector,
         \A j \in JobIds : jobs[j].tool = "import" /\ jobs[j].state \in Open =>
                              jobs'[j].tool = "import" /\ jobs'[j].state \in Open
  PROVE  ScheduleContinues'
  BY DEF ScheduleContinues, OpenImports

LEMMA UserContinues ==
  ASSUME ConstantsAssumption, CInv,
         \/ \E c \in Configs, s \in {"manual", "daily"} : SetConfig(c, s)
         \/ ClearConfig \/ CreateCollection \/ NewListing \/ StartCheck \/ EndCheck
  PROVE  NoneFails' /\ ScheduleContinues'
  <1>1. NoneFails'
    BY DEF CInv, NoneFails, SetConfig, ClearConfig, CreateCollection, NewListing, StartCheck, EndCheck
  <1>2. CASE EndCheck
    <2>1. UpdateValidation(TRUE) \/ UpdateValidation(FALSE)
      BY <1>2 DEF EndCheck, UpdateValidation
    <2>2. QED
      BY <1>1, <2>1, UpdateContinues DEF CInv
  <1>3. CASE CreateCollection \/ NewListing
    BY <1>1, <1>3, StaysOpen DEF CInv, CreateCollection, NewListing
  <1>4. CASE StartCheck
    <2>1. connector'.status = "validating"
      BY <1>4 DEF StartCheck, CInv, WInv, IInv, TypeOK, Connector
    <2>2. QED
      BY <1>1, <2>1 DEF ScheduleContinues
  <1>5. CASE ClearConfig \/ \E c \in Configs, s \in {"manual", "daily"} : SetConfig(c, s)
    BY <1>1, <1>5 DEF ClearConfig, SetConfig, NoConnector, ScheduleContinues
  <1>6. QED
    BY <1>2, <1>3, <1>4, <1>5

LEMMA QueueContinues ==
  ASSUME ConstantsAssumption, CInv, ~ Failures, NEW j \in JobIds,
         RequestValidation(j) \/ ImportNow(j) \/ CancelJob(j) \/ BecomeDue(j) \/ Release(j)
  PROVE  NoneFails' /\ ScheduleContinues'
  <1>1. NoneFails'
    BY DEF CInv, NoneFails, RequestValidation, ImportNow, CancelJob, BecomeDue, Release
  <1>2. jobs \in Rows /\ jobs[j] \in Job /\ connector \in Connector
    BY DEF CInv, WInv, IInv, TypeOK, Rows
  <1>3. CASE RequestValidation(j)
    <2>1. connector'.status = "pending"
      BY <1>2, <1>3 DEF RequestValidation, Connector
    <2>2. QED
      BY <1>1, <2>1 DEF ScheduleContinues
  <1>4. CASE ImportNow(j)
    <2>1. jobs[j] = NoJob /\ connector' = connector
          /\ \A i \in JobIds \ {j} : jobs'[i] = jobs[i]
      BY <1>2, <1>4 DEF ImportNow, Room, Fresh, Free, Rows
    <2>2. jobs[j].state \notin Open
      BY <2>1, NoJobFits DEF Open, Queued, Held
    <2>3. QED
      BY <1>1, <2>1, <2>2, StaysOpen DEF CInv
  <1>5. CASE BecomeDue(j)
    <2>1. /\ jobs'[j].tool = jobs[j].tool /\ jobs'[j].state = "due" /\ connector' = connector
          /\ \A i \in JobIds \ {j} : jobs'[i] = jobs[i]
      BY <1>2, <1>5 DEF BecomeDue, Rows, Job
    <2>2. "due" \in Open
      BY DEF Open, Queued
    <2>3. QED
      BY <1>1, <2>1, <2>2, StaysOpen DEF CInv
  <1>6. QED
    BY <1>3, <1>4, <1>5 DEF CancelJob, Release

LEMMA AgentContinues ==
  ASSUME ConstantsAssumption, CInv, ~ Failures, Configs \subseteq Reachable, NEW a \in Agents,
         Work(a) \/ LoseReport(a) \/ Stop(a) \/ \E j \in JobIds : Claim(a, j)
  PROVE  NoneFails' /\ ScheduleContinues'
  <1>1. /\ jobs \in Rows /\ IInv /\ WInv /\ NoneFails /\ ScheduleContinues
        /\ proc \in [Agents -> Proc] /\ connector \in Connector /\ AtWork /\ Configured /\ Working
    BY DEF CInv, WInv, IInv, TypeOK, Rows
  <1>2. NoneFails'
    <2>1. CASE Complete(a) \/ Fail(a)
      BY <1>1, <2>1, IdleFits DEF Complete, Fail, NoneFails
    <2>2. CASE \E j \in JobIds : Claim(a, j)
      BY <1>1, <2>2, ClaimFits DEF NoneFails
    <2>3. CASE Start(a)
      <3>1. FirstPhase(a) # "fail"
        BY <1>1, <2>3, Bounds DEF Start, FirstPhase, AtWork
      <3>2. QED
        BY <1>1, <2>3, <3>1 DEF Start, Goto, NoneFails, Proc
    <2>4. CASE ReportFolders(a)
      <3>1. Owns(a) /\ Goto(a, "collections")
        BY <1>1, <2>4 DEF ReportFolders, AtWork
      <3>2. QED
        BY <1>1, <3>1 DEF Goto, NoneFails, Proc
    <2>5. CASE List(a)
      <3>1. proc[a].config \in Reachable
        BY <1>1, <2>5 DEF List, AtWork
      <3>2. QED
        BY <1>1, <2>5, <3>1 DEF List, NoneFails, Proc
    <2>6. CASE ReportValidation(a) \/ FetchCollections(a) \/ ReportFileInfo(a) \/ ReportDelta(a)
      BY <1>1, <2>6 DEF ReportValidation, FetchCollections, ReportFileInfo, ReportDelta, Goto,
                        NoneFails, Proc
    <2>7. QED
      BY <1>1, <2>1, <2>2, <2>3, <2>4, <2>5, <2>6, NoneAborted DEF Work
  <1>3. CASE \E j \in JobIds : Claim(a, j)
    <2>1. PICK j \in JobIds : Claim(a, j)
      BY <1>3
    <2>2. /\ jobs'[j] = [jobs[j] EXCEPT !.state = "ASSIGNED", !.agent = a]
          /\ \A i \in JobIds \ {j} : jobs'[i] = jobs[i]
      BY <1>1, <2>1, ClaimFits
    <2>3. jobs'[j].tool = jobs[j].tool /\ jobs'[j].state \in Open /\ connector' = connector
      <3>1. jobs[j] \in Job /\ connector' = connector
        BY <1>1, <2>1 DEF Rows, Claim
      <3>2. jobs'[j].tool = jobs[j].tool /\ jobs'[j].state = "ASSIGNED"
        BY <2>2, <3>1 DEF Job
      <3>3. QED
        BY <3>1, <3>2 DEF Open, Held
    <2>4. QED
      BY <1>1, <1>2, <2>2, <2>3, StaysOpen
  <1>4. CASE Start(a)
    <2>1. /\ \A j \in JobIds :
               jobs'[j] = IF j = Job0(a) /\ Owns(a) /\ jobs[j].state = "ASSIGNED"
                          THEN [jobs[j] EXCEPT !.state = "RUNNING"] ELSE jobs[j]
          /\ connector' = connector
      BY <1>1, <1>4, StartFits DEF Start
    <2>2. \A j \in JobIds : jobs'[j] = jobs[j] \/ jobs'[j] = [jobs[j] EXCEPT !.state = "RUNNING"]
      BY <2>1
    <2>3. \A j \in JobIds : jobs'[j] = jobs[j] \/ /\ jobs'[j].tool = jobs[j].tool
                                                  /\ jobs'[j].state \in Open
      <3> SUFFICES ASSUME NEW j \in JobIds, jobs'[j] = [jobs[j] EXCEPT !.state = "RUNNING"]
                   PROVE  jobs'[j].tool = jobs[j].tool /\ jobs'[j].state \in Open
        BY <2>2
      <3>1. jobs[j] \in Job
        BY <1>1 DEF Rows
      <3>2. jobs'[j].tool = jobs[j].tool /\ jobs'[j].state = "RUNNING"
        BY <3>1 DEF Job
      <3>3. QED
        BY <3>2 DEF Open, Held
    <2>4. QED
      BY <1>1, <1>2, <2>1, <2>3, StaysOpen
  <1>5. CASE Complete(a)
    <2> DEFINE js == Ended(a)
    <2>1. /\ js \in Rows
          /\ \A j \in JobIds : js[j] = IF j = Job0(a) /\ Owns(a) THEN NoJob ELSE jobs[j]
      BY <1>1, <1>5, EndedFits DEF Complete
    <2>2. Accepts(a) /\ connector' = connector
      BY <1>1, <1>5 DEF Complete, Accepts, AtWork, Held
    <2>3. jobs' \in IF jobs[Job0(a)].tool = "import" THEN Renewed(js, connector) ELSE {js}
      BY <1>5, <2>2 DEF Complete
    <2> HIDE DEF js
    <2>4. CASE jobs[Job0(a)].tool = "import" /\ connector.schedule = "daily"
      <3>1. connector.config \in Configs
        BY <1>1, <2>4 DEF Configured, Connector
      <3>2. Opens(jobs')
        BY <1>1, <2>1, <2>3, <2>4, <3>1, RenewalOpens
      <3>3. QED
        BY <1>2, <3>2 DEF ScheduleContinues, OpenImports, Opens
    <2>5. CASE connector.schedule = "manual"
      BY <1>2, <2>2, <2>5 DEF ScheduleContinues
    <2>6. CASE jobs[Job0(a)].tool # "import"
      BY <1>1, <1>2, <2>1, <2>2, <2>3, <2>6, StaysOpen
    <2>7. QED
      BY <1>1, <2>4, <2>5, <2>6 DEF Connector
  <1>6. CASE ReportValidation(a)
    <2>1. UpdateValidation(TRUE) \/ UpdateValidation(FALSE) \/ UNCHANGED <<connector, jobs>>
      BY <1>6 DEF ReportValidation, UpdateValidation
    <2>2. QED
      BY <1>1, <1>2, <2>1, UpdateContinues, StaysOpen
  <1>7. CASE List(a) \/ ReportFolders(a) \/ FetchCollections(a) \/ ReportFileInfo(a)
             \/ ReportDelta(a)
    BY <1>1, <1>2, <1>7, StaysOpen
       DEF List, ReportFolders, FetchCollections, ReportFileInfo, ReportDelta, ServerUnchanged
  <1>8. CASE Fail(a)
    BY <1>1, <1>8 DEF Fail, NoneFails
  <1>9. QED
    BY <1>1, <1>3, <1>4, <1>5, <1>6, <1>7, <1>8, NoneAborted DEF Work

(* Where nothing fails and every configuration that is entered can be      *)
(* read, the chain of scheduled imports neither breaks nor splits, for any *)
(* number of agents, wherever the credentials are, and however edits,      *)
(* validations and imports by hand overlap with it.                        *)
THEOREM ChainHolds ==
  ConstantsAssumption /\ ~ Failures /\ Configs \subseteq Reachable /\ Spec => []ChainOfImports
  <1> SUFFICES ASSUME ConstantsAssumption, ~ Failures, Configs \subseteq Reachable
               PROVE  Spec => []ChainOfImports
    OBVIOUS
  <1>1. Init => CInv
    BY InitWInv, IdleFits DEF Init, CInv, NoneFails, ScheduleContinues, NoConnector
  <1>2. CInv /\ [Next]_vars => CInv'
    <2> SUFFICES ASSUME CInv, [Next]_vars
                 PROVE  CInv'
      OBVIOUS
    <2>1. WInv'
      BY StepWInv DEF CInv
    <2>2. CASE UNCHANGED vars
      BY <2>1, <2>2 DEF CInv, NoneFails, ScheduleContinues, OpenImports, vars
    <2>3. CASE Next
      BY <2>1, <2>3, UserContinues, QueueContinues, AgentContinues DEF CInv, Next
    <2>4. QED
      BY <2>2, <2>3
  <1>3. CInv => ScheduleContinues
    BY DEF CInv
  <1>4. ConstantsAssumption /\ Spec => []OneScheduledImport
    BY NeverTwoScheduled
  <1>5. QED
    BY <1>1, <1>2, <1>3, <1>4, PTL DEF Spec, ChainOfImports
-----------------------------------------------------------------------------
(* With one agent.                                                         *)
OneAgent == \E a : Agents = {a}

LEMMA ListingsDef ==
  ASSUME ConstantsAssumption
  PROVE  \A n : n \in Listings <=> n \in Nat /\ n <= MaxListings
  BY Bounds DEF Listings

(* A report of file info stores what was listed, or nothing.               *)
LEMMA InfoStep ==
  ASSUME ConstantsAssumption, OneAgent, IInv, Ordered, [Next]_vars
  PROVE  Ordered' /\ NotOlder
  <1>1. PICK a : Agents = {a}
    BY DEF OneAgent
  <1>2. /\ proc \in [Agents -> Proc] /\ proc[a] \in Proc /\ a \in Agents
        /\ collection \in Collection /\ listing \in Nat
        /\ collection.info \in Nat /\ proc[a].read \in Nat /\ Working
    BY <1>1, Bounds, ListingsDef DEF IInv, TypeOK, Proc, Collection
  <1>3. /\ collection.info <= listing
        /\ proc[a].phase \in {"folders", "collections", "info", "delta"} =>
             collection.info <= proc[a].read /\ proc[a].read <= listing
    BY <1>2 DEF Ordered
  <1> DEFINE Sorted == /\ collection.info <= listing
                       /\ proc[a].phase \in {"folders", "collections", "info", "delta"} =>
                            collection.info <= proc[a].read /\ proc[a].read <= listing
  <1>4. Sorted' => Ordered'
    BY <1>1 DEF Ordered
  <1>5. CASE UNCHANGED <<collection, proc, listing>>
    BY <1>2, <1>3, <1>4, <1>5 DEF NotOlder
  <1>6. CASE NewListing \/ ClearConfig \/ CreateCollection
    <2>1. proc' = proc /\ listing' >= listing /\ listing' \in Nat /\ collection'.info = collection.info
      BY <1>2, <1>6 DEF NewListing, ClearConfig, CreateCollection, Collection
    <2>2. QED
      BY <1>2, <1>3, <1>4, <2>1 DEF NotOlder
  <1>7. CASE List(a)
    <2>1. proc'[a].read = listing /\ collection' = collection /\ listing' = listing
      BY <1>2, <1>7 DEF List, ServerUnchanged, Proc
    <2>2. QED
      BY <1>2, <1>3, <1>4, <2>1 DEF NotOlder
  <1>8. CASE FetchCollections(a) \/ ReportFolders(a) \/ ReportDelta(a)
    <2>1. /\ proc'[a].read = proc[a].read /\ listing' = listing /\ collection'.info = collection.info
          /\ proc[a].phase \in {"folders", "collections", "delta"}
      <3>1. CASE FetchCollections(a)
        BY <1>2, <3>1 DEF FetchCollections, ServerUnchanged, Proc
      <3>2. CASE ReportFolders(a)
        BY <1>2, <3>2 DEF ReportFolders, Goto, Proc
      <3>3. CASE ReportDelta(a)
        <4>1. proc' = [proc EXCEPT ![a].phase = "finish"] /\ listing' = listing
              /\ proc[a].phase = "delta"
          BY <3>3 DEF ReportDelta, Goto
        <4>2. collection'.info = collection.info
          BY <1>2, <3>3 DEF ReportDelta, StoreDelta, Collection
        <4>3. QED
          BY <1>2, <4>1, <4>2 DEF Proc
      <3>4. QED
        BY <1>8, <3>1, <3>2, <3>3
    <2>2. QED
      BY <1>2, <1>3, <1>4, <2>1 DEF NotOlder
  <1>9. CASE ReportFileInfo(a)
    <2>1. /\ proc'[a].read = proc[a].read /\ listing' = listing
          /\ proc[a].phase = "info" /\ proc'[a].phase \in {"delta", "finish"}
          /\ collection'.info = collection.info \/ collection'.info = proc[a].read
      BY <1>2, <1>9 DEF ReportFileInfo, StoreFileInfo, Goto, Proc, Collection
    <2>2. QED
      BY <1>2, <1>3, <1>4, <2>1 DEF NotOlder
  <1>10. CASE /\ proc'[a].phase \notin {"folders", "collections", "info", "delta"}
              /\ UNCHANGED <<collection, listing>>
    BY <1>2, <1>3, <1>4, <1>10 DEF NotOlder
  <1>11. CASE Start(a) \/ Complete(a) \/ Fail(a) \/ Stop(a) \/ ReportValidation(a) \/ LoseReport(a)
              \/ \E j \in JobIds : Claim(a, j)
    <2>1. UNCHANGED <<collection, listing>>
      BY <1>11 DEF Start, Complete, Fail, Stop, ReportValidation, LoseReport, ServerUnchanged, Claim
    <2>2. proc'[a].phase \notin {"folders", "collections", "info", "delta"}
      <3>1. CASE \E j \in JobIds : Claim(a, j)
        BY <1>2, <3>1, ClaimFits
      <3>2. CASE Complete(a) \/ Fail(a) \/ Stop(a)
        BY <1>2, <3>2, IdleFits DEF Complete, Fail, Stop
      <3>3. CASE Start(a) \/ ReportValidation(a) \/ LoseReport(a)
        BY <1>2, <3>3 DEF Start, FirstPhase, ReportValidation, LoseReport, Goto, Proc
      <3>4. QED
        BY <1>11, <3>1, <3>2, <3>3
    <2>3. QED
      BY <1>10, <2>1, <2>2
  <1>12. CASE \/ \E c \in Configs, s \in {"manual", "daily"} : SetConfig(c, s)
              \/ \E j \in JobIds : RequestValidation(j) \/ ImportNow(j) \/ CancelJob(j)
                                   \/ BecomeDue(j) \/ Release(j)
              \/ StartCheck \/ EndCheck
    BY <1>5, <1>12 DEF SetConfig, RequestValidation, ImportNow, CancelJob, BecomeDue, Release,
                       StartCheck, EndCheck
  <1>13. QED
    BY <1>1, <1>5, <1>6, <1>7, <1>8, <1>9, <1>11, <1>12 DEF Next, Work, vars

LEMMA InitOrdered ==
  ASSUME ConstantsAssumption, Init
  PROVE  Ordered
  BY IdleFits DEF Init, Ordered

(* With one agent, the file info of a collection is never replaced by that *)
(* of an older listing, whatever fails and whatever users do.              *)
THEOREM InfoNeverGoesBack == ConstantsAssumption /\ OneAgent /\ Spec => InfoNeverOlder
  <1> SUFFICES ASSUME ConstantsAssumption, OneAgent
               PROVE  Spec => [][NotOlder]_vars
    BY DEF InfoNeverOlder
  <1>1. Init => IInv /\ Ordered
    BY InitIInv, InitOrdered
  <1>2. IInv /\ Ordered /\ [Next]_vars => (IInv /\ Ordered)'
    BY StepIInv, InfoStep
  <1>3. IInv /\ Ordered /\ [Next]_vars => [NotOlder]_vars
    BY InfoStep
  <1>4. QED
    BY <1>1, <1>2, <1>3, PTL DEF Spec

(* With one agent, no failure and no removal, what a delta compares is     *)
(* what is stored before and after it.                                     *)
LEMMA DeltaStep ==
  ASSUME ConstantsAssumption, OneAgent, ~ Failures, ~ Clears, WInv, Ordered, Compared, [Next]_vars
  PROVE  Compared'
  <1>1. PICK a : Agents = {a}
    BY DEF OneAgent
  <1>2. /\ proc \in [Agents -> Proc] /\ proc[a] \in Proc /\ a \in Agents
        /\ collection \in Collection /\ listing \in Nat
        /\ collection.info \in Nat /\ proc[a].read \in Nat /\ proc[a].known \in Nat
        /\ collection.from \in Nat /\ collection.to \in Nat /\ IInv /\ Working
    BY <1>1, Bounds, ListingsDef DEF WInv, IInv, TypeOK, Proc, Collection
  <1> DEFINE Right ==
        /\ proc[a].phase = "info" => collection.mapped /\ proc[a].known = collection.info
        /\ IF proc[a].phase = "delta"
           THEN collection.mapped /\ collection.info = proc[a].read /\ proc[a].known <= proc[a].read
           ELSE collection.to = collection.info /\ collection.from <= collection.to
  <1>3. Right
    BY <1>2 DEF Compared
  <1>4. Right' => Compared'
    BY <1>1 DEF Compared
  <1>5. CASE UNCHANGED <<collection, proc>>
    BY <1>3, <1>4, <1>5
  <1>6. CASE CreateCollection
    <2>1. /\ proc' = proc /\ ~ collection.mapped
          /\ collection'.info = collection.info /\ collection'.from = collection.from
          /\ collection'.to = collection.to
      BY <1>2, <1>6 DEF CreateCollection, Collection
    <2>2. QED
      BY <1>3, <1>4, <2>1
  <1>7. CASE FetchCollections(a)
    <2>1. /\ collection' = collection /\ proc'[a].known = collection.info
          /\ proc'[a].phase \in {"info", "finish"}
          /\ proc'[a].phase = "info" => collection.mapped
          /\ proc[a].phase = "collections"
      BY <1>2, <1>7 DEF FetchCollections, ServerUnchanged, Proc
    <2>2. QED
      BY <1>3, <1>4, <2>1
  <1>8. CASE ReportFileInfo(a)
    <2>1. proc[a].phase = "info"
      BY <1>8 DEF ReportFileInfo
    <2>2. Runs(a) /\ jobs[Job0(a)].config # Null /\ collection.mapped
      <3>1. Job0(a) \in JobIds /\ Owns(a) /\ jobs[Job0(a)].state = "RUNNING"
        BY <1>2, <2>1 DEF WInv, AtWork, Working, Job0
      <3>2. jobs[Job0(a)].config \in Configs
        BY <3>1 DEF WInv, Configured, Open, Held
      <3>3. QED
        BY <1>3, <2>1, <3>1, <3>2, Bounds DEF Runs
    <2>3. /\ collection' = [collection EXCEPT !.info = proc[a].read] /\ Goto(a, "delta")
      BY <1>8, <2>2 DEF ReportFileInfo, StoreFileInfo
    <2>4. /\ collection'.mapped /\ collection'.info = proc[a].read
          /\ proc'[a].phase = "delta" /\ proc'[a].read = proc[a].read
          /\ proc'[a].known = proc[a].known
      BY <1>2, <2>2, <2>3 DEF Goto, Collection, Proc
    <2>5. proc[a].known <= proc[a].read
      BY <1>2, <1>3, <2>1 DEF Ordered
    <2>6. QED
      BY <1>4, <2>4, <2>5
  <1>9. CASE ReportDelta(a)
    <2>1. proc[a].phase = "delta" /\ proc'[a].phase = "finish"
      BY <1>2, <1>9 DEF ReportDelta, Goto, Proc
    <2>2. Runs(a) /\ collection.mapped
      BY <1>2, <1>3, <2>1 DEF WInv, AtWork, Runs
    <2>3. collection' = [collection EXCEPT !.from = proc[a].known, !.to = proc[a].read]
      BY <1>9, <2>2 DEF ReportDelta, StoreDelta
    <2>4. /\ collection'.info = collection.info /\ collection'.from = proc[a].known
          /\ collection'.to = proc[a].read
      BY <1>2, <2>3 DEF Collection
    <2>5. QED
      BY <1>3, <1>4, <2>1, <2>4
  <1>10. CASE Start(a) \/ List(a) \/ ReportFolders(a) \/ Complete(a) \/ Fail(a) \/ ReportValidation(a)
              \/ \E j \in JobIds : Claim(a, j)
    <2>1. collection' = collection
      BY <1>10 DEF Start, List, ReportFolders, Complete, Fail, ReportValidation, ServerUnchanged, Claim
    <2>2. proc[a].phase # "delta"
      BY <1>10 DEF Start, List, ReportFolders, Complete, Fail, ReportValidation, Claim
    <2>3. proc'[a].phase \notin {"info", "delta"}
      <3>1. CASE \E j \in JobIds : Claim(a, j)
        BY <1>2, <3>1, ClaimFits
      <3>2. CASE Complete(a) \/ Fail(a)
        BY <1>2, <3>2, IdleFits DEF Complete, Fail
      <3>3. CASE Start(a) \/ List(a) \/ ReportFolders(a) \/ ReportValidation(a)
        BY <1>2, <3>3 DEF Start, FirstPhase, List, ReportFolders, ReportValidation, Goto, Proc
      <3>4. QED
        BY <1>10, <3>1, <3>2, <3>3
    <2>4. QED
      BY <1>3, <1>4, <2>1, <2>2, <2>3
  <1>11. CASE \/ \E c \in Configs, s \in {"manual", "daily"} : SetConfig(c, s)
              \/ \E j \in JobIds : RequestValidation(j) \/ ImportNow(j) \/ CancelJob(j)
                                   \/ BecomeDue(j) \/ Release(j)
              \/ StartCheck \/ EndCheck \/ NewListing
    BY <1>5, <1>11 DEF SetConfig, RequestValidation, ImportNow, CancelJob, BecomeDue, Release,
                       StartCheck, EndCheck, NewListing
  <1>12. CASE ClearConfig
    BY <1>12 DEF ClearConfig
  <1>13. QED
    BY <1>1, <1>5, <1>6, <1>7, <1>8, <1>9, <1>10, <1>11, <1>12, NoneAborted DEF Next, Work, vars

(* With one agent, nothing that fails and no removal, the delta of a       *)
(* collection is that of the file info it has against the file info it had *)
(* before, however the bucket changes under the import.                    *)
THEOREM DeltaAlwaysDescribesInfo ==
  ConstantsAssumption /\ OneAgent /\ ~ Failures /\ ~ Clears /\ Spec => []DeltaDescribesInfo
  <1> SUFFICES ASSUME ConstantsAssumption, OneAgent, ~ Failures, ~ Clears
               PROVE  Spec => []DeltaDescribesInfo
    OBVIOUS
  <1>1. Init => WInv /\ Ordered /\ Compared
    BY InitWInv, InitOrdered, IdleFits DEF Init, Compared
  <1>2. WInv /\ Ordered /\ Compared /\ [Next]_vars => (WInv /\ Ordered /\ Compared)'
    BY StepWInv, InfoStep, DeltaStep DEF WInv
  <1>3. Compared => DeltaDescribesInfo
    BY DEF OneAgent, Compared, DeltaDescribesInfo
  <1>4. QED
    BY <1>1, <1>2, <1>3, PTL DEF Spec
=============================================================================
