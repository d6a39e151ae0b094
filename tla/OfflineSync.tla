----------------------------- MODULE OfflineSync -----------------------------
(***************************************************************************)
(* Results of `run --offline` and the `sync` command that brings them to   *)
(* the server: the result files of the agent's machine, one process per    *)
(* running sync command, and the server's two endpoints, whose handler     *)
(* stores a result in one transaction and notes in a second one which      *)
(* result it was.  Commands are killed, answers get lost, the server       *)
(* stops and restarts, placeholder jobs are swept.                         *)
(***************************************************************************)
EXTENDS Naturals, FiniteSets

CONSTANTS
  Results,    \* results produced offline, by result_id
  Chunked,    \* those too large to be sent inline
  Syncs,      \* sync commands that may run at the same time
  Handlers,   \* requests the server handles at the same time
  Null,       \* no process
  Kills,      \* sync commands may be killed
  Stops,      \* the server may stop and restart
  MaxFaults,  \* bound: kills, stops, sweeps, lost answers and failed commits
  MaxJobs     \* bound: rows of the jobs table

ConstantsAssumption == /\ Chunked \subseteq Results
                       /\ Null \notin Syncs
                       /\ {Kills, Stops} \subseteq BOOLEAN
                       /\ MaxFaults \in Nat
                       /\ MaxJobs \in Nat

VARIABLES
  local,    \* local[r]: the file of r ("synced": its flag is set)
  jobs,     \* jobs[j]: row j of the jobs table, with its result when COMPLETED
  cli,      \* cli[p]: a sync command
  handler,  \* handler[h]: a request to /results/upload being handled
  content,  \* results whose chunked content is held in the server's memory
  faults    \* the number of faults so far

vars == <<local, jobs, cli, handler, content, faults>>

JobIds == 1 .. MaxJobs

(* result: what the job is about; noted: progress holds its result_id.     *)
Job == [state: {"none", "ASSIGNED", "released", "COMPLETED", "deleted"},
        result: Results \cup {Null}, noted: BOOLEAN]
NoJob == [state |-> "none", result |-> Null, noted |-> FALSE]

Cli == [phase: {"idle", "next", "chunks", "upload", "waiting", "answered", "marked"},
        todo: SUBSET Results, result: Results \cup {Null}, job: JobIds \cup {0}]
NoCli == [phase |-> "idle", todo |-> {}, result |-> Null, job |-> 0]

(* client: who waits for the answer; placeholder, job: rows it works on.   *)
Handler == [phase: {"idle", "loaded", "stored"}, client: Syncs \cup {Null},
            result: Results \cup {Null}, placeholder: JobIds \cup {0}, job: JobIds \cup {0}]
NoHandler == [phase |-> "idle", client |-> Null, result |-> Null, placeholder |-> 0, job |-> 0]

TypeOK == /\ local \in [Results -> {"none", "pending", "synced", "deleted"}]
          /\ jobs \in [JobIds -> Job]
          /\ cli \in [Syncs -> Cli]
          /\ handler \in [Handlers -> Handler]
          /\ content \subseteq Chunked
          /\ faults \in 0 .. MaxFaults

Init == /\ local = [r \in Results |-> "none"]
        /\ jobs = [j \in JobIds |-> NoJob]
        /\ cli = [p \in Syncs |-> NoCli]
        /\ handler = [h \in Handlers |-> NoHandler]
        /\ content = {}
        /\ faults = 0

-----------------------------------------------------------------------------
(* The commands.                                                           *)

(* `run --offline` saves the result before it reports success.             *)
RunOffline(r) == /\ local[r] = "none"
                 /\ local' = [local EXCEPT ![r] = "pending"]
                 /\ UNCHANGED <<jobs, cli, handler, content, faults>>

Pending == {r \in Results : local[r] = "pending"}

StartSync(p) == /\ cli[p].phase = "idle"
                /\ Pending # {}
                /\ cli' = [cli EXCEPT ![p] = [NoCli EXCEPT !.phase = "next", !.todo = Pending]]
                /\ UNCHANGED <<local, jobs, handler, content, faults>>

(* The result at hand is through, uploaded or not; the next one follows.   *)
Through(c) == LET rest == c.todo \ {c.result}
              IN IF rest = {} THEN NoCli
                 ELSE [NoCli EXCEPT !.phase = "next", !.todo = rest]

Fresh == {j \in JobIds : /\ jobs[j].state = "none"
                         /\ \A k \in JobIds : k < j => jobs[k].state # "none"}

Noted(r, S) == {j \in JobIds : jobs[j].result = r /\ jobs[j].noted /\ jobs[j].state \in S}

(* POST /results/upload/prepare: the job known for the result, if any, or  *)
(* a new placeholder.  A result sent inline needs none.                    *)
Prepare(p) ==
  /\ cli[p].phase = "next"
  /\ \E r \in cli[p].todo :
       IF r \notin Chunked
       THEN /\ cli' = [cli EXCEPT ![p].phase = "upload", ![p].result = r]
            /\ jobs' = jobs
       ELSE LET known == Noted(r, {"ASSIGNED", "COMPLETED"})
            IN \E j \in (IF known # {} THEN known ELSE Fresh) :
                 /\ cli' = [cli EXCEPT ![p].phase = "chunks", ![p].result = r, ![p].job = j]
                 /\ jobs' = IF known # {} THEN jobs
                            ELSE [jobs EXCEPT ![j] = [state |-> "ASSIGNED", result |-> r,
                                                      noted |-> TRUE]]
  /\ UNCHANGED <<local, handler, content, faults>>

(* The chunked upload (ChunkedUpload), refused when the job has gone.      *)
SendChunks(p) ==
  /\ cli[p].phase = "chunks"
  /\ IF jobs[cli[p].job].state \in {"ASSIGNED", "COMPLETED"}
     THEN /\ content' = content \cup {cli[p].result}
          /\ cli' = [cli EXCEPT ![p].phase = "upload"]
     ELSE /\ content' = content
          /\ cli' = [cli EXCEPT ![p] = Through(@)]
  /\ UNCHANGED <<local, jobs, handler, faults>>

(* mark_synced and delete, for an answer 201 and for 409.                  *)
MarkSynced(p) ==
  /\ cli[p].phase = "answered"
  /\ local' = [local EXCEPT ![cli[p].result] = IF @ = "pending" THEN "synced" ELSE @]
  /\ cli' = [cli EXCEPT ![p].phase = "marked"]
  /\ UNCHANGED <<jobs, handler, content, faults>>

DeleteFile(p) ==
  /\ cli[p].phase = "marked"
  /\ local' = [local EXCEPT ![cli[p].result] = "deleted"]
  /\ cli' = [cli EXCEPT ![p] = Through(@)]
  /\ UNCHANGED <<jobs, handler, content, faults>>

-----------------------------------------------------------------------------
(* POST /results/upload                                                    *)

(* Mutant: a placeholder counts as uploaded.                               *)
AnyKnown(r) == Noted(r, {"ASSIGNED", "COMPLETED"}) # {}

AlreadyUploaded(r) == Noted(r, {"COMPLETED"}) # {}

(* Mutant: 409 is an error like any other.                                 *)
ConflictFails(c) == Through(c)

(* The client takes 409 for success.                                       *)
OnConflict(c) == [c EXCEPT !.phase = "answered"]

(* The handler loads the collection's jobs and decides; chunked content is *)
(* taken from memory.                                                      *)
Receive(p, h) ==
  /\ cli[p].phase = "upload"
  /\ handler[h] = NoHandler
  /\ LET r == cli[p].result
     IN \/ /\ AlreadyUploaded(r)
           /\ cli' = [cli EXCEPT ![p] = OnConflict(@)]
           /\ UNCHANGED <<handler, content>>
        \/ /\ ~AlreadyUploaded(r)
           /\ r \in Chunked \ content
           /\ cli' = [cli EXCEPT ![p] = Through(@)]
           /\ UNCHANGED <<handler, content>>
        \/ /\ ~AlreadyUploaded(r)
           /\ r \notin Chunked \ content
           /\ content' = content \ {r}
           /\ \E j \in (IF Noted(r, {"ASSIGNED"}) = {} THEN {0} ELSE Noted(r, {"ASSIGNED"})) :
                handler' = [handler EXCEPT ![h] = [phase |-> "loaded", client |-> p, result |-> r,
                                                   placeholder |-> j, job |-> 0]]
           /\ cli' = [cli EXCEPT ![p].phase = "waiting"]
  /\ UNCHANGED <<local, jobs, faults>>

(* agent_upload_offline_result commits the placeholder's deletion, the job *)
(* and the result.                                                         *)
Store(h) ==
  /\ handler[h].phase = "loaded"
  /\ \E j \in Fresh :
       /\ jobs' = [k \in JobIds |->
            CASE k = j -> [state |-> "COMPLETED", result |-> handler[h].result, noted |-> FALSE]
              [] k = handler[h].placeholder -> [jobs[k] EXCEPT !.state = "deleted"]
              [] OTHER -> jobs[k]]
       /\ handler' = [handler EXCEPT ![h].phase = "stored", ![h].job = j]
  /\ UNCHANGED <<local, cli, content, faults>>

(* Mutant: the result_id is not noted.                                     *)
NoNote(j) == jobs

Note(j) == [jobs EXCEPT ![j].noted = TRUE]

(* The second commit, and the answer.                                      *)
Finish(h) ==
  /\ handler[h].phase = "stored"
  /\ jobs' = Note(handler[h].job)
  /\ cli' = IF handler[h].client = Null THEN cli
            ELSE [cli EXCEPT ![handler[h].client].phase = "answered"]
  /\ handler' = [handler EXCEPT ![h] = NoHandler]
  /\ UNCHANGED <<local, content, faults>>

-----------------------------------------------------------------------------
(* Faults.                                                                 *)

Fault == faults < MaxFaults /\ faults' = faults + 1

(* The handler goes on without a client.                                   *)
Forget(p) == [h \in Handlers |-> IF handler[h].client = p THEN [handler[h] EXCEPT !.client = Null]
                                 ELSE handler[h]]

(* A request or its answer is lost: the next result's turn.                *)
Lose(p) == /\ Fault
           /\ cli[p].phase \in {"next", "chunks", "upload", "waiting"}
           /\ IF cli[p].phase = "next"
              THEN \E r \in cli[p].todo : cli' = [cli EXCEPT ![p] = Through([@ EXCEPT !.result = r])]
              ELSE cli' = [cli EXCEPT ![p] = Through(@)]
           /\ handler' = Forget(p)
           /\ UNCHANGED <<local, jobs, content>>

Kill(p) == /\ Kills
           /\ Fault
           /\ cli[p].phase # "idle"
           /\ cli' = [cli EXCEPT ![p] = NoCli]
           /\ handler' = Forget(p)
           /\ UNCHANGED <<local, jobs, content>>

(* The first transaction fails: 500.                                       *)
FailStore(h) == /\ Fault
                /\ handler[h].phase = "loaded"
                /\ cli' = IF handler[h].client = Null THEN cli
                          ELSE [cli EXCEPT ![handler[h].client] = Through(@)]
                /\ handler' = [handler EXCEPT ![h] = NoHandler]
                /\ UNCHANGED <<local, jobs, content>>

(* The server stops: its requests end, uncommitted, and its memory is lost *)
ServerStop == /\ Stops
              /\ Fault
              /\ handler' = [h \in Handlers |-> NoHandler]
              /\ content' = {}
              /\ cli' = [p \in Syncs |-> IF cli[p].phase = "waiting" THEN Through(cli[p]) ELSE cli[p]]
              /\ UNCHANGED <<local, jobs>>

(* The agent is found offline (the sync command sends no heartbeat): its   *)
(* placeholders go to the queue.                                           *)
Sweep == /\ Fault
         /\ \E j \in JobIds : /\ jobs[j].state = "ASSIGNED"
                              /\ jobs' = [jobs EXCEPT ![j].state = "released", ![j].noted = FALSE]
         /\ UNCHANGED <<local, cli, handler, content>>

Sync(p) == \/ StartSync(p) \/ Prepare(p) \/ SendChunks(p) \/ MarkSynced(p) \/ DeleteFile(p)
           \/ \E h \in Handlers : Receive(p, h)

Handle(h) == Store(h) \/ Finish(h)

Next == \/ \E r \in Results : RunOffline(r)
        \/ \E p \in Syncs : Sync(p) \/ Lose(p) \/ Kill(p)
        \/ \E h \in Handlers : Handle(h) \/ FailStore(h)
        \/ ServerStop
        \/ Sweep

Spec == Init /\ [][Next]_vars

(* The user keeps running sync, and what runs goes on.                     *)
FairSpec == Spec /\ \A p \in Syncs : WF_vars(Sync(p))
                 /\ \A h \in Handlers : WF_vars(Handle(h))

-----------------------------------------------------------------------------
(* Properties.                                                             *)

Stored(r) == {j \in JobIds : jobs[j].result = r /\ jobs[j].state = "COMPLETED"}

(* No file is given up before its result is on the server, whatever is     *)
(* lost, killed, stopped or swept.                                         *)
NothingLost == \A r \in Results : local[r] \in {"synced", "deleted"} => Stored(r) # {}

(* A result is stored once.  "the agent resumes from where it left off     *)
(* without duplicating already-uploaded results", specs/108, spec.md:62.   *)
StoredOnce == \A r \in Results : Cardinality(Stored(r)) <= 1

(* A user who keeps running sync gets every pending result to the server,  *)
(* after any number of faults.                                             *)
Waits(r) == local[r] = "pending"
Uploaded(r) == local[r] \in {"synced", "deleted"}
PendingSettles == \A r \in Results : Waits(r) ~> Uploaded(r)

(* "System MUST clean up local result files after successful upload",      *)
(* specs/108, spec.md:165.                                                 *)
FilesCleanedUp == \A r \in Results : (local[r] = "synced") ~> (local[r] = "deleted")
=============================================================================
