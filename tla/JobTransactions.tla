--------------------------- MODULE JobTransactions ---------------------------
(***************************************************************************)
(* The handlers of JobQueue one level down: what they do when several      *)
(* requests run at the same time.  A handler loads rows, decides, and      *)
(* writes the columns it changed in one transaction.  The database runs    *)
(* READ COMMITTED; rows carry no version, so a write goes to the row as it *)
(* is by then.  Only a claim locks what it reads (FOR UPDATE SKIP LOCKED), *)
(* and one partial unique index guards the SCHEDULED rows.                 *)
(*                                                                         *)
(* One (collection, tool) pair with automatic refresh; a SCHEDULED row is  *)
(* due at any time, and an agent may be found silent at any time.          *)
(***************************************************************************)
EXTENDS Naturals, FiniteSets

CONSTANTS
  Agents,      \* agents of the team
  Null,        \* SQL NULL
  Handlers,    \* requests that may be handled at the same time
  Cancels,     \* users cancel jobs
  Crashes,     \* a handler may die between two of its steps
  MaxRetries,  \* jobs.max_retries
  MaxJobs      \* bound: rows ever created

ConstantsAssumption == /\ Null \notin Agents
                       /\ {Cancels, Crashes} \subseteq BOOLEAN
                       /\ MaxRetries \in Nat
                       /\ MaxJobs \in Nat

VARIABLES
  rows,      \* rows[j]: row j of the jobs table, as committed
  results,   \* results[j]: analysis results stored for j
  commands,  \* commands[a]: jobs with a "cancel_job:" command pending for a
  told,      \* told[a]: cancellations delivered to a in answers to heartbeats
  tx         \* tx[h]: what handler h has loaded and not yet written

vars == <<rows, results, commands, told, tx>>

JobIds == 1 .. MaxJobs
Queued == {"SCHEDULED", "PENDING"}
Held == {"ASSIGNED"}                 \* ASSIGNED or RUNNING
Terminal == {"COMPLETED", "FAILED", "CANCELLED"}
Active == {"PENDING"} \cup Held      \* what the conflict check looks for

Row == [status: {"none"} \cup Queued \cup Held \cup Terminal,
        agent: Agents \cup {Null}, retries: 0 .. MaxRetries]
NoRow == [status |-> "none", agent |-> Null, retries |-> 0]

(* op: the handler; job, agent: what it is about; row: the row it loaded;  *)
(* loaded: the other rows, or the commands, it loaded (a claim: the rows   *)
(* it locked).                                                             *)
Tx == [op: {"idle", "claim", "complete", "fail", "release", "cancel",
            "cancelled", "queue", "heartbeat", "run"},
       job: JobIds \cup {0}, agent: Agents \cup {Null}, row: Row, loaded: SUBSET JobIds]
Idle == [op |-> "idle", job |-> 0, agent |-> Null, row |-> NoRow, loaded |-> {}]

TypeOK == /\ rows \in [JobIds -> Row]
          /\ results \in [JobIds -> Nat]
          /\ commands \in [Agents -> SUBSET JobIds]
          /\ told \in [Agents -> SUBSET JobIds]
          /\ tx \in [Handlers -> Tx]

Init == /\ rows = [j \in JobIds |-> NoRow]
        /\ results = [j \in JobIds |-> 0]
        /\ commands = [a \in Agents |-> {}]
        /\ told = [a \in Agents |-> {}]
        /\ tx = [h \in Handlers |-> Idle]

-----------------------------------------------------------------------------
With(S) == {j \in JobIds : rows[j].status \in S}

Load(h, op, j, a, S) ==
  /\ tx[h] = Idle
  /\ tx' = [tx EXCEPT ![h] = [op |-> op, job |-> j, agent |-> a, loaded |-> S,
                              row |-> IF j = 0 THEN NoRow ELSE rows[j]]]
  /\ UNCHANGED <<rows, results, commands, told>>

End(h) == tx' = [tx EXCEPT ![h] = Idle]

(* Mutant: claims without FOR UPDATE.                                      *)
NothingLocked(h) == {}

(* Rows that other handlers have locked: claims skip them, writes wait.    *)
Locked(h) == UNION {tx[k].loaded : k \in {g \in Handlers \ {h} : tx[g].op = "claim"}}

(* The identifier the next inserted row gets (empty: the bound is used up) *)
Fresh == {j \in JobIds : /\ rows[j].status = "none"
                         /\ \A k \in JobIds : k < j => rows[k].status # "none"}

(* The partial unique index on (collection_id, tool) of SCHEDULED rows.    *)
IndexHolds(rs) == \A i, j \in JobIds :
                    rs[i].status = "SCHEDULED" /\ rs[j].status = "SCHEDULED" => i = j

-----------------------------------------------------------------------------
(* POST /jobs/claim                                                        *)

Claim(h, a) == LET S == With(Queued) \ Locked(h)
               IN \E j \in S : Load(h, "claim", j, a, S)

CommitClaim(h) ==
  /\ tx[h].op = "claim"
  /\ rows' = [rows EXCEPT ![tx[h].job].status = "ASSIGNED", ![tx[h].job].agent = tx[h].agent]
  /\ End(h)
  /\ UNCHANGED <<results, commands, told>>

(* POST /jobs/{guid}/complete and /fail.  The agent sends each once for a  *)
(* job it was given, the failure also when no answer to the completion     *)
(* came in time.                                                           *)
Report(h, op) ==
  \E j \in With(Held) :
    /\ \A k \in Handlers : ~(tx[k].op = op /\ tx[k].job = j /\ tx[k].agent = rows[j].agent)
    /\ Load(h, op, j, rows[j].agent, With({"SCHEDULED"}))

(* complete_job: the result, the status and the follow-up row are written  *)
(* together, or nothing is when the index refuses the row.                 *)
CommitComplete(h) ==
  /\ tx[h].op = "complete"
  /\ tx[h].job \notin Locked(h)
  /\ LET done == [rows EXCEPT ![tx[h].job].status = "COMPLETED"]
     IN \E n \in Fresh :
          LET next == IF tx[h].loaded # {} THEN done
                      ELSE [done EXCEPT ![n].status = "SCHEDULED"]
          IN IF IndexHolds(next)
             THEN /\ rows' = next
                  /\ results' = [results EXCEPT ![tx[h].job] = @ + 1]
             ELSE UNCHANGED <<rows, results>>
  /\ End(h)
  /\ UNCHANGED <<commands, told>>

CommitFail(h) ==
  /\ tx[h].op = "fail"
  /\ tx[h].job \notin Locked(h)
  /\ rows' = [rows EXCEPT ![tx[h].job].status = "FAILED"]
  /\ results' = [results EXCEPT ![tx[h].job] = @ + 1]
  /\ End(h)
  /\ UNCHANGED <<commands, told>>

(* The sweep for silent agents, for one job of one agent.                  *)
Release(h) == \E j \in With(Held) : Load(h, "release", j, rows[j].agent, {})

(* What is written depends on the row as it was loaded.                    *)
Released(row, seen) ==
  IF seen.retries < MaxRetries
  THEN [status |-> "PENDING", agent |-> Null, retries |-> seen.retries + 1]
  ELSE [row EXCEPT !.status = "FAILED"]

CommitRelease(h) ==
  /\ tx[h].op = "release"
  /\ tx[h].job \notin Locked(h)
  /\ rows' = [rows EXCEPT ![tx[h].job] = Released(@, tx[h].row)]
  /\ End(h)
  /\ UNCHANGED <<results, commands, told>>

-----------------------------------------------------------------------------
(* POST /jobs/{guid}/cancel: the status, then the command for the agent.   *)

Cancellable == With(Queued \cup Held)

Cancel(h) == Cancels /\ \E j \in Cancellable : Load(h, "cancel", j, rows[j].agent, {})

(* Whether a command follows is decided on the row as it was loaded.       *)
NeedsCommand(row) == row.status \in Held

CommitCancel(h) ==
  /\ tx[h].op = "cancel"
  /\ tx[h].job \notin Locked(h)
  /\ rows' = [rows EXCEPT ![tx[h].job].status = "CANCELLED"]
  /\ IF NeedsCommand(tx[h].row)
     THEN tx' = [tx EXCEPT ![h].op = "cancelled"]
     ELSE End(h)
  /\ UNCHANGED <<results, commands, told>>

(* queue_command reads the whole list ...                                  *)
LoadCommands(h) ==
  /\ tx[h].op = "cancelled"
  /\ tx' = [tx EXCEPT ![h] = [@ EXCEPT !.op = "queue", !.loaded = commands[tx[h].agent]]]
  /\ UNCHANGED <<rows, results, commands, told>>

Appended(S, j) == S \cup {j}

(* ... and writes it back.                                                 *)
QueueCommand(h) ==
  /\ tx[h].op = "queue"
  /\ commands' = [commands EXCEPT ![tx[h].agent] = Appended(tx[h].loaded, tx[h].job)]
  /\ End(h)
  /\ UNCHANGED <<rows, results, told>>

(* get_and_clear_commands, in the handler of a heartbeat                   *)
Heartbeat(h, a) == /\ commands[a] # {}
                   /\ \A k \in Handlers : ~(tx[k].op = "heartbeat" /\ tx[k].agent = a)
                   /\ Load(h, "heartbeat", 0, a, commands[a])

ClearCommands(h) ==
  /\ tx[h].op = "heartbeat"
  /\ commands' = [commands EXCEPT ![tx[h].agent] = {}]
  /\ told' = [told EXCEPT ![tx[h].agent] = @ \cup tx[h].loaded]
  /\ End(h)
  /\ UNCHANGED <<rows, results>>

-----------------------------------------------------------------------------
NoneActive == With(Active) = {}

(* POST /tools/run: the conflict check, the automatic refresh cancelled,   *)
(* the insert.                                                             *)
RunTool(h) == NoneActive /\ Load(h, "run", 0, Null, With({"SCHEDULED"}))

CommitRun(h) ==
  /\ tx[h].op = "run"
  /\ tx[h].loaded \cap Locked(h) = {}
  /\ \E n \in Fresh :
       rows' = [j \in JobIds |->
                  CASE j = n -> [NoRow EXCEPT !.status = "PENDING"]
                    [] j \in tx[h].loaded -> [rows[j] EXCEPT !.status = "CANCELLED"]
                    [] OTHER -> rows[j]]
  /\ End(h)
  /\ UNCHANGED <<results, commands, told>>

(* A handler dies; its open transaction is rolled back.                    *)
Crash(h) == /\ Crashes
            /\ tx[h] # Idle
            /\ End(h)
            /\ UNCHANGED <<rows, results, commands, told>>

Next == \E h \in Handlers :
          \/ \E a \in Agents : Claim(h, a) \/ Heartbeat(h, a)
          \/ \E op \in {"complete", "fail"} : Report(h, op)
          \/ CommitClaim(h) \/ CommitComplete(h) \/ CommitFail(h)
          \/ Release(h) \/ CommitRelease(h)
          \/ Cancel(h) \/ CommitCancel(h) \/ LoadCommands(h) \/ QueueCommand(h)
          \/ ClearCommands(h) \/ RunTool(h) \/ CommitRun(h) \/ Crash(h)

Spec == Init /\ [][Next]_vars

-----------------------------------------------------------------------------
(* Properties.                                                             *)

(* There is at most one automatic refresh waiting for a collection and a   *)
(* tool, however completions overlap (the check in the code does not       *)
(* suffice; the index does).                                               *)
OneScheduled == Cardinality(With({"SCHEDULED"})) <= 1

(* A job goes from one agent to another only through the queue, however    *)
(* claims, sweeps, reports and cancellations of it overlap: no two claims  *)
(* are answered with the same row.                                         *)
KeepsHolder ==
  \A j \in JobIds : rows[j].status \in Held /\ rows'[j].status \in Held
                     => rows'[j].agent = rows[j].agent
ClaimsExclusive == [][KeepsHolder]_vars

(* A result is stored only together with the end of its job: while a job   *)
(* is waiting or held it has no result that its next report would double.  *)
ResultsAtTheEnd == \A j \in With(Queued \cup Held) : results[j] = 0

(* At most one job of a collection and a tool waits or runs.               *)
(* "ConflictError: If same tool already running on collection",            *)
(* tool_service.py:936.                                                    *)
OneActive == Cardinality(With(Active)) <= 1

(* A job that has ended stays as it ended, and its result stays the only   *)
(* one.  "Terminal states are COMPLETED, FAILED, or CANCELLED.",           *)
(* job.py:394.                                                             *)
KeepsEnd ==
  \A j \in JobIds : rows[j].status \in Terminal
                     => rows'[j] = rows[j] /\ results'[j] = results[j]
TerminalStays == [][KeepsEnd]_vars

(* "Get pending commands for an agent and clear them atomically.",         *)
(* agent_service.py:1220: a command leaves the list only by being sent.    *)
ClearsSent == \A a \in Agents : commands[a] \ commands'[a] \subseteq told'[a]
ClearedAtomically == [][ClearsSent]_vars

(* "Set status to CANCELLED" and "Queue a cancel_job command to the        *)
(* agent", tool_service.py:1270: once no handler is at it, the agent of a  *)
(* cancelled job has been told or will be.                                 *)
AgentHears ==
  \A j \in With({"CANCELLED"}) :
    \/ rows[j].agent = Null
    \/ j \in commands[rows[j].agent] \cup told[rows[j].agent]
    \/ \E h \in Handlers : tx[h].job = j /\ tx[h].op \in {"cancelled", "queue"}
=============================================================================
