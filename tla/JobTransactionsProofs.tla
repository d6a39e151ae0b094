------------------------ MODULE JobTransactionsProofs ------------------------
(* Claims never share a job: whatever requests overlap, and however many,  *)
(* a job goes from one agent to another only through the queue.  It rests  *)
(* on FOR UPDATE SKIP LOCKED alone: what a claim has read stays queued     *)
(* until it commits.                                                       *)
EXTENDS JobTransactions, TLAPS

(* The requests that are about one job.                                    *)
AboutJob == {"claim", "complete", "fail", "release", "cancel", "cancelled", "queue"}
JobsGiven == \A h \in Handlers : tx[h].op \in AboutJob => tx[h].job \in JobIds

(* The rows that a claim has locked are waiting, its own among them.       *)
LockedQueued == \A h \in Handlers : tx[h].op = "claim" =>
                  /\ tx[h].job \in tx[h].loaded
                  /\ \A j \in tx[h].loaded : rows[j].status \in Queued

(* No row is locked twice.                                                 *)
LocksDisjoint == \A h, k \in Handlers :
                   tx[h].op = "claim" /\ tx[k].op = "claim" /\ h # k
                     => tx[h].loaded \cap tx[k].loaded = {}

(* A held row has an agent, and so has whoever will write for one.         *)
HolderKnown == \A j \in JobIds : rows[j].status \in Held => rows[j].agent \in Agents
CallerKnown == \A h \in Handlers :
                 \/ tx[h].op \in {"claim", "cancelled", "queue"}
                 \/ tx[h].op = "cancel" /\ tx[h].row.status \in Held
                 => tx[h].agent \in Agents

IInv == TypeOK /\ JobsGiven /\ LockedQueued /\ LocksDisjoint /\ HolderKnown /\ CallerKnown

-----------------------------------------------------------------------------
(* What the helpers return.                                                *)

LEMMA NoRowType ==
  ASSUME ConstantsAssumption
  PROVE  NoRow \in Row
  BY DEF ConstantsAssumption, NoRow, Row

LEMMA IdleType ==
  ASSUME ConstantsAssumption
  PROVE  Idle \in Tx
  BY NoRowType DEF Idle, Tx

LEMMA WithType ==
  ASSUME NEW S
  PROVE  With(S) \subseteq JobIds /\ \A j \in With(S) : rows[j].status \in S
  BY DEF With

LEMMA FreshType == \A j \in Fresh : j \in JobIds /\ rows[j].status = "none"
  BY DEF Fresh

LEMMA ReleasedType ==
  ASSUME ConstantsAssumption, NEW row \in Row, NEW seen \in Row
  PROVE  Released(row, seen) \in Row /\ Released(row, seen).status \notin Held
  <1>1. CASE seen.retries < MaxRetries
    <2>1. seen.retries + 1 \in 0 .. MaxRetries
      BY <1>1 DEF Row, ConstantsAssumption
    <2>2. QED
      BY <1>1, <2>1 DEF Released, Row, Queued, Held
  <1>2. CASE ~ (seen.retries < MaxRetries)
    BY <1>2 DEF Released, Row, Terminal, Held
  <1>3. QED
    BY <1>1, <1>2

LEMMA StatusType ==
  ASSUME NEW row \in Row, NEW st \in {"none"} \cup Queued \cup Held \cup Terminal
  PROVE  [row EXCEPT !.status = st] \in Row /\ [row EXCEPT !.status = st].status = st
  BY DEF Row

-----------------------------------------------------------------------------
(* A request that begins.                                                  *)

LEMMA LoadKeepsIInv ==
  ASSUME ConstantsAssumption, IInv, NEW h \in Handlers,
         NEW op \in {"claim", "complete", "fail", "release", "cancel", "heartbeat", "run"},
         NEW j \in JobIds \cup {0}, NEW a \in Agents \cup {Null}, NEW S \in SUBSET JobIds,
         Load(h, op, j, a, S),
         op \in AboutJob => j \in JobIds,
         op = "claim" => j \in S /\ S \subseteq With(Queued) \ Locked(h) /\ a \in Agents,
         op = "cancel" => a = rows[j].agent
  PROVE  IInv' /\ KeepsHolder
  <1> DEFINE t == [op |-> op, job |-> j, agent |-> a, loaded |-> S,
                   row |-> IF j = 0 THEN NoRow ELSE rows[j]]
  <1>1. tx' = [tx EXCEPT ![h] = t] /\ UNCHANGED <<rows, results, commands, told>>
    BY DEF Load
  <1>2. (IF j = 0 THEN NoRow ELSE rows[j]) \in Row
    BY NoRowType DEF IInv, TypeOK
  <1>3. t \in Tx
    BY <1>2 DEF Tx
  <1>4. TypeOK'
    BY <1>1, <1>3 DEF IInv, TypeOK
  <1>5. JobsGiven'
    BY <1>1 DEF IInv, TypeOK, JobsGiven
  <1>6. LockedQueued'
    BY <1>1, WithType DEF IInv, TypeOK, LockedQueued
  <1>7. op = "claim" => \A k \in Handlers \ {h} : tx[k].op = "claim" => S \cap tx[k].loaded = {}
    BY DEF Locked
  <1>8. LocksDisjoint'
    BY <1>1, <1>7 DEF IInv, TypeOK, LocksDisjoint
  <1>9. op = "cancel" => j # 0
    BY DEF AboutJob, JobIds
  <1>10. CallerKnown'
    <2>1. ASSUME NEW k \in Handlers, k # h
          PROVE  tx'[k] = tx[k]
      BY <1>1, <2>1 DEF IInv, TypeOK
    <2>2. tx'[h] = t
      BY <1>1 DEF IInv, TypeOK
    <2>3. t.op = "cancel" /\ t.row.status \in Held => t.agent \in Agents
      BY <1>9 DEF IInv, HolderKnown
    <2>4. t.op \notin {"cancelled", "queue"} /\ (t.op = "claim" => t.agent \in Agents)
      OBVIOUS
    <2>5. QED
      BY <2>1, <2>2, <2>3, <2>4 DEF IInv, CallerKnown, Held
  <1>11. HolderKnown' /\ KeepsHolder
    BY <1>1 DEF IInv, HolderKnown, KeepsHolder
  <1>12. QED
    BY <1>4, <1>5, <1>6, <1>8, <1>10, <1>11 DEF IInv

(* A request that ends, and the rows it has written: none that another     *)
(* one has locked.                                                         *)
LEMMA EndKeepsIInv ==
  ASSUME ConstantsAssumption, IInv, NEW h \in Handlers, End(h),
         rows' \in [JobIds -> Row], results' \in [JobIds -> Nat],
         commands' \in [Agents -> SUBSET JobIds], told' \in [Agents -> SUBSET JobIds],
         \A j \in Locked(h) : rows'[j] = rows[j], HolderKnown'
  PROVE  IInv'
  <1>1. TypeOK'
    BY IdleType DEF End, IInv, TypeOK
  <1>2. JobsGiven' /\ LocksDisjoint'
    BY DEF End, Idle, AboutJob, IInv, TypeOK, JobsGiven, LocksDisjoint
  <1>3. ASSUME NEW k \in Handlers, tx'[k].op = "claim"
        PROVE  tx'[k].job \in tx'[k].loaded /\ \A j \in tx'[k].loaded : rows'[j].status \in Queued
    <2>1. k # h /\ tx'[k] = tx[k]
      BY <1>3 DEF End, Idle, IInv, TypeOK
    <2>2. tx[k].loaded \subseteq Locked(h)
      BY <1>3, <2>1 DEF Locked
    <2>3. QED
      BY <1>3, <2>1, <2>2 DEF IInv, LockedQueued
  <1>4. LockedQueued'
    BY <1>3 DEF LockedQueued, Queued
  <1>5. CallerKnown'
    BY DEF End, Idle, IInv, TypeOK, CallerKnown
  <1>6. QED
    BY <1>1, <1>2, <1>4, <1>5 DEF IInv

(* A step of a request that cancels writes no row that is locked.          *)
LEMMA CancelStepKeepsIInv ==
  ASSUME ConstantsAssumption, IInv, NEW h \in Handlers,
         NEW t \in Tx, tx' = [tx EXCEPT ![h] = t], t.op \in {"cancelled", "queue"},
         t.job \in JobIds, tx[h].op \in {"cancel", "cancelled"},
         rows' \in [JobIds -> Row], UNCHANGED <<results, commands, told>>,
         \A j \in Locked(h) : rows'[j] = rows[j], HolderKnown', t.agent \in Agents
  PROVE  IInv'
  <1>1. TypeOK'
    BY DEF IInv, TypeOK
  <1>2. JobsGiven' /\ LocksDisjoint'
    BY DEF IInv, TypeOK, JobsGiven, LocksDisjoint
  <1>3. ASSUME NEW k \in Handlers, tx'[k].op = "claim"
        PROVE  tx'[k].job \in tx'[k].loaded /\ \A j \in tx'[k].loaded : rows'[j].status \in Queued
    <2>1. k # h /\ tx'[k] = tx[k]
      BY <1>3 DEF IInv, TypeOK
    <2>2. tx[k].loaded \subseteq Locked(h)
      BY <1>3, <2>1 DEF Locked
    <2>3. QED
      BY <1>3, <2>1, <2>2 DEF IInv, LockedQueued
  <1>4. LockedQueued'
    BY <1>3 DEF LockedQueued, Queued
  <1>5. CallerKnown'
    BY DEF IInv, TypeOK, CallerKnown
  <1>6. QED
    BY <1>1, <1>2, <1>4, <1>5 DEF IInv

-----------------------------------------------------------------------------
(* A row that another request has locked is waiting; a free one is not     *)
(* locked.                                                                 *)
LEMMA LockedRows ==
  ASSUME IInv, NEW h \in Handlers, NEW j \in Locked(h)
  PROVE  rows[j].status \in Queued
  BY DEF Locked, IInv, LockedQueued

LEMMA FreshUnlocked ==
  ASSUME IInv, NEW h \in Handlers, NEW n \in Fresh
  PROVE  n \notin Locked(h)
  BY LockedRows, FreshType DEF Queued

(* Rows that are held after a step as they were before it.                 *)
LEMMA SameHolders ==
  ASSUME IInv, \A j \in JobIds : rows'[j].status \in Held => rows'[j] = rows[j]
  PROVE  HolderKnown' /\ KeepsHolder
  <1>1. KeepsHolder
    BY DEF KeepsHolder
  <1>2. HolderKnown'
    BY DEF IInv, HolderKnown, Held
  <1>3. QED
    BY <1>1, <1>2

(* The commits: what they write, and that a job changes hands only through *)
(* the queue.                                                              *)
Commit(h) == \/ CommitClaim(h) \/ CommitComplete(h) \/ CommitFail(h) \/ CommitRelease(h)
             \/ CommitRun(h) \/ QueueCommand(h) \/ ClearCommands(h) \/ Crash(h)

LEMMA CommitSteps ==
  ASSUME ConstantsAssumption, IInv, NEW h \in Handlers, Commit(h)
  PROVE  IInv' /\ KeepsHolder
  <1> tx[h] \in Tx
    BY DEF IInv, TypeOK
  <1>1. CASE CommitClaim(h)
    <2> DEFINE j == tx[h].job
    <2>1. j \in JobIds /\ rows[j].status \in Queued /\ j \notin Locked(h)
      BY <1>1 DEF CommitClaim, AboutJob, IInv, JobsGiven, LockedQueued, LocksDisjoint, Locked
    <2>2. rows' = [rows EXCEPT ![j] = [rows[j] EXCEPT !.status = "ASSIGNED", !.agent = tx[h].agent]]
      BY <1>1, <2>1 DEF CommitClaim, IInv, TypeOK
    <2>3. [rows[j] EXCEPT !.status = "ASSIGNED", !.agent = tx[h].agent] \in Row
      BY <2>1 DEF IInv, TypeOK, Row, Tx, Held
    <2>4. rows' \in [JobIds -> Row] /\ \A i \in JobIds \ {j} : rows'[i] = rows[i]
      BY <2>1, <2>2, <2>3 DEF IInv, TypeOK
    <2>5. IInv'
      <3>1. \A i \in Locked(h) : rows'[i] = rows[i]
        BY <2>1, <2>4 DEF Locked, IInv, TypeOK, Tx
      <3>2. tx[h].agent \in Agents /\ rows'[j].agent = tx[h].agent
        BY <1>1, <2>1, <2>2 DEF CommitClaim, IInv, TypeOK, CallerKnown, Row
      <3>3. HolderKnown'
        BY <2>4, <3>2 DEF IInv, HolderKnown, Held
      <3>4. QED
        BY <1>1, <2>4, <3>1, <3>3, EndKeepsIInv DEF CommitClaim, IInv, TypeOK
    <2>6. KeepsHolder
      BY <2>1, <2>4 DEF KeepsHolder, Queued, Held
    <2>7. QED
      BY <2>5, <2>6
  <1>2. CASE CommitComplete(h)
    <2> DEFINE j == tx[h].job
               ended == [rows[j] EXCEPT !.status = "COMPLETED"]
               done == [rows EXCEPT ![j] = ended]
    <2>1. j \in JobIds /\ j \notin Locked(h)
      BY <1>2 DEF CommitComplete, AboutJob, IInv, JobsGiven
    <2>2. PICK n \in Fresh : \/ UNCHANGED <<rows, results>>
                             \/ /\ rows' = done \/ rows' = [done EXCEPT ![n].status = "SCHEDULED"]
                                /\ results' = [results EXCEPT ![j] = @ + 1]
      BY <1>2, <2>1 DEF CommitComplete, IInv, TypeOK
    <2>3. n \in JobIds /\ rows[n].status = "none" /\ n \notin Locked(h)
      BY FreshType, FreshUnlocked
    <2>4. /\ done \in [JobIds -> Row] /\ done[j].status = "COMPLETED"
          /\ \A i \in JobIds \ {j} : done[i] = rows[i]
      <3>1. ended \in Row /\ ended.status = "COMPLETED"
        BY <2>1, StatusType DEF IInv, TypeOK, Terminal
      <3>2. QED
        BY <2>1, <3>1 DEF IInv, TypeOK
    <2>5. \/ UNCHANGED rows
          \/ /\ rows' \in [JobIds -> Row]
             /\ \A i \in JobIds : \/ rows'[i] = rows[i]
                                  \/ i \in {j, n} /\ rows'[i].status \in {"COMPLETED", "SCHEDULED"}
      <3>1. CASE rows' = done
        BY <2>4, <3>1
      <3>2. CASE rows' = [done EXCEPT ![n].status = "SCHEDULED"]
        <4>1. rows' = [done EXCEPT ![n] = [done[n] EXCEPT !.status = "SCHEDULED"]]
          BY <2>3, <2>4, <3>2
        <4>2. /\ [done[n] EXCEPT !.status = "SCHEDULED"] \in Row
              /\ [done[n] EXCEPT !.status = "SCHEDULED"].status = "SCHEDULED"
          BY <2>3, <2>4, StatusType DEF Queued
        <4>3. QED
          BY <2>3, <2>4, <4>1, <4>2
      <3>3. QED
        BY <2>2, <3>1, <3>2
    <2>6. rows' \in [JobIds -> Row] /\ results' \in [JobIds -> Nat]
      BY <2>2, <2>5 DEF IInv, TypeOK
    <2>7. \A i \in Locked(h) : rows'[i] = rows[i]
      BY <2>1, <2>3, <2>5 DEF Locked, IInv, TypeOK, Tx
    <2>8. HolderKnown' /\ KeepsHolder
      BY <2>5, SameHolders DEF Held
    <2>9. IInv'
      BY <1>2, <2>6, <2>7, <2>8, EndKeepsIInv DEF CommitComplete, IInv, TypeOK
    <2>10. QED
      BY <2>8, <2>9
  <1>3. CASE CommitFail(h)
    <2> DEFINE j == tx[h].job
    <2>1. j \in JobIds /\ j \notin Locked(h)
      BY <1>3 DEF CommitFail, AboutJob, IInv, JobsGiven
    <2>2. rows' = [rows EXCEPT ![j] = [rows[j] EXCEPT !.status = "FAILED"]]
      BY <1>3, <2>1 DEF CommitFail, IInv, TypeOK
    <2>3. rows' \in [JobIds -> Row] /\ rows'[j].status = "FAILED"
      BY <2>1, <2>2, StatusType DEF IInv, TypeOK, Terminal
    <2>4. results' \in [JobIds -> Nat]
      <3>1. results' = [results EXCEPT ![j] = results[j] + 1]
        BY <1>3 DEF CommitFail
      <3>2. QED
        BY <2>1, <3>1 DEF IInv, TypeOK
    <2>5. \A i \in Locked(h) : rows'[i] = rows[i]
      BY <2>1, <2>2 DEF Locked, IInv, TypeOK, Tx
    <2>6. HolderKnown' /\ KeepsHolder
      BY <2>2, <2>3, SameHolders DEF Held, IInv, TypeOK
    <2>7. IInv'
      BY <1>3, <2>3, <2>4, <2>5, <2>6, EndKeepsIInv DEF CommitFail, IInv, TypeOK
    <2>8. QED
      BY <2>6, <2>7
  <1>4. CASE CommitRelease(h)
    <2> DEFINE j == tx[h].job
    <2>1. j \in JobIds /\ j \notin Locked(h)
      BY <1>4 DEF CommitRelease, AboutJob, IInv, JobsGiven
    <2>2. rows' = [rows EXCEPT ![j] = Released(rows[j], tx[h].row)]
      BY <1>4, <2>1 DEF CommitRelease, IInv, TypeOK
    <2>3. rows' \in [JobIds -> Row] /\ rows'[j].status \notin Held
      BY <2>1, <2>2, ReleasedType DEF IInv, TypeOK, Tx
    <2>4. \A i \in Locked(h) : rows'[i] = rows[i]
      BY <2>1, <2>2 DEF Locked, IInv, TypeOK, Tx
    <2>5. HolderKnown' /\ KeepsHolder
      BY <2>2, <2>3, SameHolders DEF IInv, TypeOK
    <2>6. IInv'
      BY <1>4, <2>3, <2>4, <2>5, EndKeepsIInv DEF CommitRelease, IInv, TypeOK
    <2>7. QED
      BY <2>5, <2>6
  <1>5. CASE CommitRun(h)
    <2>1. PICK n \in Fresh :
            rows' = [j \in JobIds |->
                       CASE j = n -> [NoRow EXCEPT !.status = "PENDING"]
                         [] j \in tx[h].loaded -> [rows[j] EXCEPT !.status = "CANCELLED"]
                         [] OTHER -> rows[j]]
      BY <1>5 DEF CommitRun
    <2>2. n \in JobIds /\ rows[n].status = "none" /\ n \notin Locked(h)
      BY FreshType, FreshUnlocked
    <2>3. /\ [NoRow EXCEPT !.status = "PENDING"] \in Row
          /\ [NoRow EXCEPT !.status = "PENDING"].status = "PENDING"
      BY NoRowType, StatusType DEF Queued
    <2>4. ASSUME NEW i \in JobIds
          PROVE  /\ rows'[i] \in Row
                 /\ rows'[i].status \in {"PENDING", "CANCELLED"} \/ rows'[i] = rows[i]
                 /\ i \notin tx[h].loaded /\ i # n => rows'[i] = rows[i]
      <3>1. /\ [rows[i] EXCEPT !.status = "CANCELLED"] \in Row
            /\ [rows[i] EXCEPT !.status = "CANCELLED"].status = "CANCELLED"
            /\ rows[i] \in Row
        BY StatusType DEF IInv, TypeOK, Terminal
      <3>2. rows'[i] \in {[NoRow EXCEPT !.status = "PENDING"],
                          [rows[i] EXCEPT !.status = "CANCELLED"], rows[i]}
        BY <2>1
      <3>3. i \notin tx[h].loaded /\ i # n => rows'[i] = rows[i]
        BY <2>1
      <3>4. QED
        BY <2>3, <3>1, <3>2, <3>3
    <2>5. rows' \in [JobIds -> Row]
      BY <2>1, <2>4
    <2>6. \A i \in Locked(h) : rows'[i] = rows[i]
      BY <1>5, <2>2, <2>4 DEF CommitRun, Locked, IInv, TypeOK, Tx
    <2>7. HolderKnown' /\ KeepsHolder
      BY <2>4, SameHolders DEF Held
    <2>8. IInv'
      BY <1>5, <2>5, <2>6, <2>7, EndKeepsIInv DEF CommitRun, IInv, TypeOK
    <2>9. QED
      BY <2>7, <2>8
  <1>6. CASE QueueCommand(h)
    <2>1. Appended(tx[h].loaded, tx[h].job) \in SUBSET JobIds
      BY <1>6 DEF QueueCommand, Appended, AboutJob, IInv, JobsGiven, Tx
    <2>2. commands' \in [Agents -> SUBSET JobIds]
      BY <1>6, <2>1 DEF QueueCommand, IInv, TypeOK
    <2>3. HolderKnown' /\ KeepsHolder
      BY <1>6, SameHolders DEF QueueCommand
    <2>4. IInv'
      BY <1>6, <2>2, <2>3, EndKeepsIInv DEF QueueCommand, IInv, TypeOK
    <2>5. QED
      BY <2>3, <2>4
  <1>7. CASE ClearCommands(h)
    <2>1. commands' \in [Agents -> SUBSET JobIds] /\ told' \in [Agents -> SUBSET JobIds]
      BY <1>7 DEF ClearCommands, IInv, TypeOK, Tx
    <2>2. HolderKnown' /\ KeepsHolder
      BY <1>7, SameHolders DEF ClearCommands
    <2>3. IInv'
      BY <1>7, <2>1, <2>2, EndKeepsIInv DEF ClearCommands, IInv, TypeOK
    <2>4. QED
      BY <2>2, <2>3
  <1>8. CASE Crash(h)
    <2>1. HolderKnown' /\ KeepsHolder
      BY <1>8, SameHolders DEF Crash
    <2>2. IInv'
      BY <1>8, <2>1, EndKeepsIInv DEF Crash, IInv, TypeOK
    <2>3. QED
      BY <2>1, <2>2
  <1>9. QED
    BY <1>1, <1>2, <1>3, <1>4, <1>5, <1>6, <1>7, <1>8 DEF Commit

(* A cancellation: the row, then the command of its agent.                 *)
LEMMA CancelSteps ==
  ASSUME ConstantsAssumption, IInv, NEW h \in Handlers, CommitCancel(h) \/ LoadCommands(h)
  PROVE  IInv' /\ KeepsHolder
  <1> tx[h] \in Tx
    BY DEF IInv, TypeOK
  <1>1. CASE CommitCancel(h)
    <2> DEFINE j == tx[h].job
    <2>1. j \in JobIds /\ j \notin Locked(h)
      BY <1>1 DEF CommitCancel, AboutJob, IInv, JobsGiven
    <2>2. rows' = [rows EXCEPT ![j] = [rows[j] EXCEPT !.status = "CANCELLED"]]
      BY <1>1, <2>1 DEF CommitCancel, IInv, TypeOK
    <2>3. rows' \in [JobIds -> Row] /\ rows'[j].status = "CANCELLED"
      BY <2>1, <2>2, StatusType DEF IInv, TypeOK, Terminal
    <2>4. \A i \in Locked(h) : rows'[i] = rows[i]
      BY <2>1, <2>2 DEF Locked, IInv, TypeOK, Tx
    <2>5. HolderKnown' /\ KeepsHolder
      BY <2>2, <2>3, SameHolders DEF Held, IInv, TypeOK
    <2>6. CASE End(h)
      <3>1. UNCHANGED <<results, commands, told>>
        BY <1>1 DEF CommitCancel
      <3>2. IInv'
        BY <2>3, <2>4, <2>5, <2>6, <3>1, EndKeepsIInv DEF IInv, TypeOK
      <3>3. QED
        BY <2>5, <3>2
    <2>7. CASE NeedsCommand(tx[h].row) /\ tx' = [tx EXCEPT ![h].op = "cancelled"]
      <3> DEFINE t == [tx[h] EXCEPT !.op = "cancelled"]
      <3>1. t \in Tx /\ t.op = "cancelled" /\ t.job = j /\ t.agent = tx[h].agent
        BY DEF Tx
      <3>2. tx' = [tx EXCEPT ![h] = t]
        BY <2>7 DEF IInv, TypeOK
      <3>3. tx[h].op = "cancel" /\ UNCHANGED <<results, commands, told>>
        BY <1>1 DEF CommitCancel
      <3>4. t.agent \in Agents
        BY <2>7, <3>1, <3>3 DEF NeedsCommand, IInv, CallerKnown
      <3>5. IInv'
        BY <2>1, <2>3, <2>4, <2>5, <3>1, <3>2, <3>3, <3>4, CancelStepKeepsIInv
      <3>6. QED
        BY <2>5, <3>5
    <2>8. QED
      BY <1>1, <2>6, <2>7 DEF CommitCancel
  <1>2. CASE LoadCommands(h)
    <2>1. tx[h].op = "cancelled" /\ UNCHANGED <<rows, results, commands, told>>
      BY <1>2 DEF LoadCommands
    <2>2. tx[h].agent \in Agents /\ tx[h].job \in JobIds
      BY <2>1 DEF IInv, CallerKnown, JobsGiven, AboutJob
    <2> DEFINE t == [tx[h] EXCEPT !.op = "queue", !.loaded = commands[tx[h].agent]]
    <2>3. commands[tx[h].agent] \in SUBSET JobIds
      BY <2>2 DEF IInv, TypeOK
    <2>4. t \in Tx /\ t.op = "queue" /\ t.job = tx[h].job /\ t.agent = tx[h].agent
      BY <2>3 DEF Tx
    <2>5. tx' = [tx EXCEPT ![h] = t]
      BY <1>2 DEF LoadCommands, IInv, TypeOK
    <2>6. HolderKnown' /\ KeepsHolder
      BY <2>1, SameHolders
    <2>7. rows' \in [JobIds -> Row] /\ \A i \in Locked(h) : rows'[i] = rows[i]
      BY <2>1 DEF IInv, TypeOK
    <2>8. IInv'
      BY <2>1, <2>2, <2>4, <2>5, <2>6, <2>7, CancelStepKeepsIInv
    <2>9. QED
      BY <2>6, <2>8
  <1>3. QED
    BY <1>1, <1>2

(* The requests as they begin.                                             *)
Begin(h) == \/ \E a \in Agents : Claim(h, a) \/ Heartbeat(h, a)
            \/ \E op \in {"complete", "fail"} : Report(h, op)
            \/ Release(h) \/ Cancel(h) \/ RunTool(h)

LEMMA BeginSteps ==
  ASSUME ConstantsAssumption, IInv, NEW h \in Handlers, Begin(h)
  PROVE  IInv' /\ KeepsHolder
  <1>1. CASE \E a \in Agents : Claim(h, a)
    <2>1. PICK a \in Agents, j \in With(Queued) \ Locked(h) :
            Load(h, "claim", j, a, With(Queued) \ Locked(h))
      BY <1>1 DEF Claim
    <2>2. j \in JobIds /\ With(Queued) \ Locked(h) \in SUBSET JobIds
      BY WithType
    <2>3. QED
      BY <2>1, <2>2, LoadKeepsIInv
  <1>2. CASE \E a \in Agents : Heartbeat(h, a)
    <2>1. PICK a \in Agents : Load(h, "heartbeat", 0, a, commands[a])
      BY <1>2 DEF Heartbeat
    <2>2. commands[a] \in SUBSET JobIds
      BY DEF IInv, TypeOK
    <2>3. QED
      BY <2>1, <2>2, LoadKeepsIInv DEF AboutJob
  <1>3. CASE \E op \in {"complete", "fail"} : Report(h, op)
    <2>1. PICK op \in {"complete", "fail"}, j \in With(Held) :
            Load(h, op, j, rows[j].agent, With({"SCHEDULED"}))
      BY <1>3 DEF Report
    <2>2. j \in JobIds /\ With({"SCHEDULED"}) \in SUBSET JobIds
      BY WithType
    <2>3. rows[j].agent \in Agents \cup {Null}
      BY <2>2 DEF IInv, TypeOK, Row
    <2>4. QED
      BY <2>1, <2>2, <2>3, LoadKeepsIInv
  <1>4. CASE Release(h)
    <2>1. PICK j \in With(Held) : Load(h, "release", j, rows[j].agent, {})
      BY <1>4 DEF Release
    <2>2. j \in JobIds
      BY WithType
    <2>3. rows[j].agent \in Agents \cup {Null}
      BY <2>2 DEF IInv, TypeOK, Row
    <2>4. QED
      BY <2>1, <2>2, <2>3, LoadKeepsIInv
  <1>5. CASE Cancel(h)
    <2>1. PICK j \in With(Queued \cup Held) : Load(h, "cancel", j, rows[j].agent, {})
      BY <1>5 DEF Cancel, Cancellable
    <2>2. j \in JobIds
      BY WithType
    <2>3. rows[j].agent \in Agents \cup {Null}
      BY <2>2 DEF IInv, TypeOK, Row
    <2>4. QED
      BY <2>1, <2>2, <2>3, LoadKeepsIInv
  <1>6. CASE RunTool(h)
    <2>1. With({"SCHEDULED"}) \in SUBSET JobIds
      BY WithType
    <2>2. QED
      BY <1>6, <2>1, LoadKeepsIInv DEF RunTool, AboutJob
  <1>7. QED
    BY <1>1, <1>2, <1>3, <1>4, <1>5, <1>6 DEF Begin

-----------------------------------------------------------------------------
LEMMA InitIInv ==
  ASSUME ConstantsAssumption, Init
  PROVE  IInv
  <1>1. TypeOK
    BY NoRowType, IdleType DEF Init, TypeOK
  <1>2. \A j \in JobIds : rows[j].status = "none"
    BY DEF Init, NoRow
  <1>3. \A h \in Handlers : tx[h].op = "idle"
    BY DEF Init, Idle
  <1>4. QED
    BY <1>1, <1>2, <1>3
    DEF IInv, JobsGiven, AboutJob, LockedQueued, LocksDisjoint, HolderKnown, CallerKnown, Held

LEMMA NextIInv ==
  ASSUME ConstantsAssumption, IInv, [Next]_vars
  PROVE  IInv' /\ [KeepsHolder]_vars
  <1>1. CASE Next
    <2>1. PICK h \in Handlers : Begin(h) \/ Commit(h) \/ CommitCancel(h) \/ LoadCommands(h)
      BY <1>1 DEF Next, Begin, Commit
    <2>2. QED
      BY <2>1, BeginSteps, CommitSteps, CancelSteps
  <1>2. CASE UNCHANGED vars
    BY <1>2 DEF vars, IInv, TypeOK, JobsGiven, LockedQueued, LocksDisjoint, HolderKnown, CallerKnown
  <1>3. QED
    BY <1>1, <1>2

(* Every variable keeps its type, whatever the requests interleave to.     *)
THEOREM TypeCorrect == ConstantsAssumption /\ Spec => []TypeOK
  <1> SUFFICES ASSUME ConstantsAssumption
               PROVE  Spec => []TypeOK
    OBVIOUS
  <1>1. Init => IInv
    BY InitIInv
  <1>2. IInv /\ [Next]_vars => IInv'
    BY NextIInv
  <1>3. IInv => TypeOK
    BY DEF IInv
  <1>4. QED
    BY <1>1, <1>2, <1>3, PTL DEF Spec

(* A job that is held before and after a step is held by the same agent:   *)
(* no two claims are answered with the same row, however many handlers     *)
(* overlap and wherever one of them dies.                                  *)
THEOREM ClaimsNeverShared == ConstantsAssumption /\ Spec => ClaimsExclusive
  <1> SUFFICES ASSUME ConstantsAssumption
               PROVE  Spec => [][KeepsHolder]_vars
    BY DEF ClaimsExclusive
  <1>1. Init => IInv
    BY InitIInv
  <1>2. IInv /\ [Next]_vars => IInv' /\ [KeepsHolder]_vars
    BY NextIInv
  <1>3. QED
    BY <1>1, <1>2, PTL DEF Spec

-----------------------------------------------------------------------------
(* AgentAlerts, for any team: what its members are told of its agents, and *)
(* that an agent that is gone leaves no jobs behind.                       *)
CONSTANTS Jobs, Workers, None, Warnings, Requests, MaxCrashes
VARIABLES agent, job, sweep, alerts, debounce, sent, heard, notified, crashes

Alerts == INSTANCE AgentAlerts WITH told <- heard


(* A process that releases nothing has nothing left over; one that handles *)
(* a disconnect knows whose.                                               *)
Tidy(s) ==
  /\ s.phase # "release" => s.gone = {} /\ s.left = {} /\ s.jobs = {} /\ s.dirty = {}
  /\ s.phase # "idle" /\ s.origin \in {"leave", "disconnect"} => s.who \in Agents

(* What is not committed yet releases jobs, whatever they are.             *)
RowsReleased(s) == \A j \in s.dirty : s.rows[j].state # "held"

JobsKnown == \A j \in Jobs : job[j].state = "held" => job[j].agent \in Agents

SweepFits(s) == s \in Alerts!Sweep /\ Tidy(s) /\ RowsReleased(s)

Base == Alerts!TypeOK /\ JobsKnown /\ \A w \in Workers : SweepFits(sweep[w])

AgentTable == [Agents -> [status: {"online", "offline", "error"}, fresh: BOOLEAN]]

-----------------------------------------------------------------------------
LEMMA NoSweepFits ==
  ASSUME Alerts!ConstantsAssumption
  PROVE  /\ SweepFits(Alerts!NoSweep) /\ Alerts!NoSweep.phase = "idle"
         /\ Alerts!NoSweep.found = {} /\ Alerts!NoSweep.left = {}
         /\ Alerts!NoSweep.gone = {} /\ Alerts!NoSweep.jobs = {} /\ Alerts!NoSweep.dirty = {}
         /\ Alerts!NewJob \in Alerts!Job /\ Alerts!NewJob.state = "pending"
  <1>1. Alerts!NewJob \in Alerts!Job /\ Alerts!NewJob.state = "pending"
    BY DEF Alerts!ConstantsAssumption, Alerts!NewJob, Alerts!Job
  <1>2. [j \in Jobs |-> Alerts!NewJob] \in [Jobs -> Alerts!Job]
    BY <1>1
  <1>3. Alerts!NoSweep \in Alerts!Sweep
    BY <1>2 DEF Alerts!NoSweep, Alerts!Sweep, Alerts!Origins
  <1>4. QED
    BY <1>1, <1>3 DEF Alerts!NoSweep, SweepFits, Tidy, RowsReleased

LEMMA StartedFits ==
  ASSUME Alerts!ConstantsAssumption, NEW ag \in AgentTable, NEW origin \in Alerts!Origins,
         NEW who \in Agents \cup {None}, origin \in {"leave", "disconnect"} => who \in Agents
  PROVE  LET s == Alerts!Started(origin, who, ag)
         IN /\ SweepFits(s) /\ s.phase = "release" /\ s.origin = origin /\ s.who = who
            /\ s.found = Alerts!Silent(ag) /\ s.left = Alerts!Silent(ag)
            /\ s.gone = {} /\ s.jobs = {} /\ s.dirty = {}
  <1> DEFINE s == Alerts!Started(origin, who, ag)
  <1>1. Alerts!Silent(ag) \subseteq Agents
    BY DEF Alerts!Silent, Alerts!Online
  <1>2. /\ Alerts!NoSweep \in Alerts!Sweep /\ Alerts!NoSweep.gone = {}
        /\ Alerts!NoSweep.jobs = {} /\ Alerts!NoSweep.dirty = {}
    BY NoSweepFits DEF SweepFits
  <1>3. /\ s \in Alerts!Sweep /\ s.phase = "release" /\ s.origin = origin /\ s.who = who
        /\ s.found = Alerts!Silent(ag) /\ s.left = Alerts!Silent(ag)
        /\ s.gone = {} /\ s.jobs = {} /\ s.dirty = {}
    BY <1>1, <1>2 DEF Alerts!Started, Alerts!Sweep
  <1> HIDE DEF s
  <1>4. SweepFits(s)
    BY <1>3 DEF SweepFits, Tidy, RowsReleased
  <1>5. QED
    BY <1>3, <1>4 DEF s

LEMMA LeaveFits ==
  ASSUME Alerts!ConstantsAssumption, NEW ag \in AgentTable, NEW a \in Agents
  PROVE  LET s == [Alerts!Started("leave", a, ag) EXCEPT !.found = {}, !.left = {a}]
         IN /\ SweepFits(s) /\ s.phase = "release" /\ s.origin = "leave" /\ s.who = a
            /\ s.found = {} /\ s.left = {a} /\ s.gone = {} /\ s.jobs = {} /\ s.dirty = {}
  <1> DEFINE r == Alerts!Started("leave", a, ag)
             s == [r EXCEPT !.found = {}, !.left = {a}]
  <1>1. /\ r \in Alerts!Sweep /\ r.phase = "release" /\ r.origin = "leave" /\ r.who = a
        /\ r.gone = {} /\ r.jobs = {} /\ r.dirty = {}
    BY StartedFits DEF Alerts!Origins, SweepFits
  <1> HIDE DEF r
  <1>2. /\ s \in Alerts!Sweep /\ s.phase = "release" /\ s.origin = "leave" /\ s.who = a
        /\ s.found = {} /\ s.left = {a} /\ s.gone = {} /\ s.jobs = {} /\ s.dirty = {}
    BY <1>1 DEF Alerts!Sweep
  <1> HIDE DEF s
  <1>3. SweepFits(s)
    BY <1>2 DEF SweepFits, Tidy, RowsReleased
  <1>4. QED
    BY <1>2, <1>3 DEF s, r

(* The next agent of a sweep.                                              *)
LEMMA NextFits ==
  ASSUME NEW s \in Alerts!Sweep, SweepFits(s), s.phase = "release", NEW a \in s.left
  PROVE  LET t == [s EXCEPT !.left = @ \ {a}, !.gone = @ \cup {a}, !.jobs = Alerts!Held(a)]
         IN /\ SweepFits(t) /\ t.phase = "release" /\ t.origin = s.origin /\ t.who = s.who
            /\ t.found = s.found /\ t.left = s.left \ {a} /\ t.gone = s.gone \cup {a}
            /\ t.jobs = Alerts!Held(a) /\ t.dirty = s.dirty /\ t.rows = s.rows
  <1> DEFINE t == [s EXCEPT !.left = @ \ {a}, !.gone = @ \cup {a}, !.jobs = Alerts!Held(a)]
  <1>1. /\ t.phase = "release" /\ t.origin = s.origin /\ t.who = s.who
        /\ t.found = s.found /\ t.left = s.left \ {a} /\ t.gone = s.gone \cup {a}
        /\ t.jobs = Alerts!Held(a) /\ t.dirty = s.dirty /\ t.rows = s.rows
    BY DEF Alerts!Sweep
  <1>2. Alerts!Held(a) \subseteq Jobs /\ a \in Agents
    BY DEF Alerts!Held, Alerts!Sweep
  <1>3. t \in Alerts!Sweep
    BY <1>2 DEF Alerts!Sweep
  <1> HIDE DEF t
  <1>4. Tidy(t) /\ RowsReleased(t)
    BY <1>1 DEF SweepFits, Tidy, RowsReleased
  <1>5. QED
    BY <1>1, <1>3, <1>4 DEF SweepFits, t

LEMMA ReleasedFits ==
  ASSUME Alerts!ConstantsAssumption, NEW row \in Alerts!Job
  PROVE  Alerts!Released(row) \in Alerts!Job /\ Alerts!Released(row).state # "held"
  <1>1. CASE row.retries < MaxRetries
    BY <1>1 DEF Alerts!ConstantsAssumption, Alerts!Released, Alerts!Job
  <1>2. CASE ~ (row.retries < MaxRetries)
    <2>1. Alerts!Released(row) = [row EXCEPT !.state = "failed", !.agent = None]
      BY <1>2 DEF Alerts!Released
    <2>2. QED
      BY <2>1 DEF Alerts!Job
  <1>3. QED
    BY <1>1, <1>2

(* One job of the agent at hand is released, in the session.               *)
AfterRelease(s, j) ==
  [s EXCEPT !.jobs = @ \ {j}, !.dirty = @ \cup {j}, !.rows[j] = Alerts!Released(job[j])]

LEMMA AfterReleaseFits ==
  ASSUME Alerts!ConstantsAssumption, job \in [Jobs -> Alerts!Job],
           NEW s \in Alerts!Sweep, SweepFits(s),
         s.phase = "release", NEW j \in s.jobs
  PROVE  LET t == AfterRelease(s, j)
         IN /\ SweepFits(t) /\ t.phase = "release" /\ t.origin = s.origin /\ t.who = s.who
            /\ t.found = s.found /\ t.left = s.left /\ t.gone = s.gone
            /\ t.jobs = s.jobs \ {j} /\ t.dirty = s.dirty \cup {j}
  <1> DEFINE t == AfterRelease(s, j)
  <1>1. j \in Jobs /\ s.rows \in [Jobs -> Alerts!Job]
    BY DEF Alerts!Sweep
  <1>2. /\ t.phase = "release" /\ t.origin = s.origin /\ t.who = s.who
        /\ t.found = s.found /\ t.left = s.left /\ t.gone = s.gone
        /\ t.jobs = s.jobs \ {j} /\ t.dirty = s.dirty \cup {j}
        /\ t.rows = [s.rows EXCEPT ![j] = Alerts!Released(job[j])]
    BY DEF Alerts!Sweep, AfterRelease
  <1>3. Alerts!Released(job[j]) \in Alerts!Job /\ Alerts!Released(job[j]).state # "held"
    BY <1>1, ReleasedFits
  <1>4. t.rows \in [Jobs -> Alerts!Job]
    BY <1>1, <1>2, <1>3
  <1>5. t \in Alerts!Sweep
    <2> DEFINE changed == [s.rows EXCEPT ![j] = Alerts!Released(job[j])]
    <2>1. changed \in [Jobs -> Alerts!Job]
      BY <1>2, <1>4
    <2>2. t = [s EXCEPT !.jobs = s.jobs \ {j}, !.dirty = s.dirty \cup {j}, !.rows = changed]
      BY ZenonT(30) DEF AfterRelease
    <2> HIDE DEF changed, t
    <2>3. QED
      BY <1>1, <2>1, <2>2 DEF Alerts!Sweep
  <1> HIDE DEF t
  <1>6. Tidy(t)
    BY <1>2 DEF SweepFits, Tidy
  <1>7. RowsReleased(t)
    <2>1. ASSUME NEW k \in t.dirty PROVE t.rows[k].state # "held"
      <3>1. CASE k = j
        BY <1>1, <1>2, <1>3, <3>1
      <3>2. CASE k # j
        BY <1>1, <1>2, <3>2 DEF SweepFits, RowsReleased, Alerts!Sweep
      <3>3. QED
        BY <3>1, <3>2
    <2>2. QED
      BY <2>1 DEF RowsReleased
  <1>8. QED
    BY <1>2, <1>5, <1>6, <1>7 DEF SweepFits, t

(* A commit in the middle of a release, and the one at its end.            *)
LEMMA CommittedFits ==
  ASSUME NEW s \in Alerts!Sweep, SweepFits(s), s.phase = "release"
  PROVE  /\ LET t == [s EXCEPT !.gone = {}, !.dirty = {}]
            IN /\ SweepFits(t) /\ t.phase = "release" /\ t.origin = s.origin /\ t.who = s.who
               /\ t.found = s.found /\ t.left = s.left /\ t.gone = {} /\ t.jobs = s.jobs
               /\ t.dirty = {}
         /\ s.jobs = {} /\ s.left = {} =>
            LET t == [s EXCEPT !.phase = "conclude", !.gone = {}, !.dirty = {}]
            IN /\ SweepFits(t) /\ t.phase = "conclude" /\ t.origin = s.origin /\ t.who = s.who
               /\ t.found = s.found /\ t.left = {} /\ t.gone = {} /\ t.jobs = {} /\ t.dirty = {}
  <1> DEFINE t == [s EXCEPT !.gone = {}, !.dirty = {}]
             u == [s EXCEPT !.phase = "conclude", !.gone = {}, !.dirty = {}]
  <1>1. /\ t \in Alerts!Sweep /\ t.phase = "release" /\ t.origin = s.origin /\ t.who = s.who
        /\ t.found = s.found /\ t.left = s.left /\ t.gone = {} /\ t.jobs = s.jobs /\ t.dirty = {}
    BY DEF Alerts!Sweep
  <1>2. /\ u \in Alerts!Sweep /\ u.phase = "conclude" /\ u.origin = s.origin /\ u.who = s.who
        /\ u.found = s.found /\ u.left = s.left /\ u.gone = {} /\ u.jobs = s.jobs /\ u.dirty = {}
    BY DEF Alerts!Sweep
  <1> HIDE DEF t, u
  <1>3. SweepFits(t)
    BY <1>1 DEF SweepFits, Tidy, RowsReleased
  <1>4. s.jobs = {} /\ s.left = {} => SweepFits(u)
    BY <1>2 DEF SweepFits, Tidy, RowsReleased
  <1>5. QED
    BY <1>1, <1>2, <1>3, <1>4 DEF t, u

(* What a commit writes.                                                   *)
LEMMA CommitFits ==
  ASSUME Alerts!ConstantsAssumption, Base, NEW s \in Alerts!Sweep, SweepFits(s), Alerts!Commit(s)
  PROVE  /\ agent' \in AgentTable /\ job' \in [Jobs -> Alerts!Job] /\ heard' \in BOOLEAN
              /\ JobsKnown'
         /\ \A a \in Agents : agent'[a].status = IF a \in s.gone THEN "offline" ELSE agent[a].status
         /\ \A j \in Jobs : job'[j] = IF j \in s.dirty THEN s.rows[j] ELSE job[j]
         /\ \A j \in s.dirty \cap Jobs : job'[j].state # "held"
  <1>1. \A a \in Agents : agent[a] \in [status: {"online", "offline", "error"}, fresh: BOOLEAN]
    BY DEF Base, Alerts!TypeOK
  <1>2. \A a \in Agents : /\ [agent[a] EXCEPT !.status = "offline"] \in
                               [status: {"online", "offline", "error"}, fresh: BOOLEAN]
                          /\ [agent[a] EXCEPT !.status = "offline"].status = "offline"
    BY <1>1
  <1>3. \A a \in Agents : agent'[a] = IF a \in s.gone THEN [agent[a] EXCEPT !.status = "offline"]
                                      ELSE agent[a]
    BY DEF Alerts!Commit, Alerts!AgentsAre
  <1>4. agent' \in AgentTable
    BY <1>1, <1>2 DEF Alerts!Commit, Alerts!AgentsAre, AgentTable
  <1>5. heard' \in BOOLEAN
    BY Zenon DEF Alerts!Commit, Alerts!AgentsAre
  <1>6. \A j \in Jobs : job'[j] = IF j \in s.dirty THEN s.rows[j] ELSE job[j]
    BY DEF Alerts!Commit
  <1>7. job' \in [Jobs -> Alerts!Job]
    BY DEF Alerts!Commit, Base, Alerts!TypeOK, Alerts!Sweep
  <1>8. \A j \in s.dirty \cap Jobs : job'[j].state # "held"
    BY <1>6 DEF SweepFits, RowsReleased
  <1>9. JobsKnown'
    BY <1>6, <1>8 DEF JobsKnown, Base
  <1>10. QED
    BY <1>2, <1>3, <1>4, <1>5, <1>6, <1>7, <1>8, <1>9

(* A step that leaves the jobs alone or ends some, and one that changes    *)
(* the sweep of one process only.                                          *)
LEMMA OneSweep ==
  ASSUME Base, NEW w \in Workers, NEW s, SweepFits(s), sweep' = [sweep EXCEPT ![w] = s]
  PROVE  /\ sweep' \in [Workers -> Alerts!Sweep] /\ \A v \in Workers : SweepFits(sweep'[v])
         /\ sweep'[w] = s /\ \A v \in Workers \ {w} : sweep'[v] = sweep[v]
  BY DEF Base, Alerts!TypeOK, SweepFits

LEMMA AgentsAreFits ==
  ASSUME Base, NEW h, Alerts!AgentsAre(agent, h)
  PROVE  agent' = agent /\ heard' \in BOOLEAN
  BY Zenon DEF Alerts!AgentsAre

-----------------------------------------------------------------------------
(* Every step keeps the types, and sweeps tidy.                            *)

Others == /\ alerts \subseteq [worker: Workers, key: Alerts!Keys]
          /\ debounce \in [Workers -> SUBSET Alerts!Keys]
          /\ sent \subseteq Alerts!Keys
          /\ notified \subseteq Jobs
          /\ crashes \in 0 .. MaxCrashes

LEMMA BaseParts ==
  Base <=> /\ agent \in AgentTable /\ job \in [Jobs -> Alerts!Job]
    /\ sweep \in [Workers -> Alerts!Sweep]
           /\ heard \in BOOLEAN /\ Others /\ JobsKnown
           /\ \A w \in Workers : SweepFits(sweep[w])
  BY DEF Base, Alerts!TypeOK, AgentTable, Others

LEMMA BasePartsPrimed ==
  ASSUME agent' \in AgentTable, job' \in [Jobs -> Alerts!Job], sweep' \in [Workers -> Alerts!Sweep],
         heard' \in BOOLEAN, Others', JobsKnown', \A w \in Workers : SweepFits(sweep'[w])
  PROVE  Base'
  BY DEF Base, Alerts!TypeOK, AgentTable, Others, SweepFits, Tidy, RowsReleased, Alerts!Sweep,
     Alerts!Job

LEMMA NotifyFits ==
  ASSUME Others, NEW w \in Workers, NEW key \in Alerts!Keys,
         Alerts!Notify(w, key) \/ Alerts!Remembered(w, key)
  PROVE  debounce' \in [Workers -> SUBSET Alerts!Keys] /\ sent' \subseteq Alerts!Keys
  <1>1. CASE Alerts!Remembered(w, key)
    BY <1>1 DEF Alerts!Remembered, Others
  <1>2. CASE UNCHANGED <<debounce, sent>>
    BY <1>2 DEF Others
  <1>3. QED
    BY <1>1, <1>2 DEF Alerts!Notify

LEMMA HeartbeatFits ==
  ASSUME Alerts!ConstantsAssumption, Base, NEW w \in Workers, NEW a \in Agents,
         NEW status \in {"online", "error"}, Alerts!Heartbeat(w, a, status)
  PROVE  /\ agent' \in AgentTable /\ agent'[a].status = status
         /\ \A b \in Agents \ {a} : agent'[b] = agent[b]
         /\ heard' \in BOOLEAN /\ alerts' \subseteq [worker: Workers, key: Alerts!Keys]
         /\ alerts \subseteq alerts'
         /\ a \notin Alerts!Silent(agent')
         /\ sweep[w].phase = "idle"
         /\ sweep' = [sweep EXCEPT ![w] = Alerts!Started("request", None, agent')]
  <1>1. agent' = [agent EXCEPT ![a] = [status |-> status, fresh |-> TRUE]]
    BY DEF Alerts!Heartbeat, Alerts!AgentsAre
  <1>2. /\ agent' \in AgentTable /\ agent'[a].status = status /\ agent'[a].fresh
        /\ \A b \in Agents \ {a} : agent'[b] = agent[b]
    BY <1>1, BaseParts DEF AgentTable
  <1>3. heard' \in BOOLEAN
    BY Zenon DEF Alerts!Heartbeat, Alerts!AgentsAre
  <1>4. alerts' \subseteq [worker: Workers, key: Alerts!Keys] /\ alerts \subseteq alerts'
    BY BaseParts DEF Alerts!Heartbeat, Others, Alerts!Keys, Alerts!Kinds
  <1>5. sweep' = [sweep EXCEPT ![w] = Alerts!Started("request", None, agent')]
    BY <1>1 DEF Alerts!Heartbeat
  <1>6. QED
    BY <1>2, <1>3, <1>4, <1>5 DEF Alerts!Heartbeat, Alerts!Free, Alerts!Silent

LEMMA ConcludeFits ==
  ASSUME Alerts!ConstantsAssumption, Base, NEW w \in Workers, Alerts!Conclude(w)
  PROVE  /\ agent' = agent /\ heard' \in BOOLEAN
         /\ alerts' \subseteq [worker: Workers, key: Alerts!Keys] /\ alerts \subseteq alerts'
         /\ debounce' \in [Workers -> SUBSET Alerts!Keys] /\ sent' \subseteq Alerts!Keys
         /\ sweep[w].phase = "conclude"
         /\ IF sweep[w].origin = "leave"
            THEN sweep' = [sweep EXCEPT ![w] = Alerts!Started("disconnect", sweep[w].who, agent)]
            ELSE sweep' = [sweep EXCEPT ![w] = Alerts!NoSweep]
         /\ UNCHANGED <<job, notified, crashes>>
  <1>1. agent' = agent /\ heard' \in BOOLEAN
    BY Zenon DEF Alerts!Conclude, Alerts!AgentsAre
  <1>2. SweepFits(sweep[w]) /\ sweep[w] \in Alerts!Sweep
    BY BaseParts DEF SweepFits
  <1>3. sweep[w].origin = "disconnect" => sweep[w].who \in Agents
    BY <1>2 DEF SweepFits, Tidy, Alerts!Conclude
  <1>4. alerts' \subseteq [worker: Workers, key: Alerts!Keys] /\ alerts \subseteq alerts'
    BY <1>3, BaseParts DEF Alerts!Conclude, Others, Alerts!Keys, Alerts!Kinds
  <1>5. debounce' \in [Workers -> SUBSET Alerts!Keys] /\ sent' \subseteq Alerts!Keys
    <2>1. CASE \E a \in sweep[w].found : Alerts!Notify(w, <<a, "pool_offline">>)
      <3>1. PICK a \in sweep[w].found : Alerts!Notify(w, <<a, "pool_offline">>)
        BY <2>1
      <3>2. <<a, "pool_offline">> \in Alerts!Keys
        BY <1>2 DEF Alerts!Sweep, Alerts!Keys, Alerts!Kinds
      <3>3. QED
        BY <3>1, <3>2, BaseParts, NotifyFits
    <2>2. CASE UNCHANGED <<debounce, sent>>
      BY <2>2, BaseParts DEF Others
    <2>3. QED
      BY <2>1, <2>2 DEF Alerts!Conclude
  <1>6. QED
    BY <1>1, <1>4, <1>5 DEF Alerts!Conclude

LEMMA ReleaseFits ==
  ASSUME Alerts!ConstantsAssumption, Base, NEW w \in Workers, Alerts!ReleaseJob(w)
  PROVE  \E j \in sweep[w].jobs :
           LET s == AfterRelease(sweep[w], j)
           IN \/ /\ Alerts!Commit(s) /\ Warnings
                 /\ sweep' = [sweep EXCEPT ![w] = [s EXCEPT !.gone = {}, !.dirty = {}]]
              \/ /\ UNCHANGED <<agent, job, heard>>
                 /\ sweep' = [sweep EXCEPT ![w] = s]
  BY DEF Alerts!ReleaseJob, AfterRelease

LEMMA SweepStepBase ==
  ASSUME Alerts!ConstantsAssumption, Base, NEW w \in Workers,
         Alerts!NextAgent(w) \/ Alerts!ReleaseJob(w) \/ Alerts!FinishRelease(w)
           \/ Alerts!Conclude(w)
  PROVE  Base'
  <1> DEFINE s == sweep[w]
  <1>1. /\ s \in Alerts!Sweep /\ SweepFits(s) /\ Others /\ JobsKnown /\ job \in [Jobs -> Alerts!Job]
        /\ agent \in AgentTable /\ heard \in BOOLEAN
    BY BaseParts DEF SweepFits
  <1>2. CASE Alerts!NextAgent(w)
    <2>1. PICK a \in s.left :
            sweep' = [sweep EXCEPT ![w] = [s EXCEPT !.left = @ \ {a}, !.gone = @ \cup {a},
                                                    !.jobs = Alerts!Held(a)]]
      BY <1>2 DEF Alerts!NextAgent
    <2>2. SweepFits([s EXCEPT !.left = @ \ {a}, !.gone = @ \cup {a}, !.jobs = Alerts!Held(a)])
      BY <1>1, <1>2, NextFits DEF Alerts!NextAgent
    <2>3. sweep' \in [Workers -> Alerts!Sweep] /\ \A v \in Workers : SweepFits(sweep'[v])
      BY <2>1, <2>2, OneSweep
    <2>4. UNCHANGED <<agent, job, alerts, debounce, sent, heard, notified, crashes>>
      BY <1>2 DEF Alerts!NextAgent
    <2>5. Others' /\ JobsKnown'
      BY <1>1, <2>4 DEF Others, JobsKnown
    <2>6. QED
      BY <1>1, <2>3, <2>4, <2>5, BasePartsPrimed
  <1>3. CASE Alerts!ReleaseJob(w)
    <2>1. UNCHANGED <<alerts, debounce, sent, notified, crashes>> /\ s.phase = "release"
      BY <1>3 DEF Alerts!ReleaseJob
    <2>2. Others'
      BY <1>1, <2>1 DEF Others
    <2>3. PICK j \in s.jobs :
           LET t == AfterRelease(s, j)
           IN \/ /\ Alerts!Commit(t) /\ Warnings
                 /\ sweep' = [sweep EXCEPT ![w] = [t EXCEPT !.gone = {}, !.dirty = {}]]
              \/ /\ UNCHANGED <<agent, job, heard>>
                 /\ sweep' = [sweep EXCEPT ![w] = t]
      BY <1>3, ReleaseFits
    <2> DEFINE t == AfterRelease(s, j)
    <2>4. SweepFits(t) /\ t.phase = "release" /\ t \in Alerts!Sweep
      BY <1>1, <2>1, AfterReleaseFits DEF SweepFits
    <2> HIDE DEF t
    <2>5. SweepFits([t EXCEPT !.gone = {}, !.dirty = {}])
      BY <2>4, CommittedFits
    <2>6. sweep' \in [Workers -> Alerts!Sweep] /\ \A v \in Workers : SweepFits(sweep'[v])
      BY <2>3, <2>4, <2>5, OneSweep DEF t
    <2>7. agent' \in AgentTable /\ job' \in [Jobs -> Alerts!Job] /\ heard' \in BOOLEAN /\ JobsKnown'
      <3>1. CASE UNCHANGED <<agent, job, heard>>
        BY <1>1, <3>1 DEF JobsKnown
      <3>2. CASE Alerts!Commit(t)
        BY <2>4, <3>2, CommitFits
      <3>3. QED
        BY <2>3, <3>1, <3>2 DEF t
    <2>8. QED
      BY <2>2, <2>6, <2>7, BasePartsPrimed
  <1>4. CASE Alerts!FinishRelease(w)
    <2>1. Others'
      BY <1>1, <1>4 DEF Others, Alerts!FinishRelease
    <2>2. SweepFits([s EXCEPT !.phase = "conclude", !.gone = {}, !.dirty = {}])
      BY <1>1, <1>4, CommittedFits DEF Alerts!FinishRelease
    <2>3. sweep' = [sweep EXCEPT ![w] = [s EXCEPT !.phase = "conclude", !.gone = {}, !.dirty = {}]]
      BY <1>4 DEF Alerts!FinishRelease
    <2>4. sweep' \in [Workers -> Alerts!Sweep] /\ \A v \in Workers : SweepFits(sweep'[v])
      BY <2>2, <2>3, OneSweep
    <2>5. agent' \in AgentTable /\ job' \in [Jobs -> Alerts!Job] /\ heard' \in BOOLEAN /\ JobsKnown'
      BY <1>1, <1>4, CommitFits DEF Alerts!FinishRelease
    <2>6. QED
      BY <2>1, <2>4, <2>5, BasePartsPrimed
  <1>5. CASE Alerts!Conclude(w)
    <2>1. /\ agent' = agent /\ heard' \in BOOLEAN
          /\ alerts' \subseteq [worker: Workers, key: Alerts!Keys]
          /\ debounce' \in [Workers -> SUBSET Alerts!Keys] /\ sent' \subseteq Alerts!Keys
          /\ UNCHANGED <<job, notified, crashes>>
          /\ IF s.origin = "leave"
             THEN sweep' = [sweep EXCEPT ![w] = Alerts!Started("disconnect", s.who, agent)]
             ELSE sweep' = [sweep EXCEPT ![w] = Alerts!NoSweep]
      BY <1>5, ConcludeFits
    <2>2. Others' /\ JobsKnown'
      BY <1>1, <2>1 DEF Others, JobsKnown
    <2>3. s.origin = "leave" => s.who \in Agents
      BY <1>1, <1>5 DEF SweepFits, Tidy, Alerts!Conclude
    <2>4. s.origin = "leave" => SweepFits(Alerts!Started("disconnect", s.who, agent))
      BY <1>1, <2>3, StartedFits DEF Alerts!Origins
    <2>5. sweep' \in [Workers -> Alerts!Sweep] /\ \A v \in Workers : SweepFits(sweep'[v])
      BY <2>1, <2>4, NoSweepFits, OneSweep
    <2>6. QED
      BY <1>1, <2>1, <2>2, <2>5, BasePartsPrimed
  <1>6. QED
    BY <1>2, <1>3, <1>4, <1>5

LEMMA RequestBase ==
  ASSUME Alerts!ConstantsAssumption, Base, NEW w \in Workers,
         \/ \E a \in Agents : \/ \E status \in {"online", "error"} : Alerts!Heartbeat(w, a, status)
                              \/ Alerts!Disconnect(w, a)
                              \/ \E j \in Jobs : Alerts!Claim(w, j, a)
         \/ Alerts!AskStatus(w) \/ Alerts!SafetyNet(w) \/ Alerts!Crash(w)
         \/ \E j \in Jobs : Alerts!CompleteJob(w, j) \/ Alerts!ReportFailure(w, j)
  PROVE  Base'
  <1>1. /\ Others /\ JobsKnown /\ job \in [Jobs -> Alerts!Job] /\ agent \in AgentTable
             /\ heard \in BOOLEAN
        /\ sweep \in [Workers -> Alerts!Sweep] /\ \A v \in Workers : SweepFits(sweep[v])
    BY BaseParts
  <1>2. ASSUME NEW a \in Agents, NEW status \in {"online", "error"}, Alerts!Heartbeat(w, a, status)
        PROVE  Base'
    <2>1. /\ agent' \in AgentTable /\ heard' \in BOOLEAN
          /\ alerts' \subseteq [worker: Workers, key: Alerts!Keys]
          /\ sweep' = [sweep EXCEPT ![w] = Alerts!Started("request", None, agent')]
      BY <1>2, HeartbeatFits
    <2>2. Others' /\ JobsKnown' /\ job' = job
      BY <1>1, <1>2, <2>1 DEF Alerts!Heartbeat, Others, JobsKnown
    <2>3. SweepFits(Alerts!Started("request", None, agent'))
      BY <2>1, StartedFits DEF Alerts!Origins
    <2>4. sweep' \in [Workers -> Alerts!Sweep] /\ \A v \in Workers : SweepFits(sweep'[v])
      BY <2>1, <2>3, OneSweep
    <2>5. QED
      BY <1>1, <2>1, <2>2, <2>4, BasePartsPrimed
  <1>3. ASSUME NEW s, SweepFits(s), sweep' = [sweep EXCEPT ![w] = s],
               UNCHANGED <<agent, job, alerts, debounce, sent, heard, notified, crashes>>
        PROVE  Base'
    <2>1. sweep' \in [Workers -> Alerts!Sweep] /\ \A v \in Workers : SweepFits(sweep'[v])
      BY <1>3, OneSweep
    <2>2. Others' /\ JobsKnown'
      BY <1>1, <1>3 DEF Others, JobsKnown
    <2>3. QED
      BY <1>1, <1>3, <2>1, <2>2, BasePartsPrimed
  <1>4. ASSUME NEW a \in Agents, Alerts!Disconnect(w, a) PROVE Base'
    BY <1>1, <1>3, <1>4, LeaveFits DEF Alerts!Disconnect
  <1>5. CASE Alerts!AskStatus(w) \/ Alerts!SafetyNet(w)
    <2>1. \A o \in {"request", "safety_net"} : SweepFits(Alerts!Started(o, None, agent))
      BY <1>1, StartedFits DEF Alerts!Origins
    <2>2. QED
      BY <1>3, <1>5, <2>1 DEF Alerts!AskStatus, Alerts!SafetyNet
  <1>6. CASE Alerts!Crash(w)
    <2>1. sweep' \in [Workers -> Alerts!Sweep] /\ \A v \in Workers : SweepFits(sweep'[v])
      BY <1>6, NoSweepFits, OneSweep DEF Alerts!Crash
    <2>2. Others'
      BY <1>1, <1>6 DEF Alerts!Crash, Others, Alerts!ConstantsAssumption
    <2>3. JobsKnown' /\ UNCHANGED <<agent, job, heard>>
      BY <1>1, <1>6 DEF Alerts!Crash, JobsKnown
    <2>4. QED
      BY <1>1, <2>1, <2>2, <2>3, BasePartsPrimed
  <1>7. ASSUME NEW j \in Jobs,
               (\E a \in Agents : Alerts!Claim(w, j, a)) \/ Alerts!CompleteJob(w, j)
                 \/ Alerts!ReportFailure(w, j)
        PROVE  Base'
    <2>1. UNCHANGED <<agent, sweep, heard>> /\ Others'
      BY <1>1, <1>7 DEF Alerts!Claim, Alerts!CompleteJob, Alerts!ReportFailure, Others
    <2>2. PICK row \in Alerts!Job :
            job' = [job EXCEPT ![j] = row] /\ (row.state = "held" => row.agent \in Agents)
      <3>1. \A st \in {"held", "completed", "failed"}, b \in Agents \cup {None} :
              LET row == [job[j] EXCEPT !.state = st, !.agent = b]
              IN row \in Alerts!Job /\ row.state = st /\ row.agent = b
        BY <1>1 DEF Alerts!Job
      <3>2. CASE \E a \in Agents : Alerts!Claim(w, j, a)
        <4>1. PICK a \in Agents : Alerts!Claim(w, j, a)
          BY <3>2
        <4>2. job' = [job EXCEPT ![j] = [job[j] EXCEPT !.state = "held", !.agent = a]]
          BY <1>1, <4>1 DEF Alerts!Claim
        <4> DEFINE row == [job[j] EXCEPT !.state = "held", !.agent = a]
        <4>3. row \in Alerts!Job /\ row.state = "held" /\ row.agent = a
          BY <3>1
        <4>4. QED
          BY <4>2, <4>3
      <3>3. CASE Alerts!CompleteJob(w, j) \/ Alerts!ReportFailure(w, j)
        <4>1. PICK st \in {"completed", "failed"} :
                job' = [job EXCEPT ![j] = [job[j] EXCEPT !.state = st, !.agent = None]]
          BY <1>1, <3>3 DEF Alerts!CompleteJob, Alerts!ReportFailure
        <4> DEFINE row == [job[j] EXCEPT !.state = st, !.agent = None]
        <4>2. row \in Alerts!Job /\ row.state # "held"
          BY <3>1, <4>1
        <4>3. QED
          BY <4>1, <4>2
      <3>4. QED
        BY <1>7, <3>2, <3>3
    <2>3. job' \in [Jobs -> Alerts!Job] /\ JobsKnown'
      BY <1>1, <2>2 DEF JobsKnown
    <2>4. QED
      BY <1>1, <2>1, <2>3, BasePartsPrimed
  <1>8. QED
    BY <1>2, <1>4, <1>5, <1>6, <1>7

LEMMA AlertBase ==
  ASSUME Alerts!ConstantsAssumption, Base,
         \/ \E a \in Agents : Alerts!GoSilent(a)
         \/ \E x \in alerts : Alerts!Suppress(x) \/ Alerts!Send(x)
         \/ \E key \in Alerts!Keys : Alerts!Expire(key)
  PROVE  Base'
  <1>1. /\ Others /\ JobsKnown /\ job \in [Jobs -> Alerts!Job] /\ agent \in AgentTable
             /\ heard \in BOOLEAN
        /\ sweep \in [Workers -> Alerts!Sweep] /\ \A v \in Workers : SweepFits(sweep[v])
    BY BaseParts
  <1>2. ASSUME NEW a \in Agents, Alerts!GoSilent(a) PROVE Base'
    <2>1. agent' \in AgentTable
      BY <1>1, <1>2 DEF Alerts!GoSilent, AgentTable
    <2>2. Others' /\ JobsKnown' /\ UNCHANGED <<job, sweep, heard>>
      BY <1>1, <1>2 DEF Alerts!GoSilent, Others, JobsKnown
    <2>3. QED
      BY <1>1, <2>1, <2>2, BasePartsPrimed
  <1>3. ASSUME NEW x \in alerts, Alerts!Suppress(x) \/ Alerts!Send(x) PROVE Base'
    <2>1. x.worker \in Workers /\ x.key \in Alerts!Keys
      BY <1>1 DEF Others
    <2>2. debounce' \in [Workers -> SUBSET Alerts!Keys] /\ sent' \subseteq Alerts!Keys
      BY <1>1, <1>3, <2>1, NotifyFits DEF Alerts!Suppress, Alerts!Send, Others
    <2>3. alerts' \subseteq alerts /\ UNCHANGED <<agent, job, sweep, notified, crashes>>
      BY <1>3 DEF Alerts!Suppress, Alerts!Send, Alerts!Done, Alerts!AgentsAre
    <2>4. heard' \in BOOLEAN
      BY Zenon, <1>3 DEF Alerts!Suppress, Alerts!Send, Alerts!Done, Alerts!AgentsAre
    <2>5. Others' /\ JobsKnown'
      BY <1>1, <2>2, <2>3 DEF Others, JobsKnown
    <2>6. QED
      BY <1>1, <2>3, <2>4, <2>5, BasePartsPrimed
  <1>4. ASSUME NEW key \in Alerts!Keys, Alerts!Expire(key) PROVE Base'
    <2>1. Others' /\ JobsKnown' /\ UNCHANGED <<agent, job, sweep, heard>>
      BY <1>1, <1>4 DEF Alerts!Expire, Others, JobsKnown
    <2>2. QED
      BY <1>1, <2>1, BasePartsPrimed
  <1>5. QED
    BY <1>2, <1>3, <1>4

LEMMA InitBase ==
  ASSUME Alerts!ConstantsAssumption, Alerts!Init
  PROVE  Base
  <1>1. Others /\ JobsKnown
    BY NoSweepFits DEF Alerts!Init, Others, JobsKnown, Alerts!ConstantsAssumption
  <1>2. agent \in AgentTable /\ job \in [Jobs -> Alerts!Job] /\ heard \in BOOLEAN
    BY NoSweepFits DEF Alerts!Init, AgentTable
  <1>3. sweep \in [Workers -> Alerts!Sweep] /\ \A w \in Workers : SweepFits(sweep[w])
    BY NoSweepFits DEF Alerts!Init, SweepFits
  <1>4. QED
    BY <1>1, <1>2, <1>3, BaseParts

LEMMA StepBase ==
  ASSUME Alerts!ConstantsAssumption, Base, [Alerts!Next]_(Alerts!vars)
  PROVE  Base'
  <1>1. CASE UNCHANGED Alerts!vars
    BY <1>1 DEF Alerts!vars, Base, Alerts!TypeOK, JobsKnown
  <1>2. CASE Alerts!Next
    BY <1>2, SweepStepBase, RequestBase, AlertBase DEF Alerts!Next
  <1>3. QED
    BY <1>1, <1>2

-----------------------------------------------------------------------------
(* One server process, and no commit in the middle of a release that a     *)
(* crash could leave behind.                                               *)
OneWorker == \E w : Workers = {w}
NothingHalfDone == Warnings => MaxCrashes = 0

Handled(w, j) == sweep[w].phase = "release" /\ j \in sweep[w].jobs \cup sweep[w].dirty

(* A held job is being released, or its agent is there and stays.          *)
NoneForgotten ==
  \A w \in Workers, j \in Jobs : job[j].state = "held" =>
    \/ Handled(w, j)
    \/ agent[job[j].agent].status # "offline" /\ job[j].agent \notin sweep[w].gone

(* Without warnings a release shows when it is complete, not before.       *)
Whole ==
  ~ Warnings => \A j \in Jobs : job[j].state = "held" => agent[job[j].agent].status # "offline"

Served == Base /\ NoneForgotten /\ Whole

(* A step that starts no claim and takes nobody offline.                   *)
LEMMA QuietServed ==
  ASSUME Served, NEW w \in Workers, Workers = {w},
         sweep[w].phase # "release",
         sweep'[w].gone = {},
         \A a \in Agents : agent[a].status # "offline" => agent'[a].status # "offline",
         \A j \in Jobs : job'[j].state = "held" =>
           \/ job'[j] = job[j]
           \/ agent'[job'[j].agent].status # "offline"
  PROVE  NoneForgotten' /\ Whole'
  <1>1. ASSUME NEW j \in Jobs, job'[j].state = "held"
        PROVE  agent'[job'[j].agent].status # "offline"
    <2>1. CASE job'[j] = job[j]
      <3>1. agent[job[j].agent].status # "offline" /\ job[j].agent \in Agents
        BY <1>1, <2>1 DEF Served, NoneForgotten, Handled, Base, JobsKnown
      <3>2. QED
        BY <2>1, <3>1
    <2>2. QED
      BY <1>1, <2>1
  <1>2. QED
    BY <1>1 DEF NoneForgotten, Whole

LEMMA ReleaseServed ==
  ASSUME Alerts!ConstantsAssumption, Served, NEW w \in Workers, Workers = {w},
         Alerts!NextAgent(w) \/ Alerts!ReleaseJob(w) \/ Alerts!FinishRelease(w)
  PROVE  NoneForgotten' /\ Whole'
  <1> DEFINE s == sweep[w]
  <1>1. /\ Base /\ s \in Alerts!Sweep /\ SweepFits(s) /\ job \in [Jobs -> Alerts!Job]
             /\ s.phase = "release"
        /\ sweep \in [Workers -> Alerts!Sweep] /\ agent \in AgentTable
    BY BaseParts DEF Served, SweepFits, Alerts!NextAgent, Alerts!ReleaseJob, Alerts!FinishRelease
  <1>2. \A j \in Jobs : job[j].state = "held" =>
          \/ j \in s.jobs \cup s.dirty
          \/ agent[job[j].agent].status # "offline" /\ job[j].agent \notin s.gone
    BY DEF Served, NoneForgotten, Handled
  <1>3. \A j \in Jobs : job[j].state = "held" => job[j].agent \in Agents
    BY <1>1 DEF Base, JobsKnown
  <1>4. CASE Alerts!NextAgent(w)
    <2>1. PICK a \in s.left :
            sweep' = [sweep EXCEPT ![w] = [s EXCEPT !.left = @ \ {a}, !.gone = @ \cup {a},
                                                    !.jobs = Alerts!Held(a)]]
      BY <1>4 DEF Alerts!NextAgent
    <2> DEFINE t == [s EXCEPT !.left = @ \ {a}, !.gone = @ \cup {a}, !.jobs = Alerts!Held(a)]
    <2>2. /\ t.phase = "release" /\ t.gone = s.gone \cup {a} /\ t.jobs = Alerts!Held(a)
               /\ t.dirty = s.dirty
      BY <1>1, NextFits
    <2> HIDE DEF t
    <2>3. sweep'[w] = t
      BY <1>1, <2>1 DEF t
    <2>4. s.jobs = {} /\ UNCHANGED <<agent, job>>
      BY <1>4 DEF Alerts!NextAgent
    <2>5. ASSUME NEW j \in Jobs, job[j].state = "held"
          PROVE  \/ j \in t.jobs \cup t.dirty
                 \/ agent[job[j].agent].status # "offline" /\ job[j].agent \notin t.gone
      BY <1>2, <2>2, <2>4, <2>5 DEF Alerts!Held
    <2>6. NoneForgotten'
      BY <2>2, <2>3, <2>4, <2>5 DEF NoneForgotten, Handled
    <2>7. QED
      BY <2>4, <2>6 DEF Served, Whole
  <1>5. CASE Alerts!ReleaseJob(w)
    <2>1. PICK j \in s.jobs :
           LET t == AfterRelease(s, j)
           IN \/ /\ Alerts!Commit(t) /\ Warnings
                 /\ sweep' = [sweep EXCEPT ![w] = [t EXCEPT !.gone = {}, !.dirty = {}]]
              \/ /\ UNCHANGED <<agent, job, heard>>
                 /\ sweep' = [sweep EXCEPT ![w] = t]
      BY <1>1, <1>5, ReleaseFits
    <2> DEFINE t == AfterRelease(s, j)
               u == [t EXCEPT !.gone = {}, !.dirty = {}]
    <2>2. /\ SweepFits(t) /\ t.phase = "release" /\ t \in Alerts!Sweep /\ t.gone = s.gone
          /\ t.jobs = s.jobs \ {j} /\ t.dirty = s.dirty \cup {j}
      BY <1>1, AfterReleaseFits DEF SweepFits
    <2>3. CASE UNCHANGED <<agent, job, heard>> /\ sweep' = [sweep EXCEPT ![w] = t]
      <3>1. sweep'[w] = t
        BY <1>1, <2>3
      <3> HIDE DEF t
      <3>2. NoneForgotten'
        BY <1>2, <2>2, <2>3, <3>1 DEF NoneForgotten, Handled
      <3>3. QED
        BY <2>3, <3>2 DEF Served, Whole
    <2>4. CASE Alerts!Commit(t) /\ Warnings /\ sweep' = [sweep EXCEPT ![w] = u]
      <3>1. sweep'[w] = u
        BY <1>1, <2>4
      <3> HIDE DEF t
      <3>2. u.phase = "release" /\ u.gone = {} /\ u.jobs = t.jobs /\ u.dirty = {}
        BY <2>2, CommittedFits
      <3> HIDE DEF u
      <3>3. /\ \A b \in Agents : agent'[b].status =
                 IF b \in t.gone THEN "offline" ELSE agent[b].status
            /\ \A k \in Jobs : job'[k] = IF k \in t.dirty THEN t.rows[k] ELSE job[k]
            /\ \A k \in t.dirty \cap Jobs : job'[k].state # "held"
        BY <1>1, <2>2, <2>4, CommitFits
      <3>4. ASSUME NEW k \in Jobs, job'[k].state = "held"
            PROVE  \/ k \in u.jobs
                   \/ agent'[job'[k].agent].status # "offline" /\ job'[k].agent \notin u.gone
        <4>1. k \notin t.dirty /\ job'[k] = job[k]
          BY <3>3, <3>4
        <4>2. CASE k \in s.jobs
          BY <2>2, <3>2, <4>1, <4>2
        <4>3. CASE k \notin s.jobs
          BY <1>2, <1>3, <2>2, <3>2, <3>3, <3>4, <4>1, <4>3
        <4>4. QED
          BY <4>2, <4>3
      <3>5. NoneForgotten'
        BY <3>1, <3>2, <3>4 DEF NoneForgotten, Handled
      <3>6. QED
        BY <2>4, <3>5 DEF Whole
    <2>5. QED
      BY <2>1, <2>3, <2>4
  <1>6. CASE Alerts!FinishRelease(w)
    <2> DEFINE u == [s EXCEPT !.phase = "conclude", !.gone = {}, !.dirty = {}]
    <2>1. s.jobs = {} /\ s.left = {} /\ Alerts!Commit(s) /\ sweep' = [sweep EXCEPT ![w] = u]
      BY <1>6 DEF Alerts!FinishRelease
    <2>2. sweep'[w] = u
      BY <1>1, <2>1
    <2>3. u.gone = {}
      BY <1>1, <2>1, CommittedFits
    <2> HIDE DEF u
    <2>4. /\ \A b \in Agents : agent'[b].status =
               IF b \in s.gone THEN "offline" ELSE agent[b].status
          /\ \A k \in Jobs : job'[k] = IF k \in s.dirty THEN s.rows[k] ELSE job[k]
          /\ \A k \in s.dirty \cap Jobs : job'[k].state # "held"
      BY <1>1, <2>1, CommitFits
    <2>5. ASSUME NEW k \in Jobs, job'[k].state = "held"
          PROVE  agent'[job'[k].agent].status # "offline"
      <3>1. k \notin s.dirty /\ job'[k] = job[k]
        BY <2>4, <2>5
      <3>2. agent[job[k].agent].status # "offline" /\ job[k].agent \notin s.gone
              /\ job[k].agent \in Agents
        BY <1>2, <1>3, <2>1, <2>5, <3>1
      <3>3. QED
        BY <2>4, <3>1, <3>2
    <2>6. QED
      BY <2>2, <2>3, <2>5 DEF NoneForgotten, Whole
  <1>7. QED
    BY <1>4, <1>5, <1>6

LEMMA RequestServed ==
  ASSUME Alerts!ConstantsAssumption, Served, NEW w \in Workers, Workers = {w}, NothingHalfDone,
         \/ \E a \in Agents : \/ \E status \in {"online", "error"} : Alerts!Heartbeat(w, a, status)
                              \/ Alerts!Disconnect(w, a)
                              \/ \E j \in Jobs : Alerts!Claim(w, j, a)
         \/ Alerts!AskStatus(w) \/ Alerts!SafetyNet(w) \/ Alerts!Conclude(w)
         \/ \E j \in Jobs : Alerts!CompleteJob(w, j) \/ Alerts!ReportFailure(w, j)
  PROVE  NoneForgotten' /\ Whole'
  <1>1. /\ Base /\ job \in [Jobs -> Alerts!Job] /\ sweep \in [Workers -> Alerts!Sweep]
             /\ agent \in AgentTable
        /\ SweepFits(sweep[w])
    BY BaseParts DEF Served
  <1>2. sweep[w].phase # "release" => sweep[w].gone = {}
    BY <1>1 DEF SweepFits, Tidy
  <1>3. ASSUME NEW a \in Agents, NEW status \in {"online", "error"}, Alerts!Heartbeat(w, a, status)
        PROVE  NoneForgotten' /\ Whole'
    <2>1. /\ agent'[a].status = status /\ \A b \in Agents \ {a} : agent'[b] = agent[b]
          /\ agent' \in AgentTable /\ sweep[w].phase = "idle"
          /\ sweep' = [sweep EXCEPT ![w] = Alerts!Started("request", None, agent')]
      BY <1>1, <1>3, HeartbeatFits
    <2>2. Alerts!Started("request", None, agent').gone = {}
      BY <2>1, StartedFits DEF Alerts!Origins
    <2>3. sweep'[w].gone = {}
      BY <1>1, <2>1, <2>2
    <2>4. job' = job
      BY <1>3 DEF Alerts!Heartbeat
    <2>5. \A b \in Agents : agent[b].status # "offline" => agent'[b].status # "offline"
      BY <2>1
    <2>6. QED
      BY <2>1, <2>3, <2>4, <2>5, QuietServed
  <1>4. ASSUME NEW a \in Agents, Alerts!Disconnect(w, a) PROVE NoneForgotten' /\ Whole'
    <2>1. [Alerts!Started("leave", a, agent) EXCEPT !.found = {}, !.left = {a}].gone = {}
      BY <1>1, LeaveFits
    <2>2. sweep'[w].gone = {} /\ sweep[w].phase # "release" /\ UNCHANGED <<agent, job>>
      BY <1>1, <1>4, <2>1 DEF Alerts!Disconnect, Alerts!Free
    <2>3. QED
      BY <2>2, QuietServed
  <1>5. CASE Alerts!AskStatus(w) \/ Alerts!SafetyNet(w)
    <2>1. \A o \in {"request", "safety_net"} : Alerts!Started(o, None, agent).gone = {}
      BY <1>1, StartedFits DEF Alerts!Origins
    <2>2. sweep'[w].gone = {} /\ sweep[w].phase # "release" /\ UNCHANGED <<agent, job>>
      BY <1>1, <1>5, <2>1 DEF Alerts!AskStatus, Alerts!SafetyNet, Alerts!Free
    <2>3. QED
      BY <2>2, QuietServed
  <1>6. CASE Alerts!Conclude(w)
    <2>1. /\ agent' = agent /\ job' = job /\ sweep[w].phase = "conclude"
          /\ IF sweep[w].origin = "leave"
             THEN sweep' = [sweep EXCEPT ![w] = Alerts!Started("disconnect", sweep[w].who, agent)]
             ELSE sweep' = [sweep EXCEPT ![w] = Alerts!NoSweep]
      BY <1>1, <1>6, ConcludeFits
    <2>2. sweep[w].origin = "leave" => Alerts!Started("disconnect", sweep[w].who, agent).gone = {}
      BY <1>1, <2>1, StartedFits DEF Alerts!Origins, SweepFits, Tidy
    <2>3. sweep'[w].gone = {}
      BY <1>1, <2>1, <2>2, NoSweepFits
    <2>4. QED
      BY <2>1, <2>3, QuietServed
  <1>7. ASSUME NEW j \in Jobs, NEW a \in Agents, Alerts!Claim(w, j, a)
                 PROVE NoneForgotten' /\ Whole'
    <2>1. /\ sweep[w].phase # "release" /\ sweep' = sweep /\ agent' = agent
          /\ agent[a].status = "online"
      BY <1>7 DEF Alerts!Claim, Alerts!Free
    <2>2. job' = [job EXCEPT ![j] = [job[j] EXCEPT !.state = "held", !.agent = a]]
      BY <1>1, <1>7 DEF Alerts!Claim
    <2>3. [job[j] EXCEPT !.state = "held", !.agent = a].agent = a
      BY <1>1 DEF Alerts!Job
    <2>4. \A k \in Jobs : job'[k] = job[k] \/ job'[k].agent = a
      BY <1>1, <2>2, <2>3
    <2>5. QED
      BY <1>2, <2>1, <2>4, QuietServed
  <1>8. ASSUME NEW j \in Jobs, Alerts!CompleteJob(w, j) \/ Alerts!ReportFailure(w, j)
        PROVE  NoneForgotten' /\ Whole'
    <2>1. sweep[w].phase # "release" /\ sweep' = sweep /\ agent' = agent
      BY <1>8 DEF Alerts!CompleteJob, Alerts!ReportFailure, Alerts!Free
    <2>2. PICK st \in {"completed", "failed"} :
            job' = [job EXCEPT ![j] = [job[j] EXCEPT !.state = st, !.agent = None]]
      BY <1>1, <1>8 DEF Alerts!CompleteJob, Alerts!ReportFailure
    <2>3. [job[j] EXCEPT !.state = st, !.agent = None].state = st
      BY <1>1 DEF Alerts!Job
    <2>4. \A k \in Jobs : job'[k] = job[k] \/ job'[k].state # "held"
      BY <1>1, <2>2, <2>3
    <2>5. QED
      BY <1>2, <2>1, <2>4, QuietServed
  <1>9. QED
    BY <1>3, <1>4, <1>5, <1>6, <1>7, <1>8

LEMMA CrashServed ==
  ASSUME Alerts!ConstantsAssumption, Served,
           NEW w \in Workers, Workers = {w}, NothingHalfDone, Alerts!Crash(w)
  PROVE  NoneForgotten' /\ Whole'
  <1>1. ~ Warnings /\ UNCHANGED <<agent, job>> /\ sweep' = [sweep EXCEPT ![w] = Alerts!NoSweep]
    BY BaseParts DEF Alerts!Crash, NothingHalfDone, Alerts!ConstantsAssumption, Served, Others
  <1>2. sweep'[w].gone = {}
    BY <1>1, NoSweepFits, BaseParts DEF Served
  <1>3. QED
    BY <1>1, <1>2 DEF Served, NoneForgotten, Whole

LEMMA AlertServed ==
  ASSUME Alerts!ConstantsAssumption, Served,
         \/ \E a \in Agents : Alerts!GoSilent(a)
         \/ \E x \in alerts : Alerts!Suppress(x) \/ Alerts!Send(x)
         \/ \E key \in Alerts!Keys : Alerts!Expire(key)
  PROVE  NoneForgotten' /\ Whole'
  <1>1. UNCHANGED <<job, sweep>>
    BY DEF Alerts!GoSilent, Alerts!Suppress, Alerts!Send, Alerts!Expire, Alerts!Done
  <1>2. \A a \in Agents : agent'[a].status = agent[a].status
    <2>1. CASE \E a \in Agents : Alerts!GoSilent(a)
      BY <2>1, BaseParts DEF Alerts!GoSilent, Served, AgentTable
    <2>2. CASE UNCHANGED agent
      BY <2>2
    <2>3. QED
      BY <2>1, <2>2 DEF Alerts!Suppress, Alerts!Send, Alerts!Expire, Alerts!Done
  <1>3. \A j \in Jobs : job[j].state = "held" => job[j].agent \in Agents
    BY DEF Served, Base, JobsKnown
  <1>4. QED
    BY <1>1, <1>2, <1>3 DEF Served, NoneForgotten, Whole, Handled

LEMMA StepServed ==
  ASSUME Alerts!ConstantsAssumption, OneWorker, NothingHalfDone, Served, [Alerts!Next]_(Alerts!vars)
  PROVE  Served'
  <1>1. Base'
    BY StepBase DEF Served
  <1>2. PICK w : Workers = {w}
    BY DEF OneWorker
  <1>3. CASE UNCHANGED Alerts!vars
    BY <1>3 DEF Alerts!vars, Served, NoneForgotten, Whole, Handled, Base, Alerts!TypeOK, JobsKnown
  <1>4. CASE Alerts!Next
    <2>1. w \in Workers
      BY <1>2
    <2>2. NoneForgotten' /\ Whole'
      <3>1. \/ Alerts!NextAgent(w) \/ Alerts!ReleaseJob(w) \/ Alerts!FinishRelease(w)
            \/ \E a \in Agents : \/ \E status \in {"online", "error"} : Alerts!Heartbeat(w, a, status)
                                 \/ Alerts!Disconnect(w, a)
                                 \/ \E j \in Jobs : Alerts!Claim(w, j, a)
            \/ Alerts!AskStatus(w) \/ Alerts!SafetyNet(w) \/ Alerts!Conclude(w)
            \/ \E j \in Jobs : Alerts!CompleteJob(w, j) \/ Alerts!ReportFailure(w, j)
            \/ Alerts!Crash(w)
            \/ \E a \in Agents : Alerts!GoSilent(a)
            \/ \E x \in alerts : Alerts!Suppress(x) \/ Alerts!Send(x)
            \/ \E key \in Alerts!Keys : Alerts!Expire(key)
        BY <1>2, <1>4 DEF Alerts!Next
      <3>2. QED
        BY <1>2, <2>1, <3>1, ReleaseServed, RequestServed, CrashServed, AlertServed
    <2>3. QED
      BY <1>1, <2>2 DEF Served
  <1>5. QED
    BY <1>3, <1>4

LEMMA InitServed ==
  ASSUME Alerts!ConstantsAssumption, Alerts!Init
  PROVE  Served
  <1>1. \A j \in Jobs : job[j].state # "held"
    BY NoSweepFits DEF Alerts!Init
  <1>2. QED
    BY <1>1, InitBase DEF Served, NoneForgotten, Whole

LEMMA ServedHoldsNoJobs ==
  ASSUME Served, OneWorker
  PROVE  Alerts!OfflineHoldsNoJobs
  BY DEF Served, OneWorker, NoneForgotten, Handled, Alerts!Free, Alerts!OfflineHoldsNoJobs

-----------------------------------------------------------------------------
(* Who will tell the members that the pool is offline.                     *)
Alone == MaxCrashes = 0 /\ ~ Requests

AllOffline == \A a \in Agents : agent[a].status = "offline"
Alarmed == \E x \in alerts : x.key[2] = "pool_offline"
Leaving(s) == s.phase # "idle" /\ s.origin \in {"leave", "disconnect"}
Watching(s) == s.phase # "idle" /\ s.origin = "safety_net" /\ s.found # {}

(* A sweep of the task has found whom it marks; the one that a heartbeat   *)
(* starts leaves the caller alone.                                         *)
FromNet(s) == s.origin = "safety_net" => s.gone \cup s.left \subseteq s.found
Caller(s, ag) ==
  s.phase # "idle" /\ s.origin = "request" =>
    \E a \in Agents \ (s.gone \cup s.left) : ag[a].status # "offline"

WillBeTold ==
  /\ AllOffline /\ ~ heard => Alarmed \/ \E w \in Workers : Leaving(sweep[w]) \/ Watching(sweep[w])
  /\ \A w \in Workers : FromNet(sweep[w]) /\ Caller(sweep[w], agent)

LEMMA ReleaseMoves ==
  ASSUME Alerts!ConstantsAssumption, Base, NEW w \in Workers,
         Alerts!NextAgent(w) \/ Alerts!ReleaseJob(w) \/ Alerts!FinishRelease(w)
  PROVE  LET s == sweep[w]
             t == sweep'[w]
         IN /\ s.phase = "release" /\ t.phase # "idle"
            /\ t.origin = s.origin /\ t.found = s.found
            /\ t.gone \cup t.left \subseteq s.gone \cup s.left
            /\ \A a \in Agents : \/ agent'[a].status = agent[a].status
                                 \/ a \in s.gone /\ agent'[a].status = "offline"
            /\ AllOffline' /\ heard => heard'
            /\ alerts' = alerts
  <1> DEFINE s == sweep[w]
  <1>1. /\ s \in Alerts!Sweep /\ SweepFits(s) /\ job \in [Jobs -> Alerts!Job] /\ s.phase = "release"
        /\ sweep \in [Workers -> Alerts!Sweep] /\ alerts' = alerts
    BY BaseParts DEF SweepFits, Alerts!NextAgent, Alerts!ReleaseJob, Alerts!FinishRelease
  <1>2. ASSUME NEW t, Alerts!Commit(t), SweepFits(t), t \in Alerts!Sweep, t.gone = s.gone
        PROVE  /\ AllOffline' /\ heard => heard'
               /\ \A a \in Agents : \/ agent'[a].status = agent[a].status
                                    \/ a \in s.gone /\ agent'[a].status = "offline"
    <2>1. \A a \in Agents : agent'[a].status = IF a \in t.gone THEN "offline" ELSE agent[a].status
      BY <1>2, CommitFits
    <2>2. heard' = (Alerts!Online(agent') = {} /\ (heard \/ FALSE))
      BY <1>2, Zenon DEF Alerts!Commit, Alerts!AgentsAre
    <2>3. AllOffline' => Alerts!Online(agent') = {}
      BY DEF AllOffline, Alerts!Online
    <2>4. AllOffline' /\ heard => heard'
      BY <2>2, <2>3, Zenon
    <2>5. QED
      BY <1>2, <2>1, <2>4
  <1>3. CASE Alerts!NextAgent(w)
    <2>1. PICK a \in s.left :
            sweep' = [sweep EXCEPT ![w] = [s EXCEPT !.left = @ \ {a}, !.gone = @ \cup {a},
                                                    !.jobs = Alerts!Held(a)]]
      BY <1>3 DEF Alerts!NextAgent
    <2> DEFINE t == [s EXCEPT !.left = @ \ {a}, !.gone = @ \cup {a}, !.jobs = Alerts!Held(a)]
    <2>2. /\ t.phase = "release" /\ t.origin = s.origin /\ t.found = s.found
          /\ t.gone = s.gone \cup {a} /\ t.left = s.left \ {a}
      BY <1>1, NextFits
    <2>3. sweep'[w] = t
      BY <1>1, <2>1
    <2> HIDE DEF t
    <2>4. UNCHANGED <<agent, heard>>
      BY <1>3 DEF Alerts!NextAgent
    <2>5. QED
      BY <1>1, <2>2, <2>3, <2>4
  <1>4. CASE Alerts!ReleaseJob(w)
    <2>1. PICK j \in s.jobs :
           LET t == AfterRelease(s, j)
           IN \/ /\ Alerts!Commit(t) /\ Warnings
                 /\ sweep' = [sweep EXCEPT ![w] = [t EXCEPT !.gone = {}, !.dirty = {}]]
              \/ /\ UNCHANGED <<agent, job, heard>>
                 /\ sweep' = [sweep EXCEPT ![w] = t]
      BY <1>4, ReleaseFits
    <2> DEFINE t == AfterRelease(s, j)
               u == [t EXCEPT !.gone = {}, !.dirty = {}]
    <2>2. /\ SweepFits(t) /\ t.phase = "release" /\ t \in Alerts!Sweep /\ t.origin = s.origin
          /\ t.found = s.found /\ t.left = s.left /\ t.gone = s.gone
      BY <1>1, AfterReleaseFits DEF SweepFits
    <2>3. CASE UNCHANGED <<agent, job, heard>> /\ sweep' = [sweep EXCEPT ![w] = t]
      <3>1. sweep'[w] = t
        BY <1>1, <2>3
      <3> HIDE DEF t
      <3>2. QED
        BY <1>1, <2>2, <2>3, <3>1
    <2>4. CASE Alerts!Commit(t) /\ Warnings /\ sweep' = [sweep EXCEPT ![w] = u]
      <3>1. sweep'[w] = u
        BY <1>1, <2>4
      <3> HIDE DEF t
      <3>2. /\ u.phase = "release" /\ u.origin = t.origin /\ u.found = t.found
            /\ u.left = t.left /\ u.gone = {}
        BY <2>2, CommittedFits
      <3> HIDE DEF u
      <3>3. /\ AllOffline' /\ heard => heard'
            /\ \A a \in Agents : \/ agent'[a].status = agent[a].status
                                 \/ a \in s.gone /\ agent'[a].status = "offline"
        BY <1>2, <2>2, <2>4
      <3>4. QED
        BY <1>1, <2>2, <3>1, <3>2, <3>3
    <2>5. QED
      BY <2>1, <2>3, <2>4
  <1>5. CASE Alerts!FinishRelease(w)
    <2> DEFINE u == [s EXCEPT !.phase = "conclude", !.gone = {}, !.dirty = {}]
    <2>1. s.jobs = {} /\ s.left = {} /\ Alerts!Commit(s) /\ sweep' = [sweep EXCEPT ![w] = u]
      BY <1>5 DEF Alerts!FinishRelease
    <2>2. sweep'[w] = u
      BY <1>1, <2>1
    <2>3. u.phase = "conclude" /\ u.origin = s.origin /\ u.found = s.found /\ u.left = {}
            /\ u.gone = {}
      BY <1>1, <2>1, CommittedFits
    <2> HIDE DEF u
    <2>4. /\ AllOffline' /\ heard => heard'
          /\ \A a \in Agents : \/ agent'[a].status = agent[a].status
                               \/ a \in s.gone /\ agent'[a].status = "offline"
      BY <1>1, <1>2, <2>1
    <2>5. QED
      BY <1>1, <2>2, <2>3, <2>4
  <1>6. QED
    BY <1>3, <1>4, <1>5

LEMMA ReleaseTold ==
  ASSUME Alerts!ConstantsAssumption, Base, WillBeTold, NEW w \in Workers, Workers = {w},
         Alerts!NextAgent(w) \/ Alerts!ReleaseJob(w) \/ Alerts!FinishRelease(w)
  PROVE  WillBeTold'
  <1> DEFINE s == sweep[w]
             t == sweep'[w]
  <1>1. /\ s.phase = "release" /\ t.phase # "idle"
        /\ t.origin = s.origin /\ t.found = s.found
        /\ t.gone \cup t.left \subseteq s.gone \cup s.left
        /\ \A a \in Agents : \/ agent'[a].status = agent[a].status
                             \/ a \in s.gone /\ agent'[a].status = "offline"
        /\ AllOffline' /\ heard => heard'
        /\ alerts' = alerts
    BY ReleaseMoves
  <1>2. s.origin \in Alerts!Origins
    BY BaseParts DEF Alerts!Sweep
  <1>3. FromNet(s) /\ Caller(s, agent)
    BY DEF WillBeTold
  <1> HIDE DEF s, t
  <1>4. FromNet(t) /\ Caller(t, agent')
    BY <1>1, <1>3 DEF FromNet, Caller
  <1>5. ASSUME AllOffline', ~ heard' PROVE Alarmed' \/ Leaving(t) \/ Watching(t)
    <2>1. CASE AllOffline
      <3>1. Alarmed \/ Leaving(s) \/ Watching(s)
        BY <1>1, <1>5, <2>1 DEF WillBeTold, s
      <3>2. QED
        BY <1>1, <3>1 DEF Alarmed, Leaving, Watching
    <2>2. CASE ~ AllOffline
      <3>1. PICK a \in s.gone : TRUE
        BY <1>1, <1>5, <2>2 DEF AllOffline
      <3>2. s.origin # "request"
        BY <1>1, <1>3, <1>5 DEF Caller, AllOffline
      <3>3. QED
        BY <1>1, <1>2, <1>3, <3>1, <3>2 DEF FromNet, Leaving, Watching, Alerts!Origins
    <2>3. QED
      BY <2>1, <2>2
  <1>6. QED
    BY <1>4, <1>5 DEF WillBeTold, t

LEMMA RequestTold ==
  ASSUME Alerts!ConstantsAssumption, Base, WillBeTold, NEW w \in Workers, Workers = {w}, Alone,
         \/ \E a \in Agents : \/ \E status \in {"online", "error"} : Alerts!Heartbeat(w, a, status)
                              \/ Alerts!Disconnect(w, a)
                              \/ \E j \in Jobs : Alerts!Claim(w, j, a)
         \/ Alerts!AskStatus(w) \/ Alerts!SafetyNet(w) \/ Alerts!Crash(w)
         \/ \E j \in Jobs : Alerts!CompleteJob(w, j) \/ Alerts!ReportFailure(w, j)
  PROVE  WillBeTold'
  <1>1. /\ sweep \in [Workers -> Alerts!Sweep] /\ agent \in AgentTable /\ SweepFits(sweep[w])
    BY BaseParts
  <1>2. ~ Alerts!AskStatus(w)
    BY DEF Alone, Alerts!AskStatus
  <1>3. ~ Alerts!Crash(w)
    BY BaseParts DEF Alone, Alerts!Crash, Others
  <1>4. ASSUME sweep[w].phase = "idle", UNCHANGED <<agent, alerts, heard>>,
               FromNet(sweep'[w]), Caller(sweep'[w], agent')
        PROVE  WillBeTold'
    BY <1>4 DEF WillBeTold, AllOffline, Alarmed, Leaving, Watching
  <1>5. ASSUME NEW a \in Agents, NEW status \in {"online", "error"}, Alerts!Heartbeat(w, a, status)
        PROVE  WillBeTold'
    <2>1. /\ agent'[a].status = status /\ agent' \in AgentTable /\ a \notin Alerts!Silent(agent')
          /\ sweep' = [sweep EXCEPT ![w] = Alerts!Started("request", None, agent')]
      BY <1>5, HeartbeatFits
    <2> DEFINE t == Alerts!Started("request", None, agent')
    <2>2. t.left = Alerts!Silent(agent') /\ t.gone = {} /\ t.origin = "request"
      BY <2>1, StartedFits DEF Alerts!Origins
    <2>3. sweep'[w] = t
      BY <1>1, <2>1
    <2> HIDE DEF t
    <2>4. ~ AllOffline'
      BY <2>1 DEF AllOffline
    <2>5. FromNet(t) /\ Caller(t, agent')
      BY <2>1, <2>2, <2>3 DEF FromNet, Caller
    <2>6. QED
      BY <2>3, <2>4, <2>5 DEF WillBeTold
  <1>6. ASSUME NEW a \in Agents, Alerts!Disconnect(w, a) PROVE WillBeTold'
    <2> DEFINE t == [Alerts!Started("leave", a, agent) EXCEPT !.found = {}, !.left = {a}]
    <2>1. t.origin = "leave"
      BY <1>1, StartedFits DEF Alerts!Origins, SweepFits, Alerts!Sweep
    <2>2. sweep'[w] = t /\ sweep[w].phase = "idle" /\ UNCHANGED <<agent, alerts, heard>>
      BY <1>1, <1>6 DEF Alerts!Disconnect, Alerts!Free
    <2> HIDE DEF t
    <2>3. FromNet(t) /\ Caller(t, agent')
      BY <2>1, <2>2 DEF FromNet, Caller
    <2>4. QED
      BY <1>4, <2>2, <2>3
  <1>7. CASE Alerts!SafetyNet(w)
    <2> DEFINE t == Alerts!Started("safety_net", None, agent)
    <2>1. t.origin = "safety_net" /\ t.gone = {} /\ t.left = t.found
      BY <1>1, StartedFits DEF Alerts!Origins
    <2>2. sweep'[w] = t /\ sweep[w].phase = "idle" /\ UNCHANGED <<agent, alerts, heard>>
      BY <1>1, <1>7 DEF Alerts!SafetyNet, Alerts!Free
    <2> HIDE DEF t
    <2>3. FromNet(t) /\ Caller(t, agent')
      BY <2>1, <2>2 DEF FromNet, Caller
    <2>4. QED
      BY <1>4, <2>2, <2>3
  <1>8. ASSUME NEW j \in Jobs,
               (\E a \in Agents : Alerts!Claim(w, j, a)) \/ Alerts!CompleteJob(w, j)
                 \/ Alerts!ReportFailure(w, j)
        PROVE  WillBeTold'
    <2>1. UNCHANGED <<agent, sweep, alerts, heard>>
      BY <1>8 DEF Alerts!Claim, Alerts!CompleteJob, Alerts!ReportFailure
    <2>2. QED
      BY <2>1 DEF WillBeTold, AllOffline, Alarmed, FromNet, Caller
  <1>9. QED
    BY <1>2, <1>3, <1>5, <1>6, <1>7, <1>8

LEMMA ConcludeTold ==
  ASSUME Alerts!ConstantsAssumption, Base, WillBeTold,
           NEW w \in Workers, Workers = {w}, Alerts!Conclude(w)
  PROVE  WillBeTold'
  <1> DEFINE s == sweep[w]
             alarm == s.origin = "safety_net" /\ Alerts!Online(agent) = {} /\ s.found # {}
  <1>1. /\ agent' = agent /\ alerts \subseteq alerts' /\ s.phase = "conclude"
        /\ IF s.origin = "leave"
           THEN sweep' = [sweep EXCEPT ![w] = Alerts!Started("disconnect", s.who, agent)]
           ELSE sweep' = [sweep EXCEPT ![w] = Alerts!NoSweep]
        /\ sweep \in [Workers -> Alerts!Sweep] /\ agent \in AgentTable /\ SweepFits(s)
    BY BaseParts, ConcludeFits
  <1>2. heard' = (Alerts!Online(agent) = {} /\ (heard \/ alarm))
    BY Zenon DEF Alerts!Conclude, Alerts!AgentsAre
  <1>3. AllOffline' <=> AllOffline
    BY <1>1 DEF AllOffline
  <1>4. AllOffline => Alerts!Online(agent) = {}
    BY DEF AllOffline, Alerts!Online
  <1>5. AllOffline /\ (heard \/ alarm) => heard'
    BY <1>2, <1>4, Zenon
  <1>6. ASSUME s.origin = "leave"
        PROVE  sweep'[w].phase # "idle" /\ sweep'[w].origin = "disconnect"
    <2>1. s.who \in Agents
      BY <1>1, <1>6 DEF SweepFits, Tidy
    <2> DEFINE t == Alerts!Started("disconnect", s.who, agent)
    <2>2. t.phase = "release" /\ t.origin = "disconnect"
      BY <1>1, <2>1, StartedFits DEF Alerts!Origins
    <2>3. sweep'[w] = t
      BY <1>1, <1>6
    <2>4. QED
      BY <2>2, <2>3
  <1>7. ASSUME s.origin # "leave"
        PROVE  sweep'[w].phase = "idle" /\ sweep'[w].origin = "request"
    <2>1. sweep'[w] = Alerts!NoSweep
      BY <1>1, <1>7
    <2>2. QED
      BY <2>1 DEF Alerts!NoSweep
  <1>8. FromNet(sweep'[w]) /\ Caller(sweep'[w], agent')
    BY <1>6, <1>7 DEF FromNet, Caller
  <1>9. ASSUME AllOffline, ~ heard' PROVE Alarmed' \/ Leaving(sweep'[w])
    <2>1. Alarmed \/ Leaving(s) \/ Watching(s)
      BY <1>5, <1>9 DEF WillBeTold
    <2>2. CASE Alarmed
      BY <1>1, <2>2 DEF Alarmed
    <2>3. CASE Leaving(s)
      <3>1. CASE s.origin = "leave"
        BY <1>6, <3>1 DEF Leaving
      <3>2. CASE s.origin = "disconnect"
        <4>1. [worker |-> w, key |-> <<s.who, "pool_offline">>] \in alerts'
          BY <1>4, <1>9, <3>2 DEF Alerts!Conclude
        <4>2. QED
          BY <4>1 DEF Alarmed
      <3>3. QED
        BY <2>3, <3>1, <3>2 DEF Leaving
    <2>4. CASE Watching(s)
      BY <1>4, <1>5, <1>9, <2>4 DEF Watching
    <2>5. QED
      BY <2>1, <2>2, <2>3, <2>4
  <1> HIDE DEF alarm
  <1>10. QED
    BY <1>3, <1>8, <1>9 DEF WillBeTold

LEMMA AlertTold ==
  ASSUME Alerts!ConstantsAssumption, Base, WillBeTold,
         \/ \E a \in Agents : Alerts!GoSilent(a)
         \/ \E x \in alerts : Alerts!Suppress(x) \/ Alerts!Send(x)
         \/ \E key \in Alerts!Keys : Alerts!Expire(key)
  PROVE  WillBeTold'
  <1>1. \A a \in Agents : agent'[a].status = agent[a].status
    <2>1. CASE \E a \in Agents : Alerts!GoSilent(a)
      BY <2>1, BaseParts DEF Alerts!GoSilent, AgentTable
    <2>2. CASE UNCHANGED agent
      BY <2>2
    <2>3. QED
      BY <2>1, <2>2 DEF Alerts!Suppress, Alerts!Send, Alerts!Expire, Alerts!Done
  <1>2. sweep' = sweep
    BY DEF Alerts!GoSilent, Alerts!Suppress, Alerts!Send, Alerts!Expire, Alerts!Done
  <1>3. \A w \in Workers : FromNet(sweep'[w]) /\ Caller(sweep'[w], agent')
    BY <1>1, <1>2 DEF WillBeTold, FromNet, Caller
  <1>4. AllOffline' <=> AllOffline
    BY <1>1 DEF AllOffline
  <1>5. ASSUME UNCHANGED <<heard, alerts>> PROVE WillBeTold'
    BY <1>2, <1>3, <1>4, <1>5 DEF WillBeTold, Alarmed
  <1>6. ASSUME NEW x \in alerts, Alerts!Done(x) PROVE WillBeTold'
    <2>1. heard' = (Alerts!Online(agent) = {} /\ (heard \/ x.key[2] = "pool_offline"))
      BY <1>6, Zenon DEF Alerts!Done, Alerts!AgentsAre
    <2>2. AllOffline => Alerts!Online(agent) = {}
      BY DEF AllOffline, Alerts!Online
    <2>3. AllOffline /\ (heard \/ x.key[2] = "pool_offline") => heard'
      BY <2>1, <2>2, Zenon
    <2>4. alerts' = alerts \ {x}
      BY <1>6 DEF Alerts!Done
    <2>5. x.key[2] # "pool_offline" => (Alarmed' <=> Alarmed)
      BY <2>4 DEF Alarmed
    <2>6. QED
      BY <1>2, <1>3, <1>4, <2>3, <2>5 DEF WillBeTold
  <1>7. QED
    BY <1>5, <1>6 DEF Alerts!GoSilent, Alerts!Suppress, Alerts!Send, Alerts!Expire

LEMMA StepTold ==
  ASSUME Alerts!ConstantsAssumption, OneWorker, Alone, Base, WillBeTold, [Alerts!Next]_(Alerts!vars)
  PROVE  WillBeTold'
  <1>1. PICK w : Workers = {w}
    BY DEF OneWorker
  <1>2. CASE UNCHANGED Alerts!vars
    BY <1>2 DEF Alerts!vars, WillBeTold, AllOffline, Alarmed, FromNet, Caller
  <1>3. CASE Alerts!Next
    <2>1. \/ Alerts!NextAgent(w) \/ Alerts!ReleaseJob(w) \/ Alerts!FinishRelease(w)
          \/ \E a \in Agents : \/ \E status \in {"online", "error"} : Alerts!Heartbeat(w, a, status)
                               \/ Alerts!Disconnect(w, a)
                               \/ \E j \in Jobs : Alerts!Claim(w, j, a)
          \/ Alerts!AskStatus(w) \/ Alerts!SafetyNet(w) \/ Alerts!Conclude(w)
          \/ \E j \in Jobs : Alerts!CompleteJob(w, j) \/ Alerts!ReportFailure(w, j)
          \/ Alerts!Crash(w)
          \/ \E a \in Agents : Alerts!GoSilent(a)
          \/ \E x \in alerts : Alerts!Suppress(x) \/ Alerts!Send(x)
          \/ \E key \in Alerts!Keys : Alerts!Expire(key)
      BY <1>1, <1>3 DEF Alerts!Next
    <2>2. w \in Workers
      BY <1>1
    <2>3. QED
      BY <1>1, <2>1, <2>2, ReleaseTold, RequestTold, ConcludeTold, AlertTold
  <1>4. QED
    BY <1>2, <1>3

LEMMA InitTold ==
  ASSUME Alerts!ConstantsAssumption, Alerts!Init
  PROVE  WillBeTold
  BY DEF Alerts!Init, WillBeTold, Alerts!NoSweep, FromNet, Caller

LEMMA ToldWhenOffline ==
  ASSUME WillBeTold
  PROVE  Alerts!PoolOfflineTold
  BY DEF WillBeTold, Alerts!PoolOfflineTold, AllOffline, Alarmed, Leaving, Watching, Alerts!Free

-----------------------------------------------------------------------------
(* Agents, jobs, sweeps and alerts keep their types, for any number of     *)
(* server processes.                                                       *)
THEOREM AlertsTypeCorrect == Alerts!ConstantsAssumption /\ Alerts!Spec => []Alerts!TypeOK
  <1> SUFFICES ASSUME Alerts!ConstantsAssumption
               PROVE  Alerts!Spec => []Alerts!TypeOK
    OBVIOUS
  <1>1. Alerts!Init => Base
    BY InitBase
  <1>2. Base /\ [Alerts!Next]_(Alerts!vars) => Base'
    BY StepBase
  <1>3. Base => Alerts!TypeOK
    BY DEF Base
  <1>4. QED
    BY <1>1, <1>2, <1>3, PTL DEF Alerts!Spec

(* With one server process, an agent that was marked offline holds no      *)
(* jobs, wherever the process stops, unless a warning of a last retry      *)
(* has committed a release half done.                                      *)
THEOREM OfflineNeverHoldsJobs ==
  Alerts!ConstantsAssumption /\ OneWorker /\ NothingHalfDone /\ Alerts!Spec =>
    []Alerts!OfflineHoldsNoJobs
  <1> SUFFICES ASSUME Alerts!ConstantsAssumption, OneWorker, NothingHalfDone
               PROVE  Alerts!Spec => []Alerts!OfflineHoldsNoJobs
    OBVIOUS
  <1>1. Alerts!Init => Served
    BY InitServed
  <1>2. Served /\ [Alerts!Next]_(Alerts!vars) => Served'
    BY StepServed
  <1>3. Served => Alerts!OfflineHoldsNoJobs
    BY ServedHoldsNoJobs
  <1>4. QED
    BY <1>1, <1>2, <1>3, PTL DEF Alerts!Spec

(* With one server process that does not stop, and nobody else asking for  *)
(* the status of the pool, its members are told when it is offline.        *)
THEOREM PoolOfflineAlwaysTold ==
  Alerts!ConstantsAssumption /\ OneWorker /\ Alone /\ Alerts!Spec => []Alerts!PoolOfflineTold
  <1> SUFFICES ASSUME Alerts!ConstantsAssumption, OneWorker, Alone
               PROVE  Alerts!Spec => []Alerts!PoolOfflineTold
    OBVIOUS
  <1>1. Alerts!Init => Base /\ WillBeTold
    BY InitBase, InitTold
  <1>2. Base /\ WillBeTold /\ [Alerts!Next]_(Alerts!vars) => Base' /\ WillBeTold'
    BY StepBase, StepTold
  <1>3. WillBeTold => Alerts!PoolOfflineTold
    BY ToldWhenOffline
  <1>4. QED
    BY <1>1, <1>2, <1>3, PTL DEF Alerts!Spec

=============================================================================
