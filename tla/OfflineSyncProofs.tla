-------------------------- MODULE OfflineSyncProofs --------------------------
(* No offline result is lost: its file is given up only when its result is *)
(* stored, for any number of results, sync commands, requests and faults.  *)
(* The client learns of that by an answer alone, so the invariant follows  *)
(* the result from the handler's commit to the client's flag.              *)
EXTENDS OfflineSync, FiniteSetTheorems, TLAPS

(* A client has one request at a time, and waits for its answer.           *)
ClientsWait == \A h \in Handlers : handler[h].client # Null =>
                 /\ handler[h].phase # "idle"
                 /\ cli[handler[h].client].phase = "waiting"
                 /\ cli[handler[h].client].result = handler[h].result

OneRequestEach == \A h, g \in Handlers :
                    handler[h].client # Null /\ handler[h].client = handler[g].client => h = g

(* What a handler is about to replace is neither free nor a result, and    *)
(* what it has committed is the client's result.                           *)
PlaceholdersOpen == \A h \in Handlers :
                      handler[h].phase = "loaded" /\ handler[h].placeholder \in JobIds
                        => jobs[handler[h].placeholder].state \notin {"none", "COMPLETED"}

HandledStored == \A h \in Handlers :
                   handler[h].phase = "stored" => handler[h].job \in Stored(handler[h].result)

(* A client that got its answer has its result stored.                     *)
AnsweredStored == \A p \in Syncs :
                    cli[p].phase \in {"answered", "marked"} => Stored(cli[p].result) # {}

(* Chunks are sent of large results only.                                  *)
ChunksOfChunked == \A p \in Syncs : cli[p].phase = "chunks" => cli[p].result \in Chunked

IInv == /\ TypeOK /\ ChunksOfChunked
        /\ ClientsWait /\ OneRequestEach
        /\ PlaceholdersOpen /\ HandledStored
        /\ AnsweredStored /\ NothingLost

-----------------------------------------------------------------------------
(* What the helpers return.                                                *)

LEMMA ThroughType ==
  ASSUME NEW c \in Cli
  PROVE  /\ Through(c) \in Cli
         /\ Through(c).phase \in {"idle", "next"}
  BY DEF Through, NoCli, Cli

LEMMA FreshType == Fresh \subseteq {j \in JobIds : jobs[j].state = "none"}
  BY DEF Fresh

LEMMA NotedType ==
  ASSUME NEW r, NEW S
  PROVE  Noted(r, S) \subseteq {j \in JobIds : jobs[j].result = r /\ jobs[j].state \in S}
  BY DEF Noted

LEMMA NoHandlerType == NoHandler \in Handler
  BY DEF NoHandler, Handler

LEMMA NoCliType == NoCli \in Cli
  BY DEF NoCli, Cli

LEMMA ForgetType ==
  ASSUME TypeOK, NEW p
  PROVE  Forget(p) \in [Handlers -> Handler]
  BY DEF Forget, TypeOK, Handler

-----------------------------------------------------------------------------
(* Every step keeps the types.                                             *)

LEMMA SyncType ==
  ASSUME ConstantsAssumption, TypeOK, ChunksOfChunked, NEW p \in Syncs,
         Sync(p) \/ Lose(p) \/ Kill(p)
  PROVE  TypeOK' /\ ChunksOfChunked'
  <1> cli[p] \in Cli
    BY DEF TypeOK
  <1> USE DEF ConstantsAssumption
  <1>1. CASE StartSync(p)
    <2>1. cli' = [cli EXCEPT ![p] = [NoCli EXCEPT !.phase = "next", !.todo = Pending]]
      BY <1>1 DEF StartSync
    <2>2. [NoCli EXCEPT !.phase = "next", !.todo = Pending] \in Cli
      BY DEF NoCli, Cli, Pending
    <2>3. QED
      BY <1>1, <2>1, <2>2 DEF StartSync, TypeOK, ChunksOfChunked, NoCli
  <1>2. CASE Prepare(p)
    <2>1. PICK r \in cli[p].todo :
            \/ /\ cli' = [cli EXCEPT ![p].phase = "upload", ![p].result = r]
               /\ jobs' = jobs
            \/ /\ r \in Chunked
               /\ \E j \in JobIds :
                    /\ cli' = [cli EXCEPT ![p].phase = "chunks", ![p].result = r, ![p].job = j]
                    /\ \/ jobs' = jobs
                       \/ jobs' = [jobs EXCEPT ![j] = [state |-> "ASSIGNED", result |-> r,
                                                       noted |-> TRUE]]
      BY <1>2, FreshType, NotedType DEF Prepare
    <2>2. r \in Results
      BY <2>1 DEF Cli
    <2>3. [state |-> "ASSIGNED", result |-> r, noted |-> TRUE] \in Job
      BY <2>2 DEF Job
    <2>4. jobs' \in [JobIds -> Job]
      BY <2>1, <2>3 DEF TypeOK
    <2>5. cli' \in [Syncs -> Cli] /\ ChunksOfChunked'
      BY <2>1, <2>2 DEF TypeOK, Cli, ChunksOfChunked
    <2>6. QED
      BY <1>2, <2>4, <2>5 DEF Prepare, TypeOK
  <1>3. CASE SendChunks(p)
    <2>1. cli' \in [Syncs -> Cli] /\ ChunksOfChunked'
      BY <1>3, ThroughType DEF SendChunks, TypeOK, Cli, ChunksOfChunked
    <2>2. content' \subseteq Chunked
      BY <1>3 DEF SendChunks, TypeOK, ChunksOfChunked
    <2>3. QED
      BY <1>3, <2>1, <2>2 DEF SendChunks, TypeOK
  <1>4. CASE MarkSynced(p)
    BY <1>4 DEF MarkSynced, TypeOK, Cli, ChunksOfChunked
  <1>5. CASE DeleteFile(p)
    <2>1. cli' \in [Syncs -> Cli] /\ ChunksOfChunked'
      BY <1>5, ThroughType DEF DeleteFile, TypeOK, ChunksOfChunked
    <2>2. QED
      BY <1>5, <2>1 DEF DeleteFile, TypeOK
  <1>6. ASSUME NEW h \in Handlers, Receive(p, h) PROVE TypeOK' /\ ChunksOfChunked'
    <2>1. cli' \in [Syncs -> Cli] /\ ChunksOfChunked'
      BY <1>6, ThroughType DEF Receive, OnConflict, TypeOK, Cli, ChunksOfChunked
    <2>2. cli[p].result \in Results \cup {Null}
      BY DEF Cli
    <2>3. Noted(cli[p].result, {"ASSIGNED"}) \subseteq JobIds
      BY NotedType
    <2>4. ASSUME NEW j \in JobIds \cup {0}
          PROVE  [phase |-> "loaded", client |-> p, result |-> cli[p].result,
                  placeholder |-> j, job |-> 0] \in Handler
      BY <2>2 DEF Handler
    <2>5. handler' \in [Handlers -> Handler]
      BY <1>6, <2>3, <2>4 DEF Receive, TypeOK
    <2>6. content' \subseteq Chunked
      BY <1>6 DEF Receive, TypeOK
    <2>7. QED
      BY <1>6, <2>1, <2>5, <2>6 DEF Receive, TypeOK
  <1>7. ASSUME Lose(p) \/ Kill(p) PROVE TypeOK' /\ ChunksOfChunked'
    <2>1. handler' \in [Handlers -> Handler]
      BY <1>7, ForgetType DEF Lose, Kill
    <2>2. \A r \in cli[p].todo : [cli[p] EXCEPT !.result = r] \in Cli
      BY DEF Cli
    <2> DEFINE ends == {c \in Cli : c.phase \in {"idle", "next"}}
    <2>3. /\ NoCli \in ends /\ Through(cli[p]) \in ends
          /\ \A r \in cli[p].todo : Through([cli[p] EXCEPT !.result = r]) \in ends
      BY <2>2, ThroughType, NoCliType DEF NoCli
    <2>4. \E c \in ends : cli' = [cli EXCEPT ![p] = c]
      BY <1>7, <2>3 DEF Lose, Kill
    <2>5. cli' \in [Syncs -> Cli] /\ ChunksOfChunked'
      BY <2>4 DEF TypeOK, ChunksOfChunked
    <2>6. faults' \in 0 .. MaxFaults
      BY <1>7 DEF Lose, Kill, Fault, TypeOK
    <2>7. QED
      BY <1>7, <2>1, <2>5, <2>6 DEF Lose, Kill, TypeOK
  <1>8. QED
    BY <1>1, <1>2, <1>3, <1>4, <1>5, <1>6, <1>7 DEF Sync

LEMMA ServerType ==
  ASSUME ConstantsAssumption, TypeOK, ChunksOfChunked,
         \/ \E r \in Results : RunOffline(r)
         \/ \E h \in Handlers : Handle(h) \/ FailStore(h)
         \/ ServerStop
         \/ Sweep
  PROVE  TypeOK' /\ ChunksOfChunked'
  <1> USE DEF ConstantsAssumption
  <1>1. ASSUME NEW r \in Results, RunOffline(r) PROVE TypeOK' /\ ChunksOfChunked'
    BY <1>1 DEF RunOffline, TypeOK, ChunksOfChunked
  <1>2. ASSUME NEW h \in Handlers, Store(h) PROVE TypeOK' /\ ChunksOfChunked'
    <2>1. handler[h] \in Handler
      BY DEF TypeOK
    <2>2. PICK j \in JobIds :
            /\ jobs' = [k \in JobIds |->
                 CASE k = j -> [state |-> "COMPLETED", result |-> handler[h].result, noted |-> FALSE]
                   [] k = handler[h].placeholder -> [jobs[k] EXCEPT !.state = "deleted"]
                   [] OTHER -> jobs[k]]
            /\ handler' = [handler EXCEPT ![h].phase = "stored", ![h].job = j]
      BY <1>2, FreshType DEF Store
    <2>3. [state |-> "COMPLETED", result |-> handler[h].result, noted |-> FALSE] \in Job
      BY <2>1 DEF Job, Handler
    <2>4. \A k \in JobIds : jobs[k] \in Job /\ [jobs[k] EXCEPT !.state = "deleted"] \in Job
      BY DEF TypeOK, Job
    <2>5. jobs' \in [JobIds -> Job]
      BY <2>2, <2>3, <2>4
    <2>6. handler' \in [Handlers -> Handler]
      <3>1. [handler[h] EXCEPT !.phase = "stored", !.job = j] \in Handler
        BY <2>1 DEF Handler
      <3>2. handler' = [handler EXCEPT ![h] = [handler[h] EXCEPT !.phase = "stored", !.job = j]]
        BY <2>2 DEF TypeOK
      <3>3. QED
        BY <3>1, <3>2 DEF TypeOK
    <2>7. QED
      BY <1>2, <2>5, <2>6 DEF Store, TypeOK, ChunksOfChunked
  <1>3. ASSUME NEW h \in Handlers, Finish(h) PROVE TypeOK' /\ ChunksOfChunked'
    <2>1. jobs' \in [JobIds -> Job]
      <3>1. \A k \in JobIds : [jobs[k] EXCEPT !.noted = TRUE] \in Job
        BY DEF TypeOK, Job
      <3>2. jobs' = [jobs EXCEPT ![handler[h].job] = [@ EXCEPT !.noted = TRUE]]
        BY <1>3 DEF Finish, Note
      <3>3. QED
        BY <3>1, <3>2 DEF TypeOK
    <2>2. handler' \in [Handlers -> Handler]
      BY <1>3, NoHandlerType DEF Finish, TypeOK
    <2>3. cli' \in [Syncs -> Cli] /\ ChunksOfChunked'
      <3>1. CASE handler[h].client = Null
        BY <1>3, <3>1 DEF Finish, TypeOK, ChunksOfChunked
      <3>2. CASE handler[h].client # Null
        <4> DEFINE p == handler[h].client
                   answered == [cli[p] EXCEPT !.phase = "answered"]
        <4>1. p \in Syncs /\ cli[p] \in Cli
          BY <3>2 DEF TypeOK, Handler
        <4>2. answered \in Cli /\ answered.phase = "answered"
          BY <4>1 DEF Cli
        <4>3. cli' = [cli EXCEPT ![p] = answered]
          BY <1>3, <3>2 DEF Finish
        <4> HIDE DEF p, answered
        <4>4. QED
          BY <4>1, <4>2, <4>3 DEF TypeOK, ChunksOfChunked
      <3>3. QED
        BY <3>1, <3>2
    <2>4. QED
      BY <1>3, <2>1, <2>2, <2>3 DEF Finish, TypeOK
  <1>4. ASSUME NEW h \in Handlers, FailStore(h) PROVE TypeOK' /\ ChunksOfChunked'
    <2>1. handler' \in [Handlers -> Handler]
      BY <1>4, NoHandlerType DEF FailStore, TypeOK
    <2>2. cli' \in [Syncs -> Cli] /\ ChunksOfChunked'
      BY <1>4, ThroughType DEF FailStore, TypeOK, ChunksOfChunked
    <2>3. faults' \in 0 .. MaxFaults
      BY <1>4 DEF FailStore, Fault, TypeOK
    <2>4. QED
      BY <1>4, <2>1, <2>2, <2>3 DEF FailStore, TypeOK
  <1>5. CASE ServerStop
    <2>1. handler' \in [Handlers -> Handler]
      BY <1>5, NoHandlerType DEF ServerStop
    <2>2. cli' \in [Syncs -> Cli] /\ ChunksOfChunked'
      BY <1>5, ThroughType DEF ServerStop, TypeOK, ChunksOfChunked
    <2>3. faults' \in 0 .. MaxFaults
      BY <1>5 DEF ServerStop, Fault, TypeOK
    <2>4. QED
      BY <1>5, <2>1, <2>2, <2>3 DEF ServerStop, TypeOK
  <1>6. CASE Sweep
    <2>1. jobs' \in [JobIds -> Job]
      BY <1>6 DEF Sweep, TypeOK, Job
    <2>2. faults' \in 0 .. MaxFaults
      BY <1>6 DEF Sweep, Fault, TypeOK
    <2>3. QED
      BY <1>6, <2>1, <2>2 DEF Sweep, TypeOK, ChunksOfChunked
  <1>7. QED
    BY <1>1, <1>2, <1>3, <1>4, <1>5, <1>6 DEF Handle

-----------------------------------------------------------------------------
(* What is stored stays stored, and what is not free and not a result does *)
(* not become either.                                                      *)
Keeps == \A j \in JobIds :
           /\ jobs[j].state = "COMPLETED"
                => jobs'[j].state = "COMPLETED" /\ jobs'[j].result = jobs[j].result
           /\ jobs[j].state \notin {"none", "COMPLETED"}
                => jobs'[j].state \notin {"none", "COMPLETED"}

(* What is stored of a result after the step.                              *)
StoredThen(r) == {j \in JobIds : jobs'[j].result = r /\ jobs'[j].state = "COMPLETED"}

LEMMA KeepsStored ==
  ASSUME Keeps, NEW r
  PROVE  Stored(r) \subseteq StoredThen(r)
  BY DEF Keeps, Stored, StoredThen

LEMMA UnchangedKeeps ==
  ASSUME jobs' = jobs
  PROVE  Keeps
  BY DEF Keeps

LEMMA PrepareKeeps ==
  ASSUME TypeOK, NEW p \in Syncs, Prepare(p)
  PROVE  Keeps
  <1>1. \/ jobs' = jobs
        \/ \E j \in JobIds, r \in cli[p].todo :
             /\ jobs[j].state = "none"
             /\ jobs' = [jobs EXCEPT ![j] = [state |-> "ASSIGNED", result |-> r, noted |-> TRUE]]
    BY FreshType DEF Prepare
  <1>2. QED
    BY <1>1 DEF Keeps, TypeOK

LEMMA StoreKeeps ==
  ASSUME TypeOK, PlaceholdersOpen, NEW h \in Handlers, Store(h)
  PROVE  /\ Keeps
         /\ \E j \in JobIds :
              /\ j \in StoredThen(handler[h].result)
              /\ handler' = [handler EXCEPT ![h].phase = "stored", ![h].job = j]
  <1>1. PICK j \in JobIds :
          /\ jobs[j].state = "none"
          /\ jobs' = [k \in JobIds |->
               CASE k = j -> [state |-> "COMPLETED", result |-> handler[h].result, noted |-> FALSE]
                 [] k = handler[h].placeholder -> [jobs[k] EXCEPT !.state = "deleted"]
                 [] OTHER -> jobs[k]]
          /\ handler' = [handler EXCEPT ![h].phase = "stored", ![h].job = j]
    BY FreshType DEF Store
  <1>2. handler[h].placeholder \in JobIds
          => jobs[handler[h].placeholder].state \notin {"none", "COMPLETED"}
    BY DEF Store, PlaceholdersOpen
  <1>3. \A k \in JobIds : [jobs[k] EXCEPT !.state = "deleted"].state = "deleted"
    BY DEF TypeOK, Job
  <1>4. Keeps
    BY <1>1, <1>2, <1>3 DEF Keeps
  <1>5. j # handler[h].placeholder
    BY <1>1, <1>2
  <1>6. jobs'[j].state = "COMPLETED" /\ jobs'[j].result = handler[h].result
    BY <1>1, <1>5
  <1>7. QED
    BY <1>1, <1>4, <1>6 DEF StoredThen

LEMMA FinishKeeps ==
  ASSUME TypeOK, NEW h \in Handlers, Finish(h)
  PROVE  Keeps
  <1>1. SUFFICES ASSUME NEW k \in JobIds
                 PROVE  jobs'[k].state = jobs[k].state /\ jobs'[k].result = jobs[k].result
    BY DEF Keeps
  <1>2. jobs'[k] = jobs[k] \/ jobs'[k] = [jobs[k] EXCEPT !.noted = TRUE]
    BY DEF Finish, Note, TypeOK
  <1>3. QED
    BY <1>2 DEF TypeOK, Job

LEMMA SweepKeeps ==
  ASSUME TypeOK, Sweep
  PROVE  Keeps
  <1>1. PICK j \in JobIds :
          /\ jobs[j].state = "ASSIGNED"
          /\ jobs' = [jobs EXCEPT ![j] = [jobs[j] EXCEPT !.state = "released", !.noted = FALSE]]
    BY DEF Sweep, TypeOK
  <1>2. [jobs[j] EXCEPT !.state = "released", !.noted = FALSE].state = "released"
    BY DEF TypeOK, Job
  <1>3. QED
    BY <1>1, <1>2 DEF Keeps, TypeOK

-----------------------------------------------------------------------------
(* Every step of a client keeps the invariant.                             *)

(* A client that does not wait has no request; none is made or answered.   *)
LEMMA HandlersAlone ==
  ASSUME IInv, Keeps, UNCHANGED handler
  PROVE  PlaceholdersOpen' /\ HandledStored' /\ OneRequestEach'
  <1>1. \A h \in Handlers :
          handler[h].phase = "stored" => handler[h].job \in StoredThen(handler[h].result)
    BY KeepsStored DEF IInv, HandledStored
  <1>2. HandledStored'
    BY <1>1 DEF HandledStored, Stored, StoredThen, JobIds
  <1>3. PlaceholdersOpen'
    BY DEF IInv, PlaceholdersOpen, Keeps, JobIds
  <1>4. QED
    BY <1>2, <1>3 DEF IInv, OneRequestEach

(* Files and answers of clients other than p.                              *)
LEMMA OthersKept ==
  ASSUME IInv, Keeps, NEW p \in Syncs, NEW c, cli' = [cli EXCEPT ![p] = c],
         c.phase \in {"answered", "marked"} => StoredThen(c.result) # {}
  PROVE  AnsweredStored' /\ (UNCHANGED local => NothingLost')
  <1>1. ASSUME NEW q \in Syncs, cli'[q].phase \in {"answered", "marked"}
        PROVE  StoredThen(cli'[q].result) # {}
    <2>1. CASE q = p
      BY <1>1, <2>1 DEF IInv, TypeOK
    <2>2. CASE q # p
      BY <1>1, <2>2, KeepsStored DEF IInv, TypeOK, AnsweredStored
    <2>3. QED
      BY <2>1, <2>2
  <1>2. AnsweredStored'
    BY <1>1 DEF AnsweredStored, Stored, StoredThen, JobIds
  <1>3. ASSUME UNCHANGED local PROVE NothingLost'
    <2>1. \A r \in Results : local[r] \in {"synced", "deleted"} => StoredThen(r) # {}
      BY KeepsStored DEF IInv, NothingLost
    <2>2. QED
      BY <1>3, <2>1 DEF NothingLost, Stored, StoredThen, JobIds
  <1>4. QED
    BY <1>2, <1>3

LEMMA NobodyAsked ==
  ASSUME IInv, NEW p \in Syncs, cli[p].phase # "waiting", NEW c, cli' = [cli EXCEPT ![p] = c],
         UNCHANGED handler
  PROVE  ClientsWait'
  BY DEF IInv, TypeOK, ClientsWait, Handler

(* The steps of a client that leave its request alone: the next phase is   *)
(* not one that follows an answer, or what it says is stored.              *)
LEMMA ClientStep ==
  ASSUME ConstantsAssumption, IInv, NEW p \in Syncs, Sync(p), Keeps,
         cli[p].phase # "waiting", NEW c, cli' = [cli EXCEPT ![p] = c],
         c.phase \in {"answered", "marked"} => StoredThen(c.result) # {},
         UNCHANGED <<local, handler>>
  PROVE  IInv'
  <1>1. TypeOK' /\ ChunksOfChunked'
    BY SyncType DEF IInv
  <1>2. QED
    BY <1>1, HandlersAlone, OthersKept, NobodyAsked DEF IInv

LEMMA SyncKeepsIInv ==
  ASSUME ConstantsAssumption, IInv, NEW p \in Syncs, Sync(p)
  PROVE  IInv'
  <1> cli[p] \in Cli
    BY DEF IInv, TypeOK
  <1>1. CASE StartSync(p)
    <2>1. [NoCli EXCEPT !.phase = "next", !.todo = Pending].phase = "next"
      BY DEF NoCli
    <2>2. Keeps
      BY <1>1, UnchangedKeeps DEF StartSync
    <2>3. QED
      BY <1>1, <2>1, <2>2, ClientStep DEF StartSync
  <1>2. CASE Prepare(p)
    <2>1. Keeps
      BY <1>2, PrepareKeeps DEF IInv
    <2>2. cli' = [cli EXCEPT ![p] = cli'[p]] /\ cli'[p].phase \in {"upload", "chunks"}
      <3>1. PICK r \in cli[p].todo, j \in JobIds \cup {0} :
              \/ cli' = [cli EXCEPT ![p].phase = "upload", ![p].result = r]
              \/ cli' = [cli EXCEPT ![p].phase = "chunks", ![p].result = r, ![p].job = j]
        BY <1>2, FreshType, NotedType DEF Prepare
      <3>2. QED
        BY <3>1 DEF IInv, TypeOK, Cli
    <2>3. QED
      BY <1>2, <2>1, <2>2, ClientStep DEF Prepare
  <1>3. CASE SendChunks(p)
    <2>1. Keeps
      BY <1>3, UnchangedKeeps DEF SendChunks
    <2>2. \E c \in Cli : c.phase \in {"idle", "next", "upload"} /\ cli' = [cli EXCEPT ![p] = c]
      <3>1. [cli[p] EXCEPT !.phase = "upload"] \in Cli
        BY DEF Cli
      <3>2. [cli[p] EXCEPT !.phase = "upload"].phase = "upload"
        BY DEF Cli
      <3>3. QED
        BY <1>3, <3>1, <3>2, ThroughType DEF SendChunks, IInv, TypeOK
    <2>3. QED
      BY <1>3, <2>1, <2>2, ClientStep DEF SendChunks
  <1>4. CASE MarkSynced(p)
    <2>1. TypeOK' /\ ChunksOfChunked'
      BY SyncType DEF IInv
    <2>2. Keeps
      BY <1>4, UnchangedKeeps DEF MarkSynced
    <2>3. Stored(cli[p].result) # {}
      BY <1>4 DEF MarkSynced, IInv, AnsweredStored
    <2>4. \A r : StoredThen(r) = Stored(r)
      BY <1>4 DEF MarkSynced, Stored, StoredThen
    <2>5. /\ [cli[p] EXCEPT !.phase = "marked"].result = cli[p].result
          /\ cli' = [cli EXCEPT ![p] = [cli[p] EXCEPT !.phase = "marked"]]
      BY <1>4 DEF MarkSynced, Cli, IInv, TypeOK
    <2>6. AnsweredStored' /\ ClientsWait'
      BY <1>4, <2>2, <2>3, <2>4, <2>5, OthersKept, NobodyAsked DEF MarkSynced
    <2>7. NothingLost'
      BY <1>4, <2>3 DEF MarkSynced, NothingLost, IInv, TypeOK, Stored, JobIds
    <2>8. QED
      BY <1>4, <2>1, <2>2, <2>6, <2>7, HandlersAlone DEF MarkSynced, IInv
  <1>5. CASE DeleteFile(p)
    <2>1. TypeOK' /\ ChunksOfChunked'
      BY SyncType DEF IInv
    <2>2. Keeps
      BY <1>5, UnchangedKeeps DEF DeleteFile
    <2>3. Stored(cli[p].result) # {}
      BY <1>5 DEF DeleteFile, IInv, AnsweredStored
    <2>4. \A r : StoredThen(r) = Stored(r)
      BY <1>5 DEF DeleteFile, Stored, StoredThen
    <2>5. AnsweredStored' /\ ClientsWait'
      BY <1>5, <2>2, ThroughType, OthersKept, NobodyAsked DEF DeleteFile
    <2>6. NothingLost'
      BY <1>5, <2>3 DEF DeleteFile, NothingLost, IInv, TypeOK, Stored, JobIds
    <2>7. QED
      BY <1>5, <2>1, <2>2, <2>5, <2>6, HandlersAlone DEF DeleteFile, IInv
  <1>6. ASSUME NEW h \in Handlers, Receive(p, h) PROVE IInv'
    <2>1. TypeOK' /\ ChunksOfChunked'
      BY SyncType DEF IInv
    <2>2. Keeps /\ UNCHANGED <<local, jobs>> /\ cli[p].phase = "upload"
      BY <1>6, UnchangedKeeps DEF Receive
    <2>3. CASE UNCHANGED handler
      <3>1. CASE AlreadyUploaded(cli[p].result)
        <4>1. StoredThen(cli[p].result) # {}
          BY <2>2, <3>1, NotedType DEF AlreadyUploaded, StoredThen
        <4>2. /\ cli' = [cli EXCEPT ![p] = [cli[p] EXCEPT !.phase = "answered"]]
              /\ [cli[p] EXCEPT !.phase = "answered"].result = cli[p].result
          BY <1>6, <2>3, <3>1 DEF Receive, OnConflict, Cli
        <4>3. QED
          BY <1>6, <2>2, <2>3, <4>1, <4>2, ClientStep
      <3>2. CASE cli' = [cli EXCEPT ![p] = Through(cli[p])]
        BY <1>6, <2>2, <2>3, <3>2, ThroughType, ClientStep
      <3>3. CASE \E j : handler' = [handler EXCEPT ![h] =
                                      [phase |-> "loaded", client |-> p, result |-> cli[p].result,
                                       placeholder |-> j, job |-> 0]]
        BY <1>6, <2>3, <3>3 DEF Receive, NoHandler, IInv, TypeOK
      <3>4. QED
        BY <1>6, <3>1, <3>2, <3>3 DEF Receive
    <2>4. CASE ~ UNCHANGED handler
      <3>1. PICK j \in JobIds \cup {0} :
              /\ j \in JobIds => jobs[j].state = "ASSIGNED"
              /\ handler' = [handler EXCEPT ![h] =
                               [phase |-> "loaded", client |-> p, result |-> cli[p].result,
                                placeholder |-> j, job |-> 0]]
        BY <1>6, <2>4, NotedType DEF Receive, JobIds
      <3>2. cli' = [cli EXCEPT ![p] = [cli[p] EXCEPT !.phase = "waiting"]]
        BY <1>6, <2>4 DEF Receive, IInv, TypeOK
      <3>3. /\ [cli[p] EXCEPT !.phase = "waiting"].phase = "waiting"
            /\ [cli[p] EXCEPT !.phase = "waiting"].result = cli[p].result
        BY DEF Cli
      <3>4. \A g \in Handlers : handler[g].client # p
        BY <2>2 DEF ConstantsAssumption, IInv, ClientsWait
      <3>5. ClientsWait' /\ OneRequestEach'
        BY <3>1, <3>2, <3>3, <3>4 DEF IInv, ClientsWait, OneRequestEach, TypeOK, Handler
      <3>6. PlaceholdersOpen' /\ HandledStored'
        BY <2>2, <3>1 DEF IInv, PlaceholdersOpen, HandledStored, TypeOK, Stored
      <3>7. AnsweredStored' /\ NothingLost'
        BY <2>2, <3>2, <3>3, OthersKept
      <3>8. QED
        BY <2>1, <3>5, <3>6, <3>7 DEF IInv
    <2>5. QED
      BY <2>3, <2>4
  <1>7. QED
    BY <1>1, <1>2, <1>3, <1>4, <1>5, <1>6 DEF Sync

-----------------------------------------------------------------------------
(* Steps that take the answer away from clients, and steps of the server.  *)

(* Handlers that end, or that go on without their client: what they work   *)
(* on stays.                                                               *)
Detached == \A h \in Handlers :
              \/ handler'[h] = NoHandler
              \/ /\ handler'[h].client \in {handler[h].client, Null}
                 /\ handler'[h].phase = handler[h].phase
                 /\ handler'[h].result = handler[h].result
                 /\ handler'[h].placeholder = handler[h].placeholder
                 /\ handler'[h].job = handler[h].job

LEMMA DetachedRequests ==
  ASSUME IInv, Keeps, Detached
  PROVE  PlaceholdersOpen' /\ HandledStored' /\ OneRequestEach'
  <1>1. ASSUME NEW h \in Handlers, handler'[h].phase = "stored"
        PROVE  handler'[h].job \in StoredThen(handler'[h].result)
    BY <1>1, KeepsStored DEF IInv, HandledStored, Detached, NoHandler
  <1>2. HandledStored'
    BY <1>1 DEF HandledStored, Stored, StoredThen, JobIds
  <1>3. PlaceholdersOpen'
    BY DEF IInv, PlaceholdersOpen, Keeps, Detached, NoHandler, JobIds
  <1>4. OneRequestEach'
    BY DEF IInv, OneRequestEach, Detached, NoHandler
  <1>5. QED
    BY <1>2, <1>3, <1>4

LEMMA ForgetDetaches ==
  ASSUME TypeOK, NEW p, handler' = Forget(p)
  PROVE  Detached /\ \A h \in Handlers : handler'[h].client # p \/ p = Null
  BY DEF Forget, Detached, TypeOK, Handler

(* Clients whose phase changes have no request any more, and those that do *)
(* not go on: nobody gets an answer.                                       *)
LEMMA NoAnswers ==
  ASSUME IInv, Keeps, Detached, UNCHANGED local,
         \A p \in Syncs : \/ cli'[p] = cli[p]
                          \/ /\ cli'[p].phase \in {"idle", "next"}
                             /\ \A h \in Handlers : handler'[h].client # p
  PROVE  AnsweredStored' /\ NothingLost' /\ ClientsWait'
  <1>1. ASSUME NEW p \in Syncs, cli'[p].phase \in {"answered", "marked"}
        PROVE  StoredThen(cli'[p].result) # {}
    BY <1>1, KeepsStored DEF IInv, AnsweredStored
  <1>2. AnsweredStored'
    BY <1>1 DEF AnsweredStored, Stored, StoredThen, JobIds
  <1>3. \A r \in Results : local[r] \in {"synced", "deleted"} => StoredThen(r) # {}
    BY KeepsStored DEF IInv, NothingLost
  <1>4. NothingLost'
    BY <1>3 DEF NothingLost, Stored, StoredThen, JobIds
  <1>5. ASSUME NEW h \in Handlers, handler'[h].client # Null
        PROVE  /\ handler'[h].phase # "idle"
               /\ cli'[handler'[h].client].phase = "waiting"
               /\ cli'[handler'[h].client].result = handler'[h].result
    <2>1. /\ handler'[h].client = handler[h].client
          /\ handler'[h].phase = handler[h].phase
          /\ handler'[h].result = handler[h].result
      BY <1>5 DEF Detached, NoHandler
    <2>2. handler[h].client \in Syncs
      BY <1>5, <2>1 DEF IInv, TypeOK, Handler
    <2>3. cli'[handler[h].client] = cli[handler[h].client]
      BY <2>1, <2>2
    <2>4. QED
      BY <1>5, <2>1, <2>3 DEF IInv, ClientsWait
  <1>6. ClientsWait'
    BY <1>5 DEF ClientsWait
  <1>7. QED
    BY <1>2, <1>4, <1>6

LEMMA FaultKeepsIInv ==
  ASSUME ConstantsAssumption, IInv,
         \/ \E p \in Syncs : Lose(p) \/ Kill(p)
         \/ \E h \in Handlers : FailStore(h)
         \/ ServerStop
         \/ Sweep
  PROVE  IInv'
  <1>1. ASSUME NEW p \in Syncs, Lose(p) \/ Kill(p) PROVE IInv'
    <2>1. TypeOK' /\ ChunksOfChunked'
      BY <1>1, SyncType DEF IInv
    <2>2. Keeps /\ UNCHANGED local
      BY <1>1, UnchangedKeeps DEF Lose, Kill
    <2>3. Detached /\ \A h \in Handlers : handler'[h].client # p
      BY <1>1, ForgetDetaches DEF Lose, Kill, IInv, ConstantsAssumption
    <2>4. cli[p] \in Cli /\ \A r \in cli[p].todo : [cli[p] EXCEPT !.result = r] \in Cli
      BY DEF IInv, TypeOK, Cli
    <2>5. /\ cli'[p].phase \in {"idle", "next"}
          /\ \A q \in Syncs \ {p} : cli'[q] = cli[q]
      <3>1. CASE Kill(p)
        BY <3>1 DEF Kill, NoCli, IInv, TypeOK
      <3>2. CASE Lose(p) /\ cli[p].phase = "next"
        BY <2>4, <3>2, ThroughType DEF Lose, IInv, TypeOK
      <3>3. CASE Lose(p) /\ cli[p].phase # "next"
        BY <2>4, <3>3, ThroughType DEF Lose, IInv, TypeOK
      <3>4. QED
        BY <1>1, <3>1, <3>2, <3>3
    <2>6. AnsweredStored' /\ NothingLost' /\ ClientsWait'
      BY <2>2, <2>3, <2>5, NoAnswers DEF IInv, TypeOK
    <2>7. QED
      BY <2>1, <2>2, <2>3, <2>6, DetachedRequests DEF IInv
  <1>2. ASSUME NEW h \in Handlers, FailStore(h) PROVE IInv'
    <2>1. TypeOK' /\ ChunksOfChunked'
      BY <1>2, ServerType DEF IInv
    <2>2. Keeps /\ UNCHANGED local
      BY <1>2, UnchangedKeeps DEF FailStore
    <2>3. Detached
      BY <1>2 DEF FailStore, Detached, IInv, TypeOK
    <2>4. handler'[h].client = Null
      BY <1>2 DEF FailStore, NoHandler, IInv, TypeOK
    <2>5. \A g \in Handlers \ {h} : handler'[g].client = handler[g].client
      BY <1>2 DEF FailStore, IInv, TypeOK
    <2>6. \A p \in Syncs : \/ cli'[p] = cli[p]
                           \/ /\ cli'[p].phase \in {"idle", "next"}
                              /\ p = handler[h].client
      BY <1>2, ThroughType DEF FailStore, IInv, TypeOK
    <2>7. \A p \in Syncs, g \in Handlers : p = handler[h].client => handler'[g].client # p
      BY <2>4, <2>5 DEF IInv, OneRequestEach, ConstantsAssumption
    <2>8. AnsweredStored' /\ NothingLost' /\ ClientsWait'
      BY <2>2, <2>3, <2>6, <2>7, NoAnswers
    <2>9. QED
      BY <2>1, <2>2, <2>3, <2>8, DetachedRequests DEF IInv
  <1>3. CASE ServerStop
    <2>1. TypeOK' /\ ChunksOfChunked'
      BY <1>3, ServerType DEF IInv
    <2>2. Keeps /\ UNCHANGED local
      BY <1>3, UnchangedKeeps DEF ServerStop
    <2>3. Detached /\ \A p \in Syncs, h \in Handlers : handler'[h].client # p
      BY <1>3 DEF ServerStop, Detached, NoHandler, ConstantsAssumption
    <2>4. \A p \in Syncs : cli'[p] = cli[p] \/ cli'[p].phase \in {"idle", "next"}
      BY <1>3, ThroughType DEF ServerStop, IInv, TypeOK
    <2>5. AnsweredStored' /\ NothingLost' /\ ClientsWait'
      BY <2>2, <2>3, <2>4, NoAnswers
    <2>6. QED
      BY <2>1, <2>2, <2>3, <2>5, DetachedRequests DEF IInv
  <1>4. CASE Sweep
    <2>1. TypeOK' /\ ChunksOfChunked'
      BY <1>4, ServerType DEF IInv
    <2>2. Keeps /\ UNCHANGED <<local, cli, handler>>
      BY <1>4, SweepKeeps DEF Sweep, IInv
    <2>3. Detached
      BY <2>2 DEF Detached
    <2>4. QED
      BY <2>1, <2>2, <2>3, NoAnswers, DetachedRequests DEF IInv
  <1>5. QED
    BY <1>1, <1>2, <1>3, <1>4

LEMMA ServerKeepsIInv ==
  ASSUME ConstantsAssumption, IInv,
         (\E r \in Results : RunOffline(r)) \/ (\E h \in Handlers : Handle(h))
  PROVE  IInv'
  <1>1. ASSUME NEW r \in Results, RunOffline(r) PROVE IInv'
    <2>1. TypeOK' /\ ChunksOfChunked'
      BY <1>1, ServerType DEF IInv
    <2>2. NothingLost'
      BY <1>1 DEF RunOffline, IInv, NothingLost, TypeOK, Stored, JobIds
    <2>3. QED
      BY <1>1, <2>1, <2>2 DEF RunOffline, IInv, ClientsWait, OneRequestEach, PlaceholdersOpen,
         HandledStored, AnsweredStored, Stored, JobIds
  <1>2. ASSUME NEW h \in Handlers, Store(h) PROVE IInv'
    <2>1. TypeOK' /\ ChunksOfChunked'
      BY <1>2, ServerType DEF IInv, Handle
    <2>2. Keeps /\ UNCHANGED <<local, cli>>
      BY <1>2, StoreKeeps DEF Store, IInv
    <2>3. PICK j \in JobIds :
            /\ j \in StoredThen(handler[h].result)
            /\ handler' = [handler EXCEPT ![h].phase = "stored", ![h].job = j]
      BY <1>2, StoreKeeps DEF IInv
    <2>4. /\ handler'[h].phase = "stored" /\ handler'[h].job = j
          /\ handler'[h].result = handler[h].result /\ handler'[h].client = handler[h].client
          /\ \A g \in Handlers \ {h} : handler'[g] = handler[g]
      BY <2>3 DEF IInv, TypeOK, Handler
    <2>5. ClientsWait' /\ OneRequestEach'
      BY <2>2, <2>4 DEF IInv, ClientsWait, OneRequestEach
    <2>6. \A g \in Handlers : handler'[g].phase = "stored"
                                => handler'[g].job \in StoredThen(handler'[g].result)
      BY <2>2, <2>3, <2>4, KeepsStored DEF IInv, HandledStored
    <2>7. HandledStored'
      BY <2>6 DEF HandledStored, Stored, StoredThen, JobIds
    <2>8. PlaceholdersOpen'
      BY <2>2, <2>4 DEF IInv, PlaceholdersOpen, Keeps, JobIds
    <2>9. \A q \in Syncs : cli[q].phase \in {"answered", "marked"} => StoredThen(cli[q].result) # {}
      BY <2>2, KeepsStored DEF IInv, AnsweredStored
    <2>10. \A r \in Results : local[r] \in {"synced", "deleted"} => StoredThen(r) # {}
      BY <2>2, KeepsStored DEF IInv, NothingLost
    <2>11. AnsweredStored' /\ NothingLost'
      BY <2>2, <2>9, <2>10 DEF AnsweredStored, NothingLost, Stored, StoredThen, JobIds
    <2>12. QED
      BY <2>1, <2>5, <2>7, <2>8, <2>11 DEF IInv
  <1>3. ASSUME NEW h \in Handlers, Finish(h) PROVE IInv'
    <2>1. TypeOK' /\ ChunksOfChunked'
      BY <1>3, ServerType DEF IInv, Handle
    <2>2. Keeps /\ UNCHANGED local
      BY <1>3, FinishKeeps DEF Finish, IInv
    <2>3. Detached /\ handler'[h].client = Null
      BY <1>3 DEF Finish, Detached, NoHandler, IInv, TypeOK
    <2>4. \A g \in Handlers \ {h} : handler'[g] = handler[g]
      BY <1>3 DEF Finish, IInv, TypeOK
    <2>5. CASE handler[h].client = Null
      <3>1. UNCHANGED cli
        BY <1>3, <2>5 DEF Finish
      <3>2. QED
        BY <2>1, <2>2, <2>3, <3>1, NoAnswers, DetachedRequests DEF IInv
    <2>6. CASE handler[h].client # Null
      <3> DEFINE p == handler[h].client
      <3>1. p \in Syncs /\ cli[p] \in Cli
        BY <2>6 DEF IInv, TypeOK, Handler
      <3>2. /\ cli[p].result = handler[h].result
            /\ cli' = [cli EXCEPT ![p] = [cli[p] EXCEPT !.phase = "answered"]]
            /\ [cli[p] EXCEPT !.phase = "answered"].result = cli[p].result
        BY <1>3, <2>6, <3>1 DEF Finish, IInv, ClientsWait, TypeOK, Cli
      <3>3. StoredThen(cli[p].result) # {}
        BY <1>3, <2>2, <3>2, KeepsStored DEF Finish, IInv, HandledStored
      <3>4. AnsweredStored' /\ NothingLost'
        BY <2>2, <3>1, <3>2, <3>3, OthersKept
      <3>5. \A g \in Handlers : handler'[g].client # p
        BY <2>3, <2>4, <2>6 DEF IInv, OneRequestEach
      <3>6. ClientsWait'
        BY <2>3, <2>4, <3>1, <3>2, <3>5 DEF IInv, ClientsWait, TypeOK, Handler
      <3>7. QED
        BY <2>1, <2>2, <2>3, <3>4, <3>6, DetachedRequests DEF IInv
    <2>7. QED
      BY <2>5, <2>6
  <1>4. QED
    BY <1>1, <1>2, <1>3 DEF Handle

-----------------------------------------------------------------------------
LEMMA InitIInv ==
  ASSUME ConstantsAssumption, Init
  PROVE  IInv
  <1>1. NoJob \in Job
    BY DEF NoJob, Job
  <1>2. TypeOK
    BY <1>1, NoCliType, NoHandlerType DEF Init, TypeOK, ConstantsAssumption
  <1>3. QED
    BY <1>2 DEF Init, IInv, NoCli, NoHandler, ChunksOfChunked, ClientsWait, OneRequestEach,
       PlaceholdersOpen, HandledStored, AnsweredStored, NothingLost

LEMMA NextIInv ==
  ASSUME ConstantsAssumption, IInv, [Next]_vars
  PROVE  IInv'
  <1>1. CASE UNCHANGED vars
    BY <1>1 DEF vars, IInv, TypeOK, ChunksOfChunked, ClientsWait, OneRequestEach, PlaceholdersOpen,
       HandledStored, AnsweredStored, NothingLost, Stored, JobIds, Job, Cli, Handler
  <1>2. CASE Next
    BY <1>2, SyncKeepsIInv, FaultKeepsIInv, ServerKeepsIInv DEF Next
  <1>3. QED
    BY <1>1, <1>2

(* Every variable has its type, for all constants.                         *)
THEOREM TypeCorrect == ConstantsAssumption /\ Spec => []TypeOK
  <1> SUFFICES ASSUME ConstantsAssumption PROVE Spec => []TypeOK
    OBVIOUS
  <1>1. Init => IInv
    BY InitIInv
  <1>2. IInv /\ [Next]_vars => IInv'
    BY NextIInv
  <1>3. IInv => TypeOK
    BY DEF IInv
  <1>4. QED
    BY <1>1, <1>2, <1>3, PTL DEF Spec

(* No file of an offline result is flagged or deleted before its result is *)
(* on the server, for any number of syncs, requests and faults.            *)
THEOREM NoResultLost == ConstantsAssumption /\ Spec => []NothingLost
  <1> SUFFICES ASSUME ConstantsAssumption PROVE Spec => []NothingLost
    OBVIOUS
  <1>1. Init => IInv
    BY InitIInv
  <1>2. IInv /\ [Next]_vars => IInv'
    BY NextIInv
  <1>3. IInv => NothingLost
    BY DEF IInv
  <1>4. QED
    BY <1>1, <1>2, <1>3, PTL DEF Spec

-----------------------------------------------------------------------------
(* Stored once: where the server handles one upload at a time and is not   *)
(* stopped between its two commits, a result that is stored and not noted  *)
(* is the one that the request at hand has just stored.                    *)

OneUpload == ~ Stops /\ \A h, g \in Handlers : h = g

UnnotedAtHand == \A j \in JobIds :
  jobs[j].state = "COMPLETED" /\ ~ jobs[j].noted
    => \E h \in Handlers : handler[h].phase = "stored" /\ handler[h].job = j

LoadedAreNew == \A h \in Handlers : handler[h].phase = "loaded" => Stored(handler[h].result) = {}

Once == \A j, k \in JobIds :
  /\ jobs[j].state = "COMPLETED" /\ jobs[k].state = "COMPLETED"
  /\ jobs[j].result = jobs[k].result
  => j = k

OnceInv == IInv /\ UnnotedAtHand /\ LoadedAreNew /\ Once

LEMMA OnceIsStoredOnce ==
  ASSUME Once
  PROVE  StoredOnce
  <1>1. ASSUME NEW r \in Results PROVE Cardinality(Stored(r)) <= 1
    <2>1. CASE Stored(r) = {}
      BY <2>1, FS_EmptySet
    <2>2. CASE Stored(r) # {}
      <3>1. PICK j : j \in Stored(r)
        BY <2>2
      <3>2. Stored(r) = {j}
        BY <3>1 DEF Once, Stored
      <3>3. QED
        BY <3>2, FS_Singleton
    <2>3. QED
      BY <2>1, <2>2
  <1>2. QED
    BY <1>1 DEF StoredOnce

(* A step that stores and notes nothing.                                   *)
LEMMA NothingStored ==
  ASSUME OnceInv, IInv',
         \A j \in JobIds : jobs'[j].state = "COMPLETED" =>
           /\ jobs[j].state = "COMPLETED" /\ jobs'[j].result = jobs[j].result
           /\ jobs'[j].noted = jobs[j].noted,
         \A h \in Handlers :
           \/ /\ handler'[h].phase = handler[h].phase /\ handler'[h].job = handler[h].job
              /\ handler'[h].result = handler[h].result
           \/ handler[h].phase # "stored" /\ handler'[h].phase = "idle"
           \/ /\ handler[h].phase = "idle" /\ handler'[h].phase = "loaded"
              /\ Stored(handler'[h].result) = {}
  PROVE  OnceInv'
  <1>1. \A r : {j \in JobIds : jobs'[j].result = r /\ jobs'[j].state = "COMPLETED"} \subseteq Stored(r)
    BY DEF Stored
  <1>2. LoadedAreNew'
    BY <1>1 DEF OnceInv, LoadedAreNew, Stored, JobIds
  <1>3. UnnotedAtHand'
    BY DEF OnceInv, UnnotedAtHand, JobIds
  <1>4. Once'
    BY DEF OnceInv, Once, JobIds
  <1>5. QED
    BY <1>2, <1>3, <1>4 DEF OnceInv

LEMMA ReceiveOnce ==
  ASSUME ConstantsAssumption, OneUpload, OnceInv, IInv', NEW p \in Syncs, NEW h \in Handlers,
         Receive(p, h)
  PROVE  OnceInv'
  <1> DEFINE r == cli[p].result
  <1>1. handler[h].phase = "idle" /\ UNCHANGED jobs
    BY DEF Receive, NoHandler
  <1>2. CASE UNCHANGED handler
    BY <1>1, <1>2, NothingStored
  <1>3. CASE ~ UNCHANGED handler
    <2>1. ~ AlreadyUploaded(r) /\ \E j : handler' = [handler EXCEPT ![h] =
              [phase |-> "loaded", client |-> p, result |-> r, placeholder |-> j, job |-> 0]]
      BY <1>3 DEF Receive
    <2>2. \A j \in JobIds : jobs[j].state = "COMPLETED" => jobs[j].noted
      BY <1>1 DEF OnceInv, UnnotedAtHand, OneUpload
    <2>3. Stored(r) = {}
      BY <2>1, <2>2 DEF AlreadyUploaded, Noted, Stored
    <2>4. handler'[h].phase = "loaded" /\ handler'[h].result = r
      BY <2>1 DEF OnceInv, IInv, TypeOK
    <2>5. QED
      BY <1>1, <2>3, <2>4, NothingStored DEF OneUpload
  <1>4. QED
    BY <1>2, <1>3

LEMMA StoreOnce ==
  ASSUME ConstantsAssumption, OneUpload, OnceInv, IInv', NEW h \in Handlers, Store(h)
  PROVE  OnceInv'
  <1>1. handler[h].phase = "loaded" /\ Stored(handler[h].result) = {}
    BY DEF Store, OnceInv, LoadedAreNew
  <1>2. PICK j \in JobIds :
          /\ jobs[j].state = "none"
          /\ jobs' = [k \in JobIds |->
               CASE k = j -> [state |-> "COMPLETED", result |-> handler[h].result, noted |-> FALSE]
                 [] k = handler[h].placeholder -> [jobs[k] EXCEPT !.state = "deleted"]
                 [] OTHER -> jobs[k]]
          /\ handler' = [handler EXCEPT ![h].phase = "stored", ![h].job = j]
    BY FreshType DEF Store
  <1>3. /\ jobs'[j].state = "COMPLETED" /\ jobs'[j].result = handler[h].result
        /\ \A k \in JobIds \ {j} : jobs'[k].state = "COMPLETED" => jobs'[k] = jobs[k]
    <2>1. \A k \in JobIds \ {j} : \/ jobs'[k] = [jobs[k] EXCEPT !.state = "deleted"]
                                  \/ jobs'[k] = jobs[k]
      BY <1>2
    <2>2. \A k \in JobIds : [jobs[k] EXCEPT !.state = "deleted"].state = "deleted"
      BY DEF OnceInv, IInv, TypeOK, Job
    <2>3. jobs'[j] = [state |-> "COMPLETED", result |-> handler[h].result, noted |-> FALSE]
      <3>1. j # handler[h].placeholder
        BY <1>1, <1>2 DEF OnceInv, IInv, PlaceholdersOpen
      <3>2. QED
        BY <1>2, <3>1
    <2>4. jobs'[j].state = "COMPLETED" /\ jobs'[j].result = handler[h].result
      BY <2>3
    <2>5. QED
      BY <2>1, <2>2, <2>4
  <1>4. handler'[h].phase = "stored" /\ handler'[h].job = j
    BY <1>2 DEF OnceInv, IInv, TypeOK, Handler
  <1>5. \A k \in JobIds : jobs[k].state = "COMPLETED" => jobs[k].noted
    BY <1>1 DEF OnceInv, UnnotedAtHand, OneUpload
  <1>6. Once'
    BY <1>1, <1>3 DEF OnceInv, Once, Stored, JobIds
  <1>7. UnnotedAtHand'
    BY <1>3, <1>4, <1>5 DEF UnnotedAtHand, JobIds
  <1>8. LoadedAreNew'
    BY <1>4 DEF LoadedAreNew, OneUpload
  <1>9. QED
    BY <1>6, <1>7, <1>8 DEF OnceInv

LEMMA FinishOnce ==
  ASSUME ConstantsAssumption, OneUpload, OnceInv, IInv', NEW h \in Handlers, Finish(h)
  PROVE  OnceInv'
  <1>1. handler[h].phase = "stored" /\ handler[h].job \in JobIds
    BY DEF Finish, OnceInv, IInv, HandledStored, Stored
  <1>2. jobs' = [jobs EXCEPT ![handler[h].job] = [jobs[handler[h].job] EXCEPT !.noted = TRUE]]
    BY DEF Finish, Note
  <1>3. \A j \in JobIds : /\ jobs'[j].state = jobs[j].state /\ jobs'[j].result = jobs[j].result
                          /\ jobs'[j].noted = (jobs[j].noted \/ j = handler[h].job)
    <2>1. \A j \in JobIds : jobs[j] \in Job
      BY DEF OnceInv, IInv, TypeOK
    <2>2. \A j \in JobIds : LET done == [jobs[j] EXCEPT !.noted = TRUE]
                            IN done.state = jobs[j].state /\ done.result = jobs[j].result /\ done.noted = TRUE
      BY <2>1 DEF Job
    <2>3. \A j \in JobIds : jobs'[j] = IF j = handler[h].job THEN [jobs[j] EXCEPT !.noted = TRUE]
                                       ELSE jobs[j]
      BY <1>1, <1>2 DEF OnceInv, IInv, TypeOK
    <2>4. \A j \in JobIds : jobs[j].noted \in BOOLEAN
      BY <2>1 DEF Job
    <2>5. QED
      BY <2>2, <2>3, <2>4
  <1>4. \A j \in JobIds : jobs[j].state = "COMPLETED" /\ ~ jobs[j].noted => j = handler[h].job
    BY DEF OnceInv, UnnotedAtHand, OneUpload
  <1>5. UnnotedAtHand'
    BY <1>3, <1>4 DEF UnnotedAtHand, JobIds
  <1>6. Once'
    BY <1>3 DEF OnceInv, Once, JobIds
  <1>7. LoadedAreNew'
    BY DEF Finish, LoadedAreNew, OneUpload, OnceInv, IInv, TypeOK, NoHandler
  <1>8. QED
    BY <1>5, <1>6, <1>7 DEF OnceInv

LEMMA StepOnce ==
  ASSUME ConstantsAssumption, OneUpload, OnceInv, [Next]_vars
  PROVE  OnceInv'
  <1>1. IInv'
    BY NextIInv DEF OnceInv
  <1>2. CASE UNCHANGED vars \/ \E r \in Results : RunOffline(r)
    BY <1>1, <1>2, NothingStored DEF vars, RunOffline
  <1>3. ASSUME NEW p \in Syncs,
               StartSync(p) \/ Prepare(p) \/ SendChunks(p) \/ MarkSynced(p) \/ DeleteFile(p)
        PROVE  OnceInv'
    <2>1. UNCHANGED handler
      BY <1>3 DEF StartSync, Prepare, SendChunks, MarkSynced, DeleteFile
    <2>2. ASSUME NEW j \in JobIds PROVE jobs'[j] = jobs[j] \/ jobs'[j].state = "ASSIGNED"
      <3>1. CASE UNCHANGED jobs
        BY <3>1
      <3>2. CASE \E r : jobs' = [jobs EXCEPT ![j] = [state |-> "ASSIGNED", result |-> r, noted |-> TRUE]]
        BY <3>2 DEF OnceInv, IInv, TypeOK
      <3>3. CASE \E k, r : k # j /\
                   jobs' = [jobs EXCEPT ![k] = [state |-> "ASSIGNED", result |-> r, noted |-> TRUE]]
        BY <3>3 DEF OnceInv, IInv, TypeOK
      <3>4. CASE Prepare(p)
        <4>1. \/ UNCHANGED jobs
              \/ \E k, r : jobs' = [jobs EXCEPT ![k] =
                                     [state |-> "ASSIGNED", result |-> r, noted |-> TRUE]]
          BY <3>4 DEF Prepare
        <4>2. QED
          BY <3>1, <3>2, <3>3, <4>1
      <3>5. QED
        BY <1>3, <3>1, <3>4 DEF StartSync, SendChunks, MarkSynced, DeleteFile
    <2>3. QED
      BY <1>1, <2>1, <2>2, NothingStored
  <1>4. ASSUME NEW p \in Syncs, Lose(p) \/ Kill(p) PROVE OnceInv'
    <2>1. UNCHANGED jobs /\ handler' = Forget(p)
      BY <1>4 DEF Lose, Kill
    <2>2. \A h \in Handlers :
            /\ handler'[h].phase = handler[h].phase /\ handler'[h].job = handler[h].job
            /\ handler'[h].result = handler[h].result
      BY <2>1 DEF Forget, OnceInv, IInv, TypeOK, Handler
    <2>3. QED
      BY <1>1, <2>1, <2>2, NothingStored
  <1>5. ASSUME NEW h \in Handlers, FailStore(h) PROVE OnceInv'
    <2>1. UNCHANGED jobs /\ handler[h].phase = "loaded" /\ handler'[h].phase = "idle"
      BY <1>5 DEF FailStore, OnceInv, IInv, TypeOK, NoHandler
    <2>2. QED
      BY <1>1, <2>1, NothingStored DEF OneUpload
  <1>6. CASE Sweep
    <2>1. UNCHANGED handler
      BY <1>6 DEF Sweep
    <2>2. ASSUME NEW j \in JobIds PROVE jobs'[j] = jobs[j] \/ jobs'[j].state = "released"
      BY <1>6 DEF Sweep, OnceInv, IInv, TypeOK, Job
    <2>3. QED
      BY <1>1, <2>1, <2>2, NothingStored
  <1>7. ~ ServerStop
    BY DEF ServerStop, OneUpload
  <1>8. QED
    BY <1>1, <1>2, <1>3, <1>4, <1>5, <1>6, <1>7, ReceiveOnce, StoreOnce, FinishOnce
       DEF Next, Sync, Handle

(* With one upload handled at a time and no stop of the server, a result   *)
(* is stored once, however many sync commands run, are killed and repeat   *)
(* what they lost the answer of.                                           *)
THEOREM AlwaysStoredOnce == ConstantsAssumption /\ OneUpload /\ Spec => []StoredOnce
  <1> SUFFICES ASSUME ConstantsAssumption, OneUpload
               PROVE  Spec => []StoredOnce
    OBVIOUS
  <1>1. Init => OnceInv
    BY InitIInv DEF Init, OnceInv, UnnotedAtHand, LoadedAreNew, Once, NoJob, NoHandler
  <1>2. OnceInv /\ [Next]_vars => OnceInv'
    BY StepOnce
  <1>3. OnceInv => StoredOnce
    BY OnceIsStoredOnce DEF OnceInv
  <1>4. QED
    BY <1>1, <1>2, <1>3, PTL DEF Spec

=============================================================================
