--------------------------- MODULE ChunkedUpload ---------------------------
(***************************************************************************)
(* The chunked upload of a job's results: the agent's client, which sends  *)
(* one request at a time and gives up on it after a timeout, and the       *)
(* server's worker processes, each with upload sessions and finalized      *)
(* contents of its own in memory, and one directory of temporary files.    *)
(*                                                                         *)
(* An upload is named by the order in which its session was created (the   *)
(* code draws random identifiers).  A request that was given up on may     *)
(* still be handled later.                                                 *)
(***************************************************************************)
EXTENDS Naturals, FiniteSets

CONSTANTS
  Workers,     \* the server's worker processes
  Parts,       \* number of contents uploaded before the completion: results, report
  Chunks,      \* total_chunks of a content
  MaxRetries,  \* ChunkedUploadClient: attempts per chunk
  Expiry,      \* a session may get older than SESSION_TTL_HOURS
  Restarts,    \* a worker may be restarted
  MaxUploads   \* bound: sessions ever created

ConstantsAssumption ==
  /\ Parts \in Nat \ {0}
  /\ Chunks \in Nat \ {0}
  /\ MaxRetries \in Nat \ {0}
  /\ {Expiry, Restarts} \subseteq BOOLEAN
  /\ MaxUploads \in Nat

VARIABLES
  sessions,   \* sessions[w]: open sessions in the memory of w
  chunks,     \* chunks[u]: indices received for u
  expired,    \* sessions whose expires_at has passed
  finalized,  \* finalized[w]: contents w holds for a completion to consume
  files,      \* sessions with a directory of temporary files
  created,    \* the number of sessions created so far
  client,     \* the agent's executor, sending results
  late,       \* requests given up on by the client that may still be handled
  job         \* the job on the server: "held", "COMPLETED" or "FAILED"

vars == <<sessions, chunks, expired, finalized, files, created, client, late, job>>
memory == <<sessions, chunks, expired, finalized, files, created>>

Uploads == 1 .. MaxUploads
ChunkIds == 1 .. Chunks

Request == [op: {"initiate", "chunk", "finalize", "complete", "fail"},
            ids: [1 .. Parts -> Uploads \cup {0}],   \* uploads finalized so far
            upload: Uploads \cup {0}, chunk: ChunkIds \cup {0}]

(* The client waits for the answer to its request, or is through.  part is *)
(* the content being uploaded, attempt counts the requests for a chunk.    *)
Client == [request: Request, part: 1 .. Parts + 1, attempt: 0 .. MaxRetries - 1,
           phase: {"waiting", "done", "failed"}, refused: BOOLEAN]

Ask(op, ids, u, k) == [op |-> op, ids |-> ids, upload |-> u, chunk |-> k]
NoIds == [p \in 1 .. Parts |-> 0]

TypeOK == /\ sessions \in [Workers -> SUBSET Uploads]
          /\ chunks \in [Uploads -> SUBSET ChunkIds]
          /\ expired \subseteq Uploads
          /\ finalized \in [Workers -> SUBSET Uploads]
          /\ files \subseteq Uploads
          /\ created \in 0 .. MaxUploads
          /\ client \in Client
          /\ late \subseteq Request
          /\ job \in {"held", "COMPLETED", "FAILED"}

Init == /\ sessions = [w \in Workers |-> {}]
        /\ chunks = [u \in Uploads |-> {}]
        /\ expired = {}
        /\ finalized = [w \in Workers |-> {}]
        /\ files = {}
        /\ created = 0
        /\ client = [request |-> Ask("initiate", NoIds, 0, 0), part |-> 1, attempt |-> 0,
                     phase |-> "waiting", refused |-> FALSE]
        /\ late = {}
        /\ job = "held"

-----------------------------------------------------------------------------
(* The client.                                                             *)

(* Whatever goes wrong ends in one attempt to report the failure.          *)
Fail(c) == [c EXCEPT !.request = Ask("fail", NoIds, 0, 0), !.attempt = 0]

(* What follows request r when it is answered with success; u is the new   *)
(* upload that an initiation returns.                                      *)
Succeed(c, u) ==
  LET r == c.request
      ids == [r.ids EXCEPT ![c.part] = r.upload]
  IN CASE r.op = "initiate" -> [c EXCEPT !.request = Ask("chunk", r.ids, u, 1)]
       [] r.op = "chunk" ->
            [c EXCEPT !.attempt = 0,
                      !.request = IF r.chunk < Chunks
                                  THEN Ask("chunk", r.ids, r.upload, r.chunk + 1)
                                  ELSE Ask("finalize", r.ids, r.upload, 0)]
       [] r.op = "finalize" ->
            [c EXCEPT !.part = c.part + 1,
                      !.request = IF c.part < Parts THEN Ask("initiate", ids, 0, 0)
                                                    ELSE Ask("complete", ids, 0, 0)]
       [] r.op = "complete" -> [c EXCEPT !.phase = "done"]
       [] r.op = "fail" -> [c EXCEPT !.phase = "failed"]

(* An error status is never retried.                                       *)
Refused(c) == IF c.request.op = "fail" THEN [c EXCEPT !.phase = "failed"]
              ELSE Fail([c EXCEPT !.refused = TRUE])

(* Mutant: one attempt more than the maximum.                              *)
GiveUpLate(c) ==
  CASE c.request.op = "fail" -> [c EXCEPT !.phase = "failed"]
    [] c.request.op = "chunk" /\ c.attempt < MaxRetries -> [c EXCEPT !.attempt = c.attempt + 1]
    [] OTHER -> Fail(c)

(* Mutant: after the last attempt the count starts over.                   *)
NeverGiveUp(c) ==
  CASE c.request.op = "fail" -> [c EXCEPT !.phase = "failed"]
    [] c.request.op = "chunk" -> [c EXCEPT !.attempt = (c.attempt + 1) % MaxRetries]
    [] OTHER -> Fail(c)

(* Only a chunk is sent again after a timeout.                             *)
GiveUp(c) ==
  CASE c.request.op = "fail" -> [c EXCEPT !.phase = "failed"]
    [] c.request.op = "chunk" /\ c.attempt + 1 < MaxRetries ->
         [c EXCEPT !.attempt = c.attempt + 1]
    [] OTHER -> Fail(c)

(* The request is lost, is handled later, or its answer does not arrive    *)
(* (Handled, below, with arrives = FALSE).                                 *)
TimeOut == /\ client.phase = "waiting"
           /\ \E held \in {{}, {client.request}} : late' = late \cup held
           /\ client' = GiveUp(client)
           /\ UNCHANGED <<memory, job>>

(* The client after request r has been answered with c                     *)
Answer(r, c) == \/ /\ client.phase = "waiting"
                   /\ client.request = r
                   /\ client' = c
                   /\ late' = late
                \/ /\ client.phase = "waiting"    \* the answer is lost
                   /\ client.request = r
                   /\ client' = GiveUp(client)
                   /\ late' = late
                \/ /\ r \in late
                   /\ client' = client
                   /\ late' = late \ {r}

Requests == late \cup (IF client.phase = "waiting" THEN {client.request} ELSE {})

-----------------------------------------------------------------------------
(* The server: a request goes to any worker.                               *)

(* _cleanup_session                                                        *)
Cleanup(w, u) == /\ sessions' = [sessions EXCEPT ![w] = @ \ {u}]
                 /\ files' = files \ {u}

InitiateUpload(w, r) ==
  /\ r.op = "initiate"
  /\ created < MaxUploads
  /\ created' = created + 1
  /\ sessions' = [sessions EXCEPT ![w] = @ \cup {created + 1}]
  /\ files' = files \cup {created + 1}
  /\ Answer(r, Succeed(client, created + 1))
  /\ UNCHANGED <<chunks, expired, finalized, job>>

(* validate_session: an unknown session is refused, an expired one removed *)
(* as well; so is a finalization with chunks missing (one whose checksum   *)
(* or content is wrong is left out: the client takes it as any refusal).   *)
RefuseUpload(w, r) ==
  /\ r.op \in {"chunk", "finalize"}
  /\ \/ /\ r.upload \notin sessions[w]
        /\ UNCHANGED <<sessions, files>>
     \/ /\ r.upload \in sessions[w] \cap expired
        /\ Cleanup(w, r.upload)
     \/ /\ r.op = "finalize"
        /\ r.upload \in sessions[w] \ expired
        /\ chunks[r.upload] # ChunkIds
        /\ UNCHANGED <<sessions, files>>
  /\ Answer(r, Refused(client))
  /\ UNCHANGED <<chunks, expired, finalized, created, job>>

(* A chunk that is received again with the same content is acknowledged.   *)
Accepts(u, k) == TRUE

UploadChunk(w, r) ==
  /\ r.op = "chunk"
  /\ r.upload \in sessions[w] \ expired
  /\ IF Accepts(r.upload, r.chunk)
     THEN /\ chunks' = [chunks EXCEPT ![r.upload] = @ \cup {r.chunk}]
          /\ Answer(r, Succeed(client, 0))
     ELSE /\ chunks' = chunks
          /\ Answer(r, Refused(client))
  /\ UNCHANGED <<sessions, expired, finalized, files, created, job>>

(* Mutant: the session stays open for another finalization.                *)
KeepSession(w, u) == UNCHANGED <<sessions, files>>

(* finalize_upload ends the session and keeps the content in memory.       *)
EndSession(w, u) == Cleanup(w, u)

FinalizeUpload(w, r) ==
  /\ r.op = "finalize"
  /\ r.upload \in sessions[w] \ expired
  /\ chunks[r.upload] = ChunkIds
  /\ finalized' = [finalized EXCEPT ![w] = @ \cup {r.upload}]
  /\ EndSession(w, r.upload)
  /\ Answer(r, Succeed(client, 0))
  /\ UNCHANGED <<chunks, expired, created, job>>

(* Mutant: contents are read and stay in memory.                           *)
TakeNothing(w, ids) == {}

(* What _resolve_upload_ids takes from memory: the contents in order, as   *)
(* far as they are there.                                                  *)
Taken(w, ids) == {ids[p] : p \in {q \in 1 .. Parts : \A k \in 1 .. q : ids[k] \in finalized[w]}}
Resolved(w, ids) == \A p \in 1 .. Parts : ids[p] \in finalized[w]

(* complete_job: the contents are taken before the transaction is known to *)
(* succeed (commits = FALSE: it does not).                                 *)
CompleteJob(w, r) ==
  /\ r.op = "complete"
  /\ job = "held"
  /\ finalized' = [finalized EXCEPT ![w] = @ \ Taken(w, r.ids)]
  /\ \E commits \in BOOLEAN :
       IF commits /\ Resolved(w, r.ids)
       THEN job' = "COMPLETED" /\ Answer(r, Succeed(client, 0))
       ELSE /\ job' = job
            /\ Answer(r, IF Resolved(w, r.ids) THEN Fail(client) ELSE Refused(client))
  /\ UNCHANGED <<sessions, chunks, expired, files, created>>

FailJob(w, r) == /\ r.op = "fail"
                 /\ job = "held"
                 /\ job' = "FAILED"
                 /\ Answer(r, Succeed(client, 0))
                 /\ UNCHANGED memory

(* The job is settled already.                                             *)
RefuseReport(w, r) == /\ r.op \in {"complete", "fail"}
                      /\ job # "held"
                      /\ Answer(r, Refused(client))
                      /\ UNCHANGED <<memory, job>>

Handled == \E w \in Workers, r \in Requests :
             \/ InitiateUpload(w, r) \/ RefuseUpload(w, r) \/ UploadChunk(w, r)
             \/ FinalizeUpload(w, r) \/ CompleteJob(w, r) \/ FailJob(w, r)
             \/ RefuseReport(w, r)

-----------------------------------------------------------------------------
(* Time and restarts.                                                      *)

Expire == /\ Expiry
          /\ \E w \in Workers : \E u \in sessions[w] \ expired : expired' = expired \cup {u}
          /\ UNCHANGED <<sessions, chunks, finalized, files, created, client, late, job>>

(* A worker forgets its memory; the temporary files stay on the disk.      *)
Restart == /\ Restarts
           /\ \E w \in Workers : /\ sessions' = [sessions EXCEPT ![w] = {}]
                                 /\ finalized' = [finalized EXCEPT ![w] = {}]
           /\ UNCHANGED <<chunks, expired, files, created, client, late, job>>

Done == /\ client.phase # "waiting"
        /\ UNCHANGED vars

Next == TimeOut \/ Handled \/ Expire \/ Restart \/ Done

Spec == Init /\ [][Next]_vars

(* A client's request is answered or times out, and the client goes on.    *)
FairSpec == Spec /\ WF_client(TimeOut \/ Handled)

-----------------------------------------------------------------------------
(* Properties.                                                             *)

Open == UNION {sessions[w] : w \in Workers}
Kept == UNION {finalized[w] : w \in Workers}

(* An upload is in one place: open in one worker, or finalized in one, and *)
(* nothing that is finalized is open for more chunks or for another        *)
(* finalization, whatever arrives late or twice.                           *)
OneStage ==
  /\ Open \cap Kept = {}
  /\ \A v, w \in Workers : v # w => /\ sessions[v] \cap sessions[w] = {}
                                    /\ finalized[v] \cap finalized[w] = {}

(* A completed job was given every content in full: all chunks of as many  *)
(* different uploads, none of which can be consumed again.                 *)
ConsumedWhole ==
  client.phase = "done" =>
    /\ job = "COMPLETED"
    /\ \A p \in 1 .. Parts : LET u == client.request.ids[p]
                             IN chunks[u] = ChunkIds /\ u \notin Open \cup Kept
    /\ \A p, q \in 1 .. Parts : p # q => client.request.ids[p] # client.request.ids[q]

(* The server never refuses what a client of this protocol sends: chunks   *)
(* that were sent twice, late ones, finalizations and completions.         *)
(* "Module-level storage (shared across all service instances)",           *)
(* chunked_upload_service.py:50.                                           *)
NeverRefused == ~client.refused

(* Temporary files belong to an open session.                              *)
NoOrphanFiles == files \subseteq Open

(* The client comes to an end, whatever is lost: no retry goes on for ever. *)
Settled == client.phase # "waiting"
ClientSettles == <>Settled

(* "Sessions and temp files are cleaned up on expiration",                 *)
(* chunked_upload_service.py:145.                                          *)
ExpiredAreCleaned == \A u \in Uploads : (u \in expired) ~> (u \notin files)
=============================================================================
