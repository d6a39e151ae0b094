------------------------ MODULE ChunkedUploadProofs ------------------------
(* An upload is created once, in one worker, and is open, kept or gone:    *)
(* what a completion consumes was received in full, and nobody finds it    *)
(* again.                                                                  *)
EXTENDS ChunkedUpload, TLAPS

(* How far a client c has come, when n uploads were created: the contents  *)
(* before the one it sends have uploads of their own.                      *)
Asks(r, n) == /\ r.op = "chunk" => r.chunk \in ChunkIds
              /\ r.op \in {"chunk", "finalize"} => r.upload \in 1 .. n
Earlier(c) == {p \in 1 .. Parts : p < c.part}
Progress(c, n) ==
  /\ Asks(c.request, n)
  /\ c.request.op \in {"initiate", "chunk", "finalize"} => c.part \in 1 .. Parts
  /\ c.request.op = "complete" => c.part = Parts + 1
  /\ c.request.op # "fail" =>
       /\ \A p \in Earlier(c) : c.request.ids[p] \in 1 .. n
       /\ \A p, q \in Earlier(c) : p # q => c.request.ids[p] # c.request.ids[q]
  /\ c.request.op \in {"chunk", "finalize"} => \A p \in Earlier(c) : c.request.ids[p] # c.request.upload
  /\ c.phase = "done" => c.request.op = "complete"

(* Uploads that a completion has consumed.                                 *)
Consumed == IF client.phase = "done" THEN {client.request.ids[p] : p \in 1 .. Parts} ELSE {}

IInv == /\ TypeOK
        /\ Progress(client, created)
        /\ \A r \in late : Asks(r, created)
        /\ \A w \in Workers : sessions[w] \cup finalized[w] \subseteq 1 .. created
        /\ OneStage
        /\ \A u \in Kept \cup Consumed : chunks[u] = ChunkIds
        /\ Consumed \cap (Open \cup Kept) = {}
        /\ client.phase = "done" => job = "COMPLETED"

-----------------------------------------------------------------------------
(* The client.                                                             *)

LEMMA ConstantsFit ==
  ASSUME ConstantsAssumption
  PROVE  /\ Parts \in Nat /\ Parts >= 1 /\ Chunks \in Nat /\ Chunks >= 1
         /\ MaxRetries \in Nat /\ MaxRetries >= 1 /\ MaxUploads \in Nat
         /\ 1 \in ChunkIds /\ NoIds \in [1 .. Parts -> Uploads \cup {0}]
  BY DEF ConstantsAssumption, ChunkIds, NoIds

LEMMA AskFits ==
  ASSUME NEW op \in {"initiate", "chunk", "finalize", "complete", "fail"},
         NEW ids \in [1 .. Parts -> Uploads \cup {0}],
         NEW u \in Uploads \cup {0}, NEW k \in ChunkIds \cup {0}
  PROVE  LET r == Ask(op, ids, u, k)
         IN r \in Request /\ r.op = op /\ r.ids = ids /\ r.upload = u /\ r.chunk = k
  BY DEF Ask, Request

(* The shapes in which the client is changed.                              *)
LEMMA RequestFits ==
  ASSUME NEW c \in Client, NEW r \in Request
  PROVE  LET d == [c EXCEPT !.request = r]
         IN d \in Client /\ d.request = r /\ d.part = c.part /\ d.phase = c.phase
            /\ d.attempt = c.attempt
  BY DEF Client

LEMMA AttemptFits ==
  ASSUME NEW c \in Client, NEW k \in 0 .. MaxRetries - 1
  PROVE  LET d == [c EXCEPT !.attempt = k]
         IN d \in Client /\ d.request = c.request /\ d.part = c.part /\ d.phase = c.phase
  BY DEF Client

LEMMA PartFits ==
  ASSUME NEW c \in Client, NEW k \in 1 .. Parts + 1
  PROVE  LET d == [c EXCEPT !.part = k]
         IN d \in Client /\ d.request = c.request /\ d.part = k /\ d.phase = c.phase
  BY DEF Client

LEMMA PhaseFits ==
  ASSUME NEW c \in Client, NEW x \in {"waiting", "done", "failed"}
  PROVE  LET d == [c EXCEPT !.phase = x]
         IN d \in Client /\ d.request = c.request /\ d.part = c.part /\ d.phase = x
  BY DEF Client

LEMMA FailFits ==
  ASSUME ConstantsAssumption, NEW c \in Client, c.phase = "waiting", NEW n
  PROVE  Fail(c) \in Client /\ Progress(Fail(c), n) /\ Fail(c).phase = "waiting"
  <1> DEFINE r == Ask("fail", NoIds, 0, 0)
             d == [c EXCEPT !.request = r]
             e == [d EXCEPT !.attempt = 0]
  <1>1. r \in Request /\ r.op = "fail"
    BY ConstantsFit DEF Ask, Request
  <1> HIDE DEF r
  <1>2. d \in Client /\ d.request = r /\ d.phase = "waiting"
    BY <1>1, RequestFits
  <1>3. e = Fail(c)
    BY DEF Fail, r, Client
  <1> HIDE DEF d
  <1>4. 0 \in 0 .. MaxRetries - 1
    BY ConstantsFit
  <1>5. e \in Client /\ e.request = r /\ e.phase = "waiting"
    BY <1>2, <1>4, AttemptFits
  <1> HIDE DEF e
  <1>6. Progress(e, n)
    BY <1>1, <1>5 DEF Progress, Asks
  <1>7. QED
    BY <1>3, <1>5, <1>6

LEMMA RefusedFits ==
  ASSUME ConstantsAssumption, NEW c \in Client, c.phase = "waiting", NEW n, Progress(c, n)
  PROVE  Refused(c) \in Client /\ Progress(Refused(c), n) /\ Refused(c).phase # "done"
  <1>1. CASE c.request.op = "fail"
    <2> DEFINE d == [c EXCEPT !.phase = "failed"]
    <2>1. d \in Client /\ d.request = c.request /\ d.part = c.part /\ d.phase = "failed"
      BY PhaseFits
    <2>2. d = Refused(c)
      BY <1>1 DEF Refused
    <2> HIDE DEF d
    <2>3. Progress(d, n)
      BY <1>1, <2>1 DEF Progress, Earlier
    <2>4. QED
      BY <2>1, <2>2, <2>3
  <1>2. CASE c.request.op # "fail"
    <2> DEFINE d == [c EXCEPT !.refused = TRUE]
    <2>1. d \in Client /\ d.phase = "waiting" /\ Refused(c) = Fail(d)
      BY <1>2 DEF Client, Refused
    <2> HIDE DEF d
    <2>2. QED
      BY <2>1, FailFits
  <1>3. QED
    BY <1>1, <1>2

LEMMA GiveUpFits ==
  ASSUME ConstantsAssumption, NEW c \in Client, c.phase = "waiting", NEW n, Progress(c, n)
  PROVE  GiveUp(c) \in Client /\ Progress(GiveUp(c), n) /\ GiveUp(c).phase # "done"
  <1>1. CASE c.request.op = "fail"
    <2> DEFINE d == [c EXCEPT !.phase = "failed"]
    <2>1. d \in Client /\ d.request = c.request /\ d.part = c.part /\ d.phase = "failed"
      BY PhaseFits
    <2>2. d = GiveUp(c)
      BY <1>1 DEF GiveUp
    <2> HIDE DEF d
    <2>3. Progress(d, n)
      BY <1>1, <2>1 DEF Progress, Earlier
    <2>4. QED
      BY <2>1, <2>2, <2>3
  <1>2. CASE c.request.op = "chunk" /\ c.attempt + 1 < MaxRetries
    <2> DEFINE k == c.attempt + 1
               d == [c EXCEPT !.attempt = k]
    <2>1. k \in 0 .. MaxRetries - 1
      BY <1>2, ConstantsFit DEF Client
    <2>2. d = GiveUp(c)
      BY <1>2 DEF GiveUp
    <2> HIDE DEF k
    <2>3. d \in Client /\ d.request = c.request /\ d.part = c.part /\ d.phase = c.phase
      BY <2>1, AttemptFits
    <2> HIDE DEF d
    <2>4. Progress(d, n)
      BY <2>3 DEF Progress, Earlier
    <2>5. QED
      BY <2>2, <2>3, <2>4
  <1>3. CASE c.request.op # "fail" /\ ~ (c.request.op = "chunk" /\ c.attempt + 1 < MaxRetries)
    <2>1. GiveUp(c) = Fail(c)
      BY <1>3 DEF GiveUp
    <2>2. QED
      BY <2>1, FailFits
  <1>4. QED
    BY <1>1, <1>2, <1>3

(* An initiation is answered with a new upload.                            *)
LEMMA InitiatedFits ==
  ASSUME ConstantsAssumption, NEW c \in Client, NEW n \in Nat, n < MaxUploads,
         Progress(c, n), c.phase = "waiting", c.request.op = "initiate"
  PROVE  LET d == Succeed(c, n + 1)
         IN d \in Client /\ Progress(d, n + 1) /\ d.phase = "waiting"
  <1> DEFINE u == n + 1
             ids == c.request.ids
             r == Ask("chunk", ids, u, 1)
             d == [c EXCEPT !.request = r]
  <1>1. u \in Uploads /\ ids \in [1 .. Parts -> Uploads \cup {0}]
    BY ConstantsFit DEF Uploads, Client, Request
  <1>2. \A p \in 1 .. n : p # u /\ p \in 1 .. u
    OBVIOUS
  <1>3. u \in 1 .. u
    OBVIOUS
  <1> HIDE DEF u, ids
  <1>4. r \in Request /\ r.op = "chunk" /\ r.ids = ids /\ r.upload = u /\ r.chunk = 1
    BY <1>1, ConstantsFit DEF Ask, Request
  <1> HIDE DEF r
  <1>5. d \in Client /\ d.request = r /\ d.part = c.part /\ d.phase = "waiting"
    BY <1>4, RequestFits
  <1>6. d = Succeed(c, u)
    BY DEF Succeed, r, ids
  <1> HIDE DEF d
  <1>7. Earlier(d) = Earlier(c)
    BY <1>5 DEF Earlier
  <1>8. Progress(d, u)
    BY <1>2, <1>3, <1>4, <1>5, <1>7, ConstantsFit DEF Progress, Asks, ids
  <1>9. QED
    BY <1>5, <1>6, <1>8 DEF u

LEMMA ChunkSentFits ==
  ASSUME ConstantsAssumption, NEW c \in Client, NEW n \in Nat,
         Progress(c, n), c.phase = "waiting", c.request.op = "chunk"
  PROVE  LET d == Succeed(c, 0)
         IN d \in Client /\ Progress(d, n) /\ d.phase = "waiting"
  <1> DEFINE u == c.request.upload
             ids == c.request.ids
             k == c.request.chunk
             r == IF k < Chunks THEN Ask("chunk", ids, u, k + 1) ELSE Ask("finalize", ids, u, 0)
             e == [c EXCEPT !.attempt = 0]
             d == [e EXCEPT !.request = r]
  <1>1. /\ u \in Uploads \cup {0} /\ ids \in [1 .. Parts -> Uploads \cup {0}]
        /\ u \in 1 .. n /\ k \in ChunkIds
    BY DEF Client, Request, Progress, Asks
  <1>2. \A m \in ChunkIds : m < Chunks => m + 1 \in ChunkIds
    BY ConstantsFit DEF ChunkIds
  <1>3. d = Succeed(c, 0)
    BY ZenonT(30) DEF Succeed
  <1> HIDE DEF u, ids, k
  <1>4. /\ r \in Request /\ r.op \in {"chunk", "finalize"} /\ r.ids = ids /\ r.upload = u
        /\ r.op = "chunk" => r.chunk \in ChunkIds
    BY <1>1, <1>2 DEF Ask, Request
  <1> HIDE DEF r
  <1>5. e \in Client /\ e.request = c.request /\ e.part = c.part /\ e.phase = "waiting"
    BY AttemptFits, ConstantsFit
  <1> HIDE DEF e
  <1>6. d \in Client /\ d.request = r /\ d.part = c.part /\ d.phase = "waiting"
    BY <1>4, <1>5, RequestFits
  <1> HIDE DEF d
  <1>7. Earlier(d) = Earlier(c)
    BY <1>6 DEF Earlier
  <1>8. Progress(d, n)
    BY <1>1, <1>4, <1>6, <1>7 DEF Progress, Asks, ids, u
  <1>9. QED
    BY <1>3, <1>6, <1>8

LEMMA FinalizedFits ==
  ASSUME ConstantsAssumption, NEW c \in Client, NEW n \in Nat,
         Progress(c, n), c.phase = "waiting", c.request.op = "finalize"
  PROVE  LET d == Succeed(c, 0)
         IN d \in Client /\ Progress(d, n) /\ d.phase = "waiting"
  <1> DEFINE u == c.request.upload
             ids == [c.request.ids EXCEPT ![c.part] = u]
             r == IF c.part < Parts THEN Ask("initiate", ids, 0, 0) ELSE Ask("complete", ids, 0, 0)
             k == c.part + 1
             e == [c EXCEPT !.part = k]
             d == [e EXCEPT !.request = r]
  <1>1. /\ u \in Uploads \cup {0} /\ u \in 1 .. n /\ c.part \in 1 .. Parts
        /\ c.request.ids \in [1 .. Parts -> Uploads \cup {0}]
    BY DEF Client, Request, Progress, Asks
  <1>2. /\ k \in 1 .. Parts + 1 /\ (c.part < Parts => k \in 1 .. Parts)
        /\ (~ c.part < Parts => k = Parts + 1)
        /\ \A p \in 1 .. Parts : p < k => p < c.part \/ p = c.part
    BY <1>1, ConstantsFit
  <1>3. d = Succeed(c, 0)
    BY DEF Succeed, Client
  <1>4. ids \in [1 .. Parts -> Uploads \cup {0}]
        /\ \A p \in 1 .. Parts : ids[p] = IF p = c.part THEN u ELSE c.request.ids[p]
    BY <1>1
  <1> HIDE DEF u, ids, k
  <1>5. /\ r \in Request /\ r.op \in {"initiate", "complete"} /\ r.ids = ids
        /\ r.op = "initiate" <=> c.part < Parts
    BY <1>4 DEF Ask, Request
  <1> HIDE DEF r
  <1>6. e \in Client /\ e.request = c.request /\ e.part = k /\ e.phase = "waiting"
    BY <1>2, PartFits
  <1> HIDE DEF e
  <1>7. d \in Client /\ d.request = r /\ d.part = k /\ d.phase = "waiting"
    BY <1>5, <1>6, RequestFits
  <1> HIDE DEF d
  <1>8. \A p \in Earlier(d) : p \in 1 .. Parts /\ (p \in Earlier(c) \/ p = c.part)
    BY <1>2, <1>7 DEF Earlier
  <1>9. /\ \A p \in Earlier(d) : ids[p] \in 1 .. n
        /\ \A p, q \in Earlier(d) : p # q => ids[p] # ids[q]
    BY <1>1, <1>4, <1>8 DEF Progress, u, Earlier
  <1>10. Progress(d, n)
    BY <1>2, <1>5, <1>7, <1>9 DEF Progress, Asks
  <1>11. QED
    BY <1>3, <1>7, <1>10

LEMMA SettledFits ==
  ASSUME NEW c \in Client, NEW n \in Nat, NEW u,
         Progress(c, n), c.phase = "waiting", c.request.op \in {"complete", "fail"}
  PROVE  LET d == Succeed(c, u)
         IN /\ d \in Client /\ Progress(d, n) /\ d.request = c.request
            /\ d.phase = "done" => c.request.op = "complete"
  <1> DEFINE x == IF c.request.op = "complete" THEN "done" ELSE "failed"
             d == [c EXCEPT !.phase = x]
  <1>1. d = Succeed(c, u)
    BY DEF Succeed
  <1>2. x \in {"waiting", "done", "failed"} /\ (x = "done" => c.request.op = "complete")
    OBVIOUS
  <1> HIDE DEF x
  <1>3. d \in Client /\ d.request = c.request /\ d.part = c.part /\ d.phase = x
    BY <1>2, PhaseFits
  <1> HIDE DEF d
  <1>4. Progress(d, n)
    BY <1>2, <1>3 DEF Progress, Earlier
  <1>5. QED
    BY <1>1, <1>2, <1>3, <1>4

(* More uploads do not disturb a client.                                   *)
LEMMA ProgressLasts ==
  ASSUME NEW c, NEW n \in Nat, Progress(c, n)
  PROVE  Progress(c, n + 1)
  <1>1. \A u \in 1 .. n : u \in 1 .. n + 1
    OBVIOUS
  <1>2. QED
    BY <1>1 DEF Progress, Asks

(* Who gets the answer d to request r: the client, or nobody.              *)
LEMMA Answered ==
  ASSUME ConstantsAssumption, IInv, NEW r, NEW d, Answer(r, d), NEW n \in {created, created + 1},
         client.phase = "waiting" /\ client.request = r => d \in Client /\ Progress(d, n)
  PROVE  /\ client' \in Client /\ late' \subseteq late
         /\ Progress(client', n)
         /\ \/ client' = client
            \/ client'.phase # "done"
            \/ client' = d /\ client.phase = "waiting" /\ client.request = r
  <1>1. client \in Client /\ created \in Nat /\ Progress(client, created)
    BY ConstantsFit DEF IInv, TypeOK
  <1>2. Progress(client, n)
    BY <1>1, ProgressLasts
  <1>3. CASE client.phase = "waiting" /\ client' = GiveUp(client) /\ late' = late
    BY <1>1, <1>2, <1>3, GiveUpFits
  <1>4. QED
    BY <1>1, <1>2, <1>3 DEF Answer

-----------------------------------------------------------------------------
(* The server.                                                             *)

LEMMA InFlight ==
  ASSUME IInv, NEW r \in Requests
  PROVE  r \in Request /\ Asks(r, created)
  BY DEF IInv, TypeOK, Requests, Client, Progress

(* A client that is done has consumed what was created, each part another. *)
LEMMA DoneHasAll ==
  ASSUME ConstantsAssumption, NEW c \in Client, NEW n \in Nat, Progress(c, n),
         c.request.op = "complete"
  PROVE  /\ \A p \in 1 .. Parts : c.request.ids[p] \in 1 .. n
         /\ \A p, q \in 1 .. Parts : p # q => c.request.ids[p] # c.request.ids[q]
  <1>1. Earlier(c) = 1 .. Parts
    BY ConstantsFit DEF Progress, Earlier
  <1>2. QED
    BY <1>1 DEF Progress

LEMMA PlacesKnown ==
  ASSUME ConstantsAssumption, IInv
  PROVE  /\ Open \cup Kept \cup Consumed \subseteq 1 .. created
         /\ created \in Nat /\ 1 .. created \subseteq Uploads
         /\ \A u \in Kept \cup Consumed : u \in Uploads /\ chunks[u] = ChunkIds
         /\ \A u \in Uploads : chunks[u] \subseteq ChunkIds
  <1>1. created \in Nat /\ 1 .. created \subseteq Uploads
    BY ConstantsFit DEF IInv, TypeOK, Uploads
  <1>2. Open \cup Kept \subseteq 1 .. created
    BY DEF IInv, Open, Kept
  <1>3. Consumed \subseteq 1 .. created
    <2> SUFFICES ASSUME client.phase = "done"
                 PROVE  \A p \in 1 .. Parts : client.request.ids[p] \in 1 .. created
      BY DEF Consumed
    <2>1. client \in Client /\ Progress(client, created) /\ client.request.op = "complete"
      BY DEF IInv, TypeOK, Progress
    <2>2. QED
      BY <1>1, <2>1, DoneHasAll
  <1>4. QED
    BY <1>1, <1>2, <1>3 DEF IInv, TypeOK

(* Steps that create and finalize nothing, and complete nothing.           *)
LEMMA NothingNew ==
  ASSUME ConstantsAssumption, IInv, TypeOK', created' = created,
         \A w \in Workers : sessions'[w] \subseteq sessions[w] /\ finalized'[w] \subseteq finalized[w],
         \A u \in Uploads : chunks[u] \subseteq chunks'[u],
         late' \subseteq late \cup {client.request}, Progress(client', created),
         client' = client \/ client'.phase # "done",
         job' = job \/ job = "held"
  PROVE  IInv'
  <1>1. Open' \subseteq Open /\ Kept' \subseteq Kept
    BY DEF Open, Kept
  <1>2. Consumed' \subseteq Consumed
    BY DEF Consumed
  <1>3. OneStage'
    BY <1>1 DEF IInv, OneStage
  <1>4. \A r \in late' : Asks(r, created)
    BY DEF IInv, Progress
  <1>5. \A u \in Uploads : chunks'[u] \subseteq ChunkIds
    BY DEF TypeOK
  <1>6. \A u \in Kept' \cup Consumed' : chunks'[u] = ChunkIds
    <2>1. TAKE u \in Kept' \cup Consumed'
    <2>2. u \in Kept \cup Consumed
      BY <1>1, <1>2
    <2>3. u \in Uploads /\ chunks[u] = ChunkIds
      BY <2>2, PlacesKnown DEF IInv
    <2>4. QED
      BY <1>5, <2>3
  <1>7. client'.phase = "done" => job' = "COMPLETED"
    BY DEF IInv
  <1>8. \A w \in Workers : sessions'[w] \cup finalized'[w] \subseteq 1 .. created'
    BY DEF IInv
  <1>9. QED
    BY <1>1, <1>2, <1>3, <1>4, <1>6, <1>7, <1>8 DEF IInv

LEMMA RefusedAnswer ==
  ASSUME ConstantsAssumption, IInv, NEW r, Answer(r, Refused(client)) \/ Answer(r, Fail(client))
  PROVE  /\ client' \in Client /\ late' \subseteq late /\ Progress(client', created)
         /\ client' = client \/ client'.phase # "done"
  <1>1. client \in Client /\ Progress(client, created)
    BY DEF IInv, TypeOK
  <1>2. client.phase = "waiting" =>
          /\ Refused(client) \in Client /\ Progress(Refused(client), created)
          /\ Refused(client).phase # "done"
          /\ Fail(client) \in Client /\ Progress(Fail(client), created)
          /\ Fail(client).phase # "done"
    BY <1>1, RefusedFits, FailFits
  <1>3. QED
    BY <1>2, Answered

LEMMA RefusalsKeep ==
  ASSUME ConstantsAssumption, IInv, NEW w \in Workers, NEW r \in Requests,
         RefuseUpload(w, r) \/ RefuseReport(w, r)
  PROVE  IInv'
  <1>1. /\ client' \in Client /\ late' \subseteq late /\ Progress(client', created)
        /\ client' = client \/ client'.phase # "done"
    BY RefusedAnswer DEF RefuseUpload, RefuseReport
  <1>2. /\ UNCHANGED <<chunks, expired, finalized, created, job>>
        /\ \/ UNCHANGED <<sessions, files>>
           \/ Cleanup(w, r.upload)
    BY DEF RefuseUpload, RefuseReport, memory
  <1>3. /\ \A v \in Workers : sessions'[v] \subseteq sessions[v]
        /\ sessions' \in [Workers -> SUBSET Uploads] /\ files' \subseteq Uploads
    BY <1>2 DEF IInv, TypeOK, Cleanup
  <1>4. TypeOK'
    BY <1>1, <1>2, <1>3 DEF IInv, TypeOK
  <1>5. QED
    BY <1>1, <1>2, <1>3, <1>4, NothingNew

LEMMA ChunkKeeps ==
  ASSUME ConstantsAssumption, IInv, NEW w \in Workers, NEW r \in Requests, UploadChunk(w, r)
  PROVE  IInv'
  <1>1. client \in Client /\ Progress(client, created) /\ created \in Nat
    BY PlacesKnown DEF IInv, TypeOK
  <1>2. r.op = "chunk" /\ r.chunk \in ChunkIds /\ r.upload \in Uploads
    BY InFlight, PlacesKnown DEF UploadChunk, Asks
  <1>3. client.phase = "waiting" /\ client.request = r =>
          LET d == Succeed(client, 0)
          IN d \in Client /\ Progress(d, created) /\ d.phase # "done"
    BY <1>1, <1>2, ChunkSentFits
  <1>4. /\ Answer(r, Succeed(client, 0))
        /\ chunks' = [chunks EXCEPT ![r.upload] = chunks[r.upload] \cup {r.chunk}]
        /\ UNCHANGED <<sessions, expired, finalized, files, created, job>>
    BY DEF UploadChunk, Accepts
  <1>5. /\ client' \in Client /\ late' \subseteq late /\ Progress(client', created)
        /\ client' = client \/ client'.phase # "done"
    BY <1>3, <1>4, Answered
  <1>6. /\ chunks' \in [Uploads -> SUBSET ChunkIds]
        /\ \A u \in Uploads : chunks[u] \subseteq chunks'[u]
    BY <1>2, <1>4 DEF IInv, TypeOK
  <1>7. TypeOK'
    BY <1>4, <1>5, <1>6 DEF IInv, TypeOK
  <1>8. QED
    BY <1>4, <1>5, <1>6, <1>7, NothingNew

LEMMA InitiateKeeps ==
  ASSUME ConstantsAssumption, IInv, NEW w \in Workers, NEW r \in Requests, InitiateUpload(w, r)
  PROVE  IInv'
  <1> DEFINE n == created + 1
  <1>1. client \in Client /\ Progress(client, created) /\ created \in Nat /\ created < MaxUploads
    BY PlacesKnown DEF IInv, TypeOK, InitiateUpload
  <1>2. client.phase = "waiting" /\ client.request = r =>
          LET d == Succeed(client, n)
          IN d \in Client /\ Progress(d, n) /\ d.phase # "done"
    BY <1>1, InitiatedFits DEF InitiateUpload
  <1>3. /\ Answer(r, Succeed(client, n))
        /\ sessions' = [sessions EXCEPT ![w] = sessions[w] \cup {n}]
        /\ created' = n /\ files' = files \cup {n}
        /\ UNCHANGED <<chunks, expired, finalized, job>>
    BY DEF InitiateUpload
  <1>4. n \in Uploads /\ n \notin 1 .. created /\ 1 .. n = 1 .. created \cup {n}
        /\ n \in 0 .. MaxUploads
    BY <1>1, ConstantsFit DEF Uploads
  <1>5. /\ client' \in Client /\ late' \subseteq late /\ Progress(client', n)
        /\ client' = client \/ client'.phase # "done"
    BY <1>2, <1>3, Answered
  <1> HIDE DEF n
  <1>6. /\ sessions' \in [Workers -> SUBSET Uploads]
        /\ \A v \in Workers : sessions'[v] = IF v = w THEN sessions[w] \cup {n} ELSE sessions[v]
    BY <1>3, <1>4 DEF IInv, TypeOK
  <1>7. TypeOK'
    BY <1>3, <1>4, <1>5, <1>6 DEF IInv, TypeOK
  <1>8. \A v \in Workers : n \notin sessions[v] /\ n \notin finalized[v]
    BY <1>4 DEF IInv
  <1>9. Open' \subseteq Open \cup {n} /\ Kept' = Kept /\ n \notin Kept
    BY <1>3, <1>6, <1>8 DEF Open, Kept
  <1>10. Consumed' \subseteq Consumed /\ n \notin Consumed
    BY <1>4, <1>5, PlacesKnown DEF Consumed
  <1>11. OneStage'
    BY <1>3, <1>6, <1>8, <1>9 DEF IInv, OneStage
  <1>12. Consumed' \cap (Open' \cup Kept') = {}
    BY <1>9, <1>10 DEF IInv
  <1>13. \A v \in Workers : sessions'[v] \cup finalized'[v] \subseteq 1 .. created'
    BY <1>3, <1>4, <1>6 DEF IInv
  <1>14. \A s \in late' : Asks(s, created')
    BY <1>3, <1>4, <1>5 DEF IInv, Asks
  <1>15. \A u \in Kept' \cup Consumed' : chunks'[u] = ChunkIds
    BY <1>3, <1>9, <1>10 DEF IInv
  <1>16. client'.phase = "done" => job' = "COMPLETED"
    BY <1>3, <1>5 DEF IInv
  <1>17. QED
    BY <1>3, <1>5, <1>7, <1>11, <1>12, <1>13, <1>14, <1>15, <1>16 DEF IInv

LEMMA FinalizeKeeps ==
  ASSUME ConstantsAssumption, IInv, NEW w \in Workers, NEW r \in Requests, FinalizeUpload(w, r)
  PROVE  IInv'
  <1> DEFINE u == r.upload
  <1>1. client \in Client /\ Progress(client, created) /\ created \in Nat
    BY PlacesKnown DEF IInv, TypeOK
  <1>2. client.phase = "waiting" /\ client.request = r =>
          LET d == Succeed(client, 0)
          IN d \in Client /\ Progress(d, created) /\ d.phase # "done"
    BY <1>1, FinalizedFits DEF FinalizeUpload
  <1>3. /\ Answer(r, Succeed(client, 0))
        /\ u \in sessions[w] /\ chunks[u] = ChunkIds
        /\ finalized' = [finalized EXCEPT ![w] = finalized[w] \cup {u}]
        /\ sessions' = [sessions EXCEPT ![w] = sessions[w] \ {u}]
        /\ files' = files \ {u}
        /\ UNCHANGED <<chunks, expired, created, job>>
    BY DEF FinalizeUpload, EndSession, Cleanup
  <1>4. /\ client' \in Client /\ late' \subseteq late /\ Progress(client', created)
        /\ client' = client \/ client'.phase # "done"
    BY <1>2, <1>3, Answered
  <1> HIDE DEF u
  <1>5. u \in Open /\ u \in Uploads /\ u \in 1 .. created
    BY <1>3 DEF IInv, TypeOK, Open
  <1>6. /\ sessions' \in [Workers -> SUBSET Uploads] /\ finalized' \in [Workers -> SUBSET Uploads]
        /\ \A v \in Workers : sessions'[v] = IF v = w THEN sessions[w] \ {u} ELSE sessions[v]
        /\ \A v \in Workers : finalized'[v] = IF v = w THEN finalized[w] \cup {u} ELSE finalized[v]
    BY <1>3, <1>5 DEF IInv, TypeOK
  <1>7. TypeOK'
    BY <1>3, <1>4, <1>6 DEF IInv, TypeOK
  <1>8. \A v \in Workers : u \notin finalized[v] /\ (v # w => u \notin sessions[v])
    BY <1>3, <1>5 DEF IInv, OneStage, Open, Kept
  <1>9. Open' = Open \ {u} /\ Kept' = Kept \cup {u}
    BY <1>6, <1>8 DEF Open, Kept
  <1>10. Consumed' \subseteq Consumed /\ u \notin Consumed
    BY <1>4, <1>5 DEF Consumed, IInv
  <1>11. OneStage'
    BY <1>6, <1>8, <1>9 DEF IInv, OneStage
  <1>12. Consumed' \cap (Open' \cup Kept') = {}
    BY <1>9, <1>10 DEF IInv
  <1>13. \A v \in Workers : sessions'[v] \cup finalized'[v] \subseteq 1 .. created'
    BY <1>3, <1>5, <1>6 DEF IInv
  <1>14. \A s \in late' : Asks(s, created')
    BY <1>3, <1>4 DEF IInv
  <1>15. \A x \in Kept' \cup Consumed' : chunks'[x] = ChunkIds
    BY <1>3, <1>9, <1>10 DEF IInv
  <1>16. client'.phase = "done" => job' = "COMPLETED"
    BY <1>3, <1>4 DEF IInv
  <1>17. QED
    BY <1>3, <1>4, <1>7, <1>11, <1>12, <1>13, <1>14, <1>15, <1>16 DEF IInv

(* A completion takes what it names; the client it answers is done only    *)
(* when all of it was there.                                               *)
LEMMA CompleteKeeps ==
  ASSUME ConstantsAssumption, IInv, NEW w \in Workers, NEW r \in Requests, CompleteJob(w, r)
  PROVE  IInv'
  <1> DEFINE taken == Taken(w, r.ids)
  <1>1. client \in Client /\ Progress(client, created) /\ created \in Nat
    BY PlacesKnown DEF IInv, TypeOK
  <1>2. /\ r.op = "complete" /\ job = "held"
        /\ finalized' = [finalized EXCEPT ![w] = finalized[w] \ taken]
        /\ UNCHANGED <<sessions, chunks, expired, files, created>>
        /\ \/ /\ Resolved(w, r.ids) /\ job' = "COMPLETED"
              /\ Answer(r, Succeed(client, 0))
           \/ job' = job /\ (Answer(r, Fail(client)) \/ Answer(r, Refused(client)))
    BY DEF CompleteJob
  <1> HIDE DEF taken
  <1>3. /\ finalized' \in [Workers -> SUBSET Uploads]
        /\ \A v \in Workers : finalized'[v] = IF v = w THEN finalized[w] \ taken ELSE finalized[v]
    BY <1>2 DEF IInv, TypeOK
  <1>4. CASE job' = job /\ (Answer(r, Fail(client)) \/ Answer(r, Refused(client)))
    <2>1. /\ client' \in Client /\ late' \subseteq late /\ Progress(client', created)
          /\ client' = client \/ client'.phase # "done"
      BY <1>4, RefusedAnswer
    <2>2. TypeOK'
      BY <1>2, <1>3, <1>4, <2>1 DEF IInv, TypeOK
    <2>3. QED
      BY <1>2, <1>3, <1>4, <2>1, <2>2, NothingNew
  <1>5. CASE Resolved(w, r.ids) /\ job' = "COMPLETED" /\ Answer(r, Succeed(client, 0))
    <2>1. client.phase = "waiting" /\ client.request = r =>
            LET d == Succeed(client, 0)
            IN d \in Client /\ Progress(d, created) /\ d.request = r
      BY <1>1, <1>2, SettledFits
    <2>2. /\ client' \in Client /\ late' \subseteq late /\ Progress(client', created)
          /\ \/ client' = client \/ client'.phase # "done"
             \/ client.phase = "waiting" /\ client.request = r /\ client'.request = r
      BY <1>5, <2>1, Answered
    <2>3. TypeOK'
      BY <1>2, <1>3, <1>5, <2>2 DEF IInv, TypeOK
    <2>4. CASE client' = client \/ client'.phase # "done"
      BY <1>2, <1>3, <1>5, <2>2, <2>3, <2>4, NothingNew
    <2>5. CASE client'.phase = "done" /\ client'.request = r
      <3>1. Consumed' = {r.ids[p] : p \in 1 .. Parts}
        BY <2>5 DEF Consumed
      <3>2. taken = Consumed' /\ taken \subseteq finalized[w]
        BY <1>5, <3>1, ConstantsFit DEF taken, Taken, Resolved
      <3>3. Open' = Open /\ Kept' \subseteq Kept \ taken
        <4>1. \A v \in Workers : v # w => finalized[v] \cap finalized[w] = {}
          BY DEF IInv, OneStage
        <4>2. QED
          BY <1>2, <1>3, <3>2, <4>1 DEF Open, Kept
      <3>4. taken \subseteq Kept
        BY <3>2 DEF Kept
      <3>5. Consumed' \cap (Open' \cup Kept') = {}
        BY <3>2, <3>3, <3>4 DEF IInv, OneStage
      <3>6. OneStage'
        BY <1>2, <1>3, <3>3 DEF IInv, OneStage
      <3>7. \A u \in Kept' \cup Consumed' : chunks'[u] = ChunkIds
        BY <1>2, <3>2, <3>3, <3>4, PlacesKnown
      <3>8. \A v \in Workers : sessions'[v] \cup finalized'[v] \subseteq 1 .. created'
        BY <1>2, <1>3 DEF IInv
      <3>9. \A s \in late' : Asks(s, created')
        BY <1>2, <2>2 DEF IInv
      <3>10. QED
        BY <1>2, <1>5, <2>2, <2>3, <3>5, <3>6, <3>7, <3>8, <3>9 DEF IInv
    <2>6. QED
      BY <2>2, <2>4, <2>5
  <1>6. QED
    BY <1>2, <1>4, <1>5

LEMMA FailKeeps ==
  ASSUME ConstantsAssumption, IInv, NEW w \in Workers, NEW r \in Requests, FailJob(w, r)
  PROVE  IInv'
  <1>1. client \in Client /\ Progress(client, created) /\ created \in Nat
    BY PlacesKnown DEF IInv, TypeOK
  <1>2. r.op = "fail" /\ job = "held" /\ job' = "FAILED" /\ UNCHANGED memory
        /\ Answer(r, Succeed(client, 0))
    BY DEF FailJob
  <1>3. client.phase = "waiting" /\ client.request = r =>
          LET d == Succeed(client, 0)
          IN d \in Client /\ Progress(d, created) /\ d.phase # "done"
    BY <1>1, <1>2, SettledFits
  <1>4. /\ client' \in Client /\ late' \subseteq late /\ Progress(client', created)
        /\ client' = client \/ client'.phase # "done"
    BY <1>2, <1>3, Answered
  <1>5. TypeOK'
    BY <1>2, <1>4 DEF IInv, TypeOK, memory
  <1>6. QED
    BY <1>2, <1>4, <1>5, NothingNew DEF memory

LEMMA TimeOutKeeps ==
  ASSUME ConstantsAssumption, IInv, TimeOut
  PROVE  IInv'
  <1>1. client \in Client /\ Progress(client, created) /\ client.phase = "waiting"
    BY DEF IInv, TypeOK, TimeOut
  <1>2. client' \in Client /\ Progress(client', created) /\ client'.phase # "done"
    BY <1>1, GiveUpFits DEF TimeOut
  <1>3. late' \subseteq late \cup {client.request} /\ client.request \in Request
    BY <1>1 DEF TimeOut, Client
  <1>4. UNCHANGED <<memory, job>>
    BY DEF TimeOut
  <1>5. TypeOK'
    BY <1>2, <1>3, <1>4 DEF IInv, TypeOK, memory
  <1>6. QED
    BY <1>2, <1>3, <1>4, <1>5, NothingNew DEF memory

LEMMA TimeKeeps ==
  ASSUME ConstantsAssumption, IInv, Expire \/ Restart \/ UNCHANGED vars
  PROVE  IInv'
  <1>1. /\ UNCHANGED <<chunks, files, created, client, late, job>>
        /\ \/ UNCHANGED <<sessions, finalized>>
           \/ \E w \in Workers : /\ sessions' = [sessions EXCEPT ![w] = {}]
                                 /\ finalized' = [finalized EXCEPT ![w] = {}]
    BY DEF Expire, Restart, vars
  <1>2. expired' \subseteq Uploads
    BY DEF Expire, Restart, vars, IInv, TypeOK
  <1>3. /\ sessions' \in [Workers -> SUBSET Uploads] /\ finalized' \in [Workers -> SUBSET Uploads]
        /\ \A w \in Workers : sessions'[w] \subseteq sessions[w] /\ finalized'[w] \subseteq finalized[w]
    BY <1>1 DEF IInv, TypeOK
  <1>4. TypeOK'
    BY <1>1, <1>2, <1>3 DEF IInv, TypeOK
  <1>5. Progress(client', created)
    BY <1>1 DEF IInv
  <1>6. QED
    BY <1>1, <1>3, <1>4, <1>5, NothingNew

LEMMA InitIInv ==
  ASSUME ConstantsAssumption, Init
  PROVE  IInv
  <1> DEFINE r == Ask("initiate", NoIds, 0, 0)
             c == [request |-> r, part |-> 1, attempt |-> 0, phase |-> "waiting", refused |-> FALSE]
  <1>1. r \in Request /\ r.op = "initiate"
    BY ConstantsFit DEF Ask, Request
  <1>2. client = c
    BY DEF Init
  <1> HIDE DEF r
  <1>3. c \in Client /\ c.request = r /\ c.part = 1 /\ c.phase = "waiting"
    BY <1>1, ConstantsFit DEF Client
  <1> HIDE DEF c
  <1>4. Earlier(client) = {}
    BY <1>2, <1>3 DEF Earlier
  <1>5. Progress(client, 0)
    BY <1>1, <1>2, <1>3, <1>4, ConstantsFit DEF Progress, Asks
  <1>6. created = 0 /\ 0 \in 0 .. MaxUploads
    BY ConstantsFit DEF Init
  <1>7. TypeOK
    BY <1>2, <1>3, <1>6 DEF Init, TypeOK
  <1>8. Open = {} /\ Kept = {} /\ Consumed = {}
    BY <1>2, <1>3 DEF Init, Open, Kept, Consumed
  <1>9. OneStage
    BY <1>8 DEF Init, OneStage
  <1>10. QED
    BY <1>2, <1>3, <1>5, <1>6, <1>7, <1>8, <1>9 DEF Init, IInv

LEMMA NextIInv ==
  ASSUME ConstantsAssumption, IInv, [Next]_vars
  PROVE  IInv'
  <1>1. CASE Handled
    BY <1>1, InitiateKeeps, RefusalsKeep, ChunkKeeps, FinalizeKeeps, CompleteKeeps, FailKeeps
       DEF Handled
  <1>2. QED
    BY <1>1, TimeOutKeeps, TimeKeeps DEF Next, Done

-----------------------------------------------------------------------------
(* An upload is open in one worker or kept by one, never both, whatever    *)
(* requests are repeated, late or lost, for any number of workers, chunks  *)
(* and contents, and whichever workers restart.                            *)
THEOREM AlwaysOneStage == ConstantsAssumption /\ Spec => []OneStage
  <1> SUFFICES ASSUME ConstantsAssumption
               PROVE  Spec => []OneStage
    OBVIOUS
  <1>1. Init => IInv
    BY InitIInv
  <1>2. IInv /\ [Next]_vars => IInv'
    BY NextIInv
  <1>3. IInv => OneStage
    BY DEF IInv
  <1>4. QED
    BY <1>1, <1>2, <1>3, PTL DEF Spec

(* A client that was told that its job is complete: the job is, it was     *)
(* given all chunks of as many uploads as there were contents, and none of *)
(* them can be consumed or continued again.                                *)
THEOREM AlwaysConsumedWhole == ConstantsAssumption /\ Spec => []ConsumedWhole
  <1> SUFFICES ASSUME ConstantsAssumption
               PROVE  Spec => []ConsumedWhole
    OBVIOUS
  <1>1. Init => IInv
    BY InitIInv
  <1>2. IInv /\ [Next]_vars => IInv'
    BY NextIInv
  <1>3. IInv => ConsumedWhole
    <2> SUFFICES ASSUME IInv, client.phase = "done"
                 PROVE  /\ job = "COMPLETED"
                        /\ \A p \in 1 .. Parts : LET u == client.request.ids[p]
                                                 IN chunks[u] = ChunkIds /\ u \notin Open \cup Kept
                        /\ \A p, q \in 1 .. Parts : p # q => client.request.ids[p] # client.request.ids[q]
      BY DEF ConsumedWhole
    <2>1. Consumed = {client.request.ids[p] : p \in 1 .. Parts}
      BY DEF Consumed
    <2>2. /\ client \in Client /\ Progress(client, created) /\ client.request.op = "complete"
          /\ created \in Nat
      BY PlacesKnown DEF IInv, TypeOK, Progress
    <2>3. QED
      BY <2>1, <2>2, DoneHasAll DEF IInv
  <1>4. QED
    BY <1>1, <1>2, <1>3, PTL DEF Spec

(* The memory of the workers, the client and its requests are what their   *)
(* types say, however requests are answered.                               *)
THEOREM TypeCorrect == ConstantsAssumption /\ Spec => []TypeOK
  <1> SUFFICES ASSUME ConstantsAssumption
               PROVE  Spec => []TypeOK
    OBVIOUS
  <1>1. Init => IInv
    BY InitIInv
  <1>2. IInv /\ [Next]_vars => IInv'
    BY NextIInv
  <1>3. IInv => TypeOK
    BY DEF IInv
  <1>4. QED
    BY <1>1, <1>2, <1>3, PTL DEF Spec
=============================================================================
