-------------------------- MODULE CollectionAccess --------------------------
(***************************************************************************)
(* Collections and the connector that remote ones are reached through:     *)
(* where a collection lies, which agent it is bound to, and whether it was *)
(* found accessible there.  A server tests what it can reach itself; for   *)
(* the rest it queues a test job, which an agent runs on the place it      *)
(* reads when it claims the job, and answers later.                        *)
(***************************************************************************)
EXTENDS Naturals, Sequences, FiniteSets, Functions, SequencesExt

CONSTANTS
  Locals, Remotes,  \* local collections, and those behind the connector
  Agents, Places,
  Processes,        \* worker processes of the server
  Null,
  Rebinds,          \* collections are bound to other agents
  ByCli,            \* agents create and test collections from the command line
  Faults,           \* tests fail or are cancelled, the server stops
  Careless,         \* requests keep the credentials (update_credentials = false)
  MaxTests          \* bound: tests queued or running

ConstantsAssumption ==
  /\ Locals \cap Remotes = {}
  /\ Null \notin Agents \cup Places
  /\ {Rebinds, ByCli, Faults, Careless} \subseteq BOOLEAN
  /\ MaxTests \in Nat

VARIABLES
  connector,   \* the connector
  capable,     \* agents that reported credentials for it
  collection,  \* collection[c]
  tests,       \* test jobs queued or running, oldest first
  analyses,    \* collections queued for analysis by the three tools
  cache,       \* cache[w][c]: the place whose listing process w keeps for c
  known,       \* known[a][c]: the place of c in the agent's own cache
  tested       \* tested[c]: the place that the verdict on c is about, and who tested it

vars == <<connector, capable, collection, tests, analyses, cache, known, tested>>

AllCollections == Locals \cup Remotes
Verdicts == {"unknown", "yes", "no"}
Connector == [exists: BOOLEAN, location: {"server", "agent", "pending"},
              credentials: BOOLEAN, active: BOOLEAN]
NoConnector == [exists |-> FALSE, location |-> "pending", credentials |-> FALSE, active |-> FALSE]
Collection == [exists: BOOLEAN, place: Places \cup {Null}, agent: Agents \cup {Null},
               accessible: Verdicts, results: BOOLEAN]
NoCollection == [exists |-> FALSE, place |-> Null, agent |-> Null, accessible |-> "unknown",
                 results |-> FALSE]
Test == [of: AllCollections, bound: Agents \cup {Null}, by: Agents \cup {Null}, place: Places \cup {Null}]

TypeOK == /\ connector \in Connector
          /\ capable \subseteq Agents
          /\ collection \in [AllCollections -> Collection]
          /\ tests \in UNION {[1 .. n -> Test] : n \in 0 .. MaxTests}
          /\ analyses \subseteq AllCollections
          /\ cache \in [Processes -> [AllCollections -> Places \cup {Null}]]
          /\ known \in [Agents -> [AllCollections -> Places \cup {Null}]]
          /\ tested \in [AllCollections -> [place: Places \cup {Null}, by: Agents \cup {Null}]]

Nowhere == [c \in AllCollections |-> Null]
Untested == [place |-> Null, by |-> Null]

Init == /\ connector = NoConnector
        /\ capable = {}
        /\ collection = [c \in AllCollections |-> NoCollection]
        /\ tests = <<>>
        /\ analyses = {}
        /\ cache = [w \in Processes |-> Nowhere]
        /\ known = [a \in Agents |-> Nowhere]
        /\ tested = [c \in AllCollections |-> Untested]

-----------------------------------------------------------------------------
(* The connector.                                                          *)
CreateConnector(location, active) ==
  /\ ~ connector.exists
  /\ location = "pending" => ~ active
  /\ connector' = [exists |-> TRUE, location |-> location,
                   credentials |-> location = "server", active |-> active]
  /\ UNCHANGED <<capable, collection, tests, analyses, cache, known, tested>>

(* Mutant: credentials outlive a move off the server.                      *)
KeepCredentials(location, given) == given \/ connector.credentials
(* Credentials of a connector that moves to location.                      *)
CredentialsAfter(location, given) ==
  \/ given
  \/ connector.credentials /\ ~ (connector.location = "server" /\ location # "server")

(* given: the request has credentials; update: it asks to store them.      *)
UpdateConnector(location, given, update, active) ==
  /\ connector.exists
  /\ ~ update => Careless
  /\ location = "server" /\ connector.location # "server" /\ update => given
  /\ given /\ update => location = "server"
  /\ active /\ ~ connector.active => location # "pending"
  /\ connector' = [connector EXCEPT !.location = location, !.active = active,
                     !.credentials = CredentialsAfter(location, given /\ update)]
  /\ UNCHANGED <<capable, collection, tests, analyses, cache, known, tested>>

ReportCapability(a, has) ==
  /\ connector.exists /\ connector.location # "server"
  /\ capable' = IF has THEN capable \cup {a} ELSE capable \ {a}
  /\ connector' = [connector EXCEPT !.location = IF has THEN "agent" ELSE @]
  /\ UNCHANGED <<collection, tests, analyses, cache, known, tested>>

DeleteConnector ==
  /\ connector.exists
  /\ \A c \in Remotes : ~ collection[c].exists
  /\ connector' = NoConnector
  /\ UNCHANGED <<capable, collection, tests, analyses, cache, known, tested>>

(* What test_connector may answer: without credentials, decrypting fails.  *)
ConnectorAnswers == IF connector.credentials /\ connector.location = "server"
                    THEN {"yes", "no"} ELSE {"no"}

-----------------------------------------------------------------------------
(* Tests.                                                                  *)
OpenTests(c) == {i \in DOMAIN tests : tests[i].of = c}
NewTest(c, a) == [of |-> c, bound |-> a, by |-> Null, place |-> Null]
Queue(c, a) == /\ Len(tests) < MaxTests
               /\ tests' = Append(tests, NewTest(c, a))
By(place, a) == [place |-> place, by |-> a]
(* The tests at the indices in S, in their order.                          *)
Remaining(S) ==
  LET inOrder == {f \in [1 .. Cardinality(S) -> S] : \A k, l \in DOMAIN f : k < l => f[k] < f[l]}
  IN {[k \in DOMAIN f |-> tests[f[k]]] : f \in inOrder}
Judged(c, verdict, test) == /\ collection' = [collection EXCEPT ![c].accessible = verdict]
                            /\ tested' = [tested EXCEPT ![c] = test]

(* A commit follows that queues the test, unless the server stops before.  *)
QueueAfter(c, a) == \/ Queue(c, a)
                    \/ Faults /\ UNCHANGED tests

CreateLocal(c, p, a) ==
  /\ c \in Locals /\ ~ collection[c].exists
  /\ collection' = [collection EXCEPT ![c] = [NoCollection EXCEPT !.exists = TRUE, !.place = p,
                                                                  !.agent = a]]
  /\ tested' = [tested EXCEPT ![c] = Untested]
  /\ QueueAfter(c, a)
  /\ UNCHANGED <<connector, capable, analyses, cache, known>>

(* Created by the agent that tested the place: no test is queued.          *)
AgentCreate(c, p, a) ==
  /\ ByCli
  /\ c \in Locals /\ ~ collection[c].exists
  /\ collection' = [collection EXCEPT ![c] = [NoCollection EXCEPT !.exists = TRUE, !.place = p,
                                                                  !.agent = a]]
  /\ tested' = [tested EXCEPT ![c] = Untested]
  /\ known' = [known EXCEPT ![a][c] = p]
  /\ UNCHANGED <<connector, capable, tests, analyses, cache>>

CreateRemote(c, p, verdict) ==
  /\ c \in Remotes /\ ~ collection[c].exists /\ connector.exists
  /\ verdict \in ConnectorAnswers
  /\ collection' = [collection EXCEPT ![c] = [NoCollection EXCEPT !.exists = TRUE, !.place = p,
                                                                  !.accessible = verdict]]
  /\ tested' = [tested EXCEPT ![c] = By(p, Null)]
  /\ UNCHANGED <<connector, capable, tests, analyses, cache, known>>

(* From a folder of the inventory, agents test what the server cannot.     *)
CreateFromInventory(c, p) ==
  /\ c \in Remotes /\ ~ collection[c].exists /\ connector.exists
  /\ connector.location = "agent"
  /\ collection' = [collection EXCEPT ![c] = [NoCollection EXCEPT !.exists = TRUE, !.place = p]]
  /\ tested' = [tested EXCEPT ![c] = Untested]
  /\ Queue(c, Null)
  /\ UNCHANGED <<connector, capable, analyses, cache, known>>

(* Mutant: a local collection keeps its verdict when it moves.             *)
MovedQuietly(c, p, a) == [collection[c] EXCEPT !.place = p, !.agent = a]
(* A local collection at another place is of unknown access; one bound to  *)
(* another agent is not: agent_changed compares what was just assigned.    *)
Moved(c, p, a) == [collection[c] EXCEPT !.place = p, !.agent = a,
                     !.accessible = IF p # collection[c].place THEN "unknown" ELSE @]

(* Mutant: nothing is dropped.                                              *)
KeepListing(w, c) == UNCHANGED cache
(* The cache is that of the process that handles the request.              *)
Invalidate(w, c) == cache' = [cache EXCEPT ![w][c] = Null]

UpdateLocal(w, c, p, a) ==
  /\ c \in Locals /\ collection[c].exists
  /\ a # collection[c].agent => Rebinds
  /\ collection' = [collection EXCEPT ![c] = Moved(c, p, a)]
  /\ tested' = [tested EXCEPT ![c] = IF Moved(c, p, a).accessible = "unknown" THEN Untested ELSE @]
  /\ IF p # collection[c].place THEN Invalidate(w, c) ELSE UNCHANGED cache
  /\ IF Moved(c, p, a).accessible = "unknown" THEN QueueAfter(c, a) ELSE UNCHANGED tests
  /\ UNCHANGED <<connector, capable, analyses, known>>

MoveRemote(w, c, p, verdict) ==
  /\ c \in Remotes /\ collection[c].exists
  /\ p # collection[c].place
  /\ verdict \in ConnectorAnswers
  /\ collection' = [collection EXCEPT ![c].place = p, ![c].accessible = verdict]
  /\ tested' = [tested EXCEPT ![c] = By(p, Null)]
  /\ Invalidate(w, c)
  /\ UNCHANGED <<connector, capable, tests, analyses, known>>

(* The state of a collection (live, closed, archived) sets how long its    *)
(* listing is kept; a change drops it.                                     *)
ChangeState(w, c) ==
  /\ collection[c].exists
  /\ Invalidate(w, c)
  /\ UNCHANGED <<connector, capable, collection, tests, analyses, known, tested>>

(* Results and open jobs are in the way of a deletion that is not forced.  *)
DeleteCollection(w, c, force) ==
  /\ collection[c].exists
  /\ collection[c].results \/ OpenTests(c) # {} \/ c \in analyses => force
  /\ collection' = [collection EXCEPT ![c] = NoCollection]
  /\ tests' \in Remaining(DOMAIN tests \ OpenTests(c))
  /\ analyses' = analyses \ {c}
  /\ tested' = [tested EXCEPT ![c] = Untested]
  /\ Invalidate(w, c)
  /\ known' = [a \in Agents |-> [known[a] EXCEPT ![c] = Null]]
  /\ UNCHANGED <<connector, capable>>

TestCollection(c) ==
  /\ collection[c].exists
  /\ \/ /\ c \in Locals \/ connector.location = "agent"
        /\ Queue(c, collection[c].agent)
        /\ Judged(c, "unknown", Untested)
     \/ /\ c \in Remotes /\ connector.location # "agent"
        /\ \E verdict \in ConnectorAnswers : Judged(c, verdict, By(collection[c].place, Null))
        /\ UNCHANGED tests
  /\ UNCHANGED <<connector, capable, analyses, cache, known>>

-----------------------------------------------------------------------------
(* Agents.                                                                 *)
MayRun(a, t) == /\ t.by = Null
                /\ t.bound \in {a, Null}
                /\ t.of \in Remotes => a \in capable /\ connector.location # "pending"

(* An agent runs one job at a time, and takes the oldest that it may run.  *)
ClaimTest(a) ==
  LET i == SelectInSeq(tests, LAMBDA t : MayRun(a, t))
  IN /\ \A k \in DOMAIN tests : tests[k].by # a
     /\ i # 0
     /\ tests' = [tests EXCEPT ![i].by = a, ![i].place = collection[tests[i].of].place]
     /\ UNCHANGED <<connector, capable, collection, analyses, cache, known, tested>>

(* Whatever the test found is the verdict; a success starts analyses.      *)
CompleteTest(i, verdict) ==
  /\ tests[i].by # Null
  /\ collection' = [collection EXCEPT ![tests[i].of].accessible = verdict,
                                      ![tests[i].of].results = TRUE]
  /\ tested' = [tested EXCEPT ![tests[i].of] = By(tests[i].place, tests[i].by)]
  /\ analyses' = IF verdict = "yes" THEN analyses \cup {tests[i].of} ELSE analyses
  /\ tests' \in Remaining(DOMAIN tests \ {i})
  /\ UNCHANGED <<connector, capable, cache, known>>

(* The job of an agent that fell silent goes back to the queue.            *)
ReleaseTest(i) ==
  /\ tests[i].by # Null
  /\ tests' = [tests EXCEPT ![i].by = Null, ![i].place = Null]
  /\ UNCHANGED <<connector, capable, collection, analyses, cache, known, tested>>

(* Failed, cancelled, or given up after its retries.                       *)
LoseTest(i) ==
  /\ Faults
  /\ tests' \in Remaining(DOMAIN tests \ {i})
  /\ UNCHANGED <<connector, capable, collection, analyses, cache, known, tested>>

FinishAnalyses(c) ==
  /\ analyses' = analyses \ {c}
  /\ collection' = [collection EXCEPT ![c].results = TRUE]
  /\ UNCHANGED <<connector, capable, tests, cache, known, tested>>

(* The command line works on the list it fetched last.                     *)
SyncCollections(a) ==
  /\ ByCli
  /\ known' = [known EXCEPT ![a] = [c \in AllCollections |->
                 IF collection[c].exists /\ collection[c].agent = a THEN collection[c].place ELSE Null]]
  /\ UNCHANGED <<connector, capable, collection, tests, analyses, cache, tested>>

AgentTest(a, c, verdict) ==
  /\ ByCli
  /\ known[a][c] # Null
  /\ collection[c].exists /\ collection[c].agent = a
  /\ Judged(c, verdict, By(known[a][c], a))
  /\ UNCHANGED <<connector, capable, tests, analyses, cache, known>>

-----------------------------------------------------------------------------
(* Listings.                                                               *)
RefreshCache(w, c) ==
  /\ collection[c].exists /\ collection[c].accessible = "yes"
  /\ cache' = [cache EXCEPT ![w][c] = collection[c].place]
  /\ UNCHANGED <<connector, capable, collection, tests, analyses, known, tested>>

Expire(w, c) ==
  /\ cache[w][c] # Null
  /\ Invalidate(w, c)
  /\ UNCHANGED <<connector, capable, collection, tests, analyses, known, tested>>

Next ==
  \/ \E l \in {"server", "agent", "pending"}, x, y, z \in BOOLEAN :
       CreateConnector(l, z) \/ UpdateConnector(l, x, y, z)
  \/ \E a \in Agents, has \in BOOLEAN : ReportCapability(a, has)
  \/ DeleteConnector
  \/ \E c \in AllCollections, p \in Places, a \in Agents : CreateLocal(c, p, a) \/ AgentCreate(c, p, a)
  \/ \E c \in AllCollections, p \in Places, v \in {"yes", "no"} : CreateRemote(c, p, v)
  \/ \E c \in AllCollections, p \in Places : CreateFromInventory(c, p)
  \/ \E w \in Processes, c \in AllCollections, p \in Places, a \in Agents : UpdateLocal(w, c, p, a)
  \/ \E w \in Processes, c \in AllCollections, p \in Places, v \in {"yes", "no"} : MoveRemote(w, c, p, v)
  \/ \E w \in Processes, c \in AllCollections : ChangeState(w, c) \/ RefreshCache(w, c) \/ Expire(w, c)
  \/ \E w \in Processes, c \in AllCollections, force \in BOOLEAN : DeleteCollection(w, c, force)
  \/ \E c \in AllCollections : TestCollection(c)
  \/ \E a \in Agents : ClaimTest(a) \/ SyncCollections(a)
  \/ \E i \in DOMAIN tests, v \in {"yes", "no"} : CompleteTest(i, v)
  \/ \E i \in DOMAIN tests : ReleaseTest(i) \/ LoseTest(i)
  \/ \E c \in analyses : FinishAnalyses(c)
  \/ \E a \in Agents, c \in AllCollections, v \in {"yes", "no"} : AgentTest(a, c, v)

Spec == Init /\ [][Next]_vars

-----------------------------------------------------------------------------
(* A local collection without an open test has a verdict, from the agent   *)
(* it is bound to and about the place where it is: no sequence of moves,   *)
(* releases and late answers leaves an older answer behind.  Rebinding,    *)
(* faults and the command line break it, and remote collections do not     *)
(* have it: a move is answered at once by what the server can tell, and an *)
(* agent's answer about the place before may follow.                       *)
TestedWhereItIs ==
  \A c \in Locals : collection[c].exists /\ OpenTests(c) = {}
    => /\ collection[c].accessible # "unknown"
       /\ tested[c] = [place |-> collection[c].place, by |-> collection[c].agent]

(* The server keeps no credentials of a connector whose credentials are    *)
(* said to be elsewhere, wherever it moved from (update_connector).        *)
SecretsOnlyOnServer == connector.credentials => connector.location = "server"

(* A connector whose credentials are on the server has them there.         *)
ServerHasCredentials == connector.exists /\ connector.location = "server" => connector.credentials

(* A listing kept is that of the place where the collection is.            *)
ListingCurrent ==
  \A w \in Processes, c \in AllCollections : cache[w][c] \in {Null, collection[c].place}
=============================================================================
