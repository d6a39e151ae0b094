------------------------------ MODULE Pipelines ------------------------------
(***************************************************************************)
(* Pipelines, their versions, and which one an analysis follows.  The      *)
(* requests on pipelines are handled by a pool of threads: each reads the  *)
(* row first, checks what it read, and later writes the columns that it    *)
(* changed, so that requests overlap.  A collection may be assigned a      *)
(* pipeline, whose version at that time is pinned.                         *)
(***************************************************************************)
EXTENDS Naturals, FiniteSets

CONSTANTS
  Pipelines, Teams, Collections,
  Handlers,     \* requests on pipelines handled at the same time
  Contents,     \* definitions (nodes and edges) of pipelines
  Valids,       \* those that _validate_structure accepts
  Null,
  MaxVersion    \* bound: version of a pipeline

ConstantsAssumption ==
  /\ Valids \subseteq Contents
  /\ Null \notin Pipelines \cup Collections \cup Contents
  /\ MaxVersion \in Nat \ {0}

VARIABLES
  pipeline,    \* pipeline[p]: the row of p
  history,     \* the rows of pipeline_history
  collection,  \* collection[c]: its team, and the pipeline and version assigned to it
  job,         \* job[c]: the analysis queued for c
  results,     \* the results: pipeline and version they name, and the definition followed
  handler      \* handler[h]: the request that h handles

vars == <<pipeline, history, collection, job, results, handler>>

Numbers == 0 .. MaxVersion  \* 0: none
Pipeline == [exists: BOOLEAN, team: Teams, version: Numbers, content: Contents \cup {Null},
             active: BOOLEAN, default: BOOLEAN]
(* A new row has an identifier of its own.                                 *)
NewId(p) == ~ pipeline[p].exists /\ \A h \in Handlers : handler[h].pipeline # p
Version == [pipeline: Pipelines, version: Numbers, content: Contents]
Choice == [pipeline: Pipelines \cup {Null}, version: Numbers]
NoChoice == [pipeline |-> Null, version |-> 0]
Ops == {"idle", "update", "delete", "activate", "deactivate", "default", "cleared", "unset", "assign"}
Handler == [op: Ops, pipeline: Pipelines \cup {Null}, row: Pipeline \cup {Null},
            content: Contents \cup {Null}, of: Collections \cup {Null}, cleared: SUBSET Pipelines]
Idle == [op |-> "idle", pipeline |-> Null, row |-> Null, content |-> Null, of |-> Null, cleared |-> {}]

TypeOK == /\ pipeline \in [Pipelines -> Pipeline]
          /\ history \subseteq Version
          /\ collection \in [Collections -> [team: Teams, assigned: Choice]]
          /\ job \in [Collections -> Choice \cup {Null}]
          /\ results \subseteq Version
          /\ handler \in [Handlers -> Handler]

Init == /\ pipeline \in [Pipelines -> {[exists |-> FALSE, team |-> t, version |-> 0, content |-> Null,
                                        active |-> FALSE, default |-> FALSE] : t \in Teams}]
        /\ history = {}
        /\ collection \in [Collections -> {[team |-> t, assigned |-> NoChoice] : t \in Teams}]
        /\ job = [c \in Collections |-> Null]
        /\ results = {}
        /\ handler = [h \in Handlers |-> Idle]

Valid(p) == pipeline[p].content \in Valids
Defaults == {p \in Pipelines : pipeline[p].default}
Stored(p) == {v \in history : v.pipeline = p} \cup
             {[pipeline |-> p, version |-> pipeline[p].version, content |-> pipeline[p].content]}

-----------------------------------------------------------------------------
(* Requests on pipelines: what is read and checked.                        *)
Create(p, content) ==
  /\ NewId(p)
  /\ pipeline' = [pipeline EXCEPT ![p].exists = TRUE, ![p].version = 1, ![p].content = content]
  /\ UNCHANGED <<history, collection, job, results, handler>>

Accepted(op, p) ==
  CASE op = "update" -> pipeline[p].version < MaxVersion  \* the bound
    [] op = "delete" -> ~ pipeline[p].default /\ ~ pipeline[p].active
    [] op = "activate" -> Valid(p)
    [] op \in {"default", "assign"} -> pipeline[p].active
    [] op \in {"deactivate", "unset"} -> TRUE

Request(h, op, p, content, c) ==
  /\ handler[h].op = "idle"
  /\ pipeline[p].exists /\ Accepted(op, p)
  /\ (op = "update") = (content # Null)
  /\ (op = "assign") = (c # Null)
  /\ op = "assign" => collection[c].team = pipeline[p].team
  /\ handler' = [handler EXCEPT ![h] = [Idle EXCEPT !.op = op, !.pipeline = p, !.row = pipeline[p],
                                                    !.content = content, !.of = c]]
  /\ UNCHANGED <<pipeline, history, collection, job, results>>

-----------------------------------------------------------------------------
(* Requests on pipelines: what is written.                                 *)
Done(h) == handler' = [handler EXCEPT ![h] = Idle]
Write(p, row) == pipeline' = [pipeline EXCEPT ![p] = row]
Loaded(h) == handler[h].row
Now(h) == pipeline[handler[h].pipeline]

(* Mutant: the version is saved under the number of the next.              *)
SavedAsNext(h) == [pipeline |-> handler[h].pipeline, version |-> Loaded(h).version + 1,
                   content |-> Loaded(h).content]
Saved(h) == [pipeline |-> handler[h].pipeline, version |-> Loaded(h).version,
             content |-> Loaded(h).content]

(* Mutant: without the index, any version may be saved.                    *)
AnyVersion(h) == TRUE
(* The unique index on pipeline and version.                               *)
FirstOfVersion(h) == \A v \in history : v.pipeline = handler[h].pipeline => v.version # Saved(h).version

(* Mutant: an invalid pipeline stays active.                               *)
StaysActive(h) == [Now(h) EXCEPT !.version = Loaded(h).version + 1, !.content = handler[h].content]
Updated(h) ==
  LET off == handler[h].content \notin Valids /\ Loaded(h).active
  IN [Now(h) EXCEPT !.version = Loaded(h).version + 1, !.content = handler[h].content,
                    !.active = @ /\ ~ off, !.default = @ /\ ~ (off /\ Loaded(h).default)]

CommitUpdate(h) ==
  /\ handler[h].op = "update"
  /\ FirstOfVersion(h) /\ Now(h).exists
  /\ Write(handler[h].pipeline, Updated(h))
  /\ history' = history \cup {Saved(h)}
  /\ Done(h)
  /\ UNCHANGED <<collection, job, results>>

Forget(choice, p) == IF choice.pipeline = p THEN [choice EXCEPT !.pipeline = Null] ELSE choice
CommitDelete(h) ==
  LET p == handler[h].pipeline
  IN /\ handler[h].op = "delete"
     /\ Now(h).exists
     /\ Write(p, [exists |-> FALSE, team |-> Now(h).team, version |-> 0, content |-> Null,
                  active |-> FALSE, default |-> FALSE])
     /\ history' = {v \in history : v.pipeline # p}
     /\ collection' = [c \in Collections |-> [collection[c] EXCEPT !.assigned = Forget(@, p)]]
     /\ job' = [c \in Collections |-> IF job[c] = Null THEN Null ELSE Forget(job[c], p)]
     /\ results' = {r \in results : r.pipeline # p}
     /\ Done(h)

CommitActivity(h) ==
  /\ handler[h].op \in {"activate", "deactivate", "unset"}
  /\ Now(h).exists
  /\ Write(handler[h].pipeline,
       CASE handler[h].op = "activate" -> [Now(h) EXCEPT !.active = @ \/ ~ Loaded(h).active]
         [] handler[h].op = "deactivate" -> [Now(h) EXCEPT !.active = @ /\ ~ Loaded(h).active,
                                                           !.default = @ /\ ~ Loaded(h).default]
         [] handler[h].op = "unset" -> [Now(h) EXCEPT !.default = @ /\ ~ Loaded(h).default])
  /\ Done(h)
  /\ UNCHANGED <<history, collection, job, results>>

(* set_default clears the defaults that it sees, those of every team.      *)
ClearDefaults(h) ==
  /\ handler[h].op = "default"
  /\ handler' = [handler EXCEPT ![h].op = "cleared", ![h].cleared = Defaults]
  /\ UNCHANGED <<pipeline, history, collection, job, results>>

CommitDefault(h) ==
  /\ handler[h].op = "cleared"
  /\ Now(h).exists
  /\ pipeline' = [p \in Pipelines |->
       [pipeline[p] EXCEPT !.default = \/ p = handler[h].pipeline
                                       \/ @ /\ p \notin handler[h].cleared]]
  /\ Done(h)
  /\ UNCHANGED <<history, collection, job, results>>

CommitAssign(h) ==
  /\ handler[h].op = "assign"
  /\ Now(h).exists
  /\ collection' = [collection EXCEPT ![handler[h].of].assigned =
                      [pipeline |-> handler[h].pipeline, version |-> Loaded(h).version]]
  /\ Done(h)
  /\ UNCHANGED <<pipeline, history, job, results>>

(* The row is gone, or the version was saved by another request.           *)
Fail(h) ==
  /\ handler[h].op \notin {"idle", "default"}
  /\ \/ ~ Now(h).exists
     \/ handler[h].op = "update" /\ ~ FirstOfVersion(h)
  /\ Done(h)
  /\ UNCHANGED <<pipeline, history, collection, job, results>>

ClearPipeline(c) ==
  /\ collection' = [collection EXCEPT ![c].assigned = NoChoice]
  /\ UNCHANGED <<pipeline, history, job, results, handler>>

-----------------------------------------------------------------------------
(* Analyses.                                                               *)
Current(p) == [pipeline |-> p, version |-> pipeline[p].version]
Usable(p) == pipeline[p].active /\ Valid(p)

(* The choices of _resolve_pipeline_for_collection, for validations.       *)
Resolved(c) ==
  LET a == collection[c].assigned
  IN IF a.pipeline # Null
     THEN {x \in {a} : Usable(a.pipeline) /\ \E v \in Stored(a.pipeline) : v.version = a.version}
     ELSE {Current(p) : p \in {q \in Defaults : Valid(q)}}

(* Those of _get_pipeline_for_collection, for the other tools.             *)
Preferred(c) ==
  LET a == collection[c].assigned
  IN IF a.pipeline # Null THEN {a}
     ELSE IF Defaults # {} THEN {Current(p) : p \in Defaults} ELSE {NoChoice}

Run(c) ==
  /\ job[c] = Null
  /\ \E x \in Resolved(c) \cup Preferred(c) \cup
              {Current(p) : p \in {q \in Pipelines : Usable(q) /\ pipeline[q].team = collection[c].team}} :
       job' = [job EXCEPT ![c] = x]
  /\ UNCHANGED <<pipeline, history, collection, results, handler>>

(* The definition that the agent is sent with the job's configuration.     *)
Sent(x) == pipeline[x.pipeline].content

Analyse(c) ==
  /\ job[c] # Null
  /\ job' = [job EXCEPT ![c] = Null]
  /\ results' = IF job[c].pipeline = Null THEN results
                ELSE results \cup {[pipeline |-> job[c].pipeline, version |-> job[c].version,
                                    content |-> Sent(job[c])]}
  /\ UNCHANGED <<pipeline, history, collection, handler>>

Next ==
  \/ \E p \in Pipelines, x \in Contents : Create(p, x)
  \/ \E h \in Handlers, op \in Ops \ {"idle", "cleared"}, p \in Pipelines,
        x \in Contents \cup {Null}, c \in Collections \cup {Null} : Request(h, op, p, x, c)
  \/ \E h \in Handlers : \/ CommitUpdate(h) \/ CommitDelete(h) \/ CommitActivity(h)
                         \/ ClearDefaults(h) \/ CommitDefault(h) \/ CommitAssign(h) \/ Fail(h)
  \/ \E c \in Collections : ClearPipeline(c) \/ Run(c) \/ Analyse(c)

Spec == Init /\ [][Next]_vars

-----------------------------------------------------------------------------
(* With one request at a time: at most one pipeline is the default, it is  *)
(* active, and what is active is valid, whatever is edited, activated and  *)
(* made default in between.  With two, a request decides on a row that     *)
(* another one changes.                                                    *)
DefaultUsable ==
  /\ Cardinality(Defaults) <= 1
  /\ \A p \in Pipelines : /\ pipeline[p].default => pipeline[p].active
                          /\ pipeline[p].active => Valid(p)

(* A version of a pipeline has one definition, for ever: requests that     *)
(* overlap neither lose a definition nor store two under one number.       *)
KeepsVersions ==
  \A p \in Pipelines : pipeline[p].exists /\ pipeline'[p].exists =>
    /\ Stored(p) \subseteq Stored(p)'
    /\ \A v, w \in Stored(p)' : v.version = w.version => v = w
VersionsKept == [][KeepsVersions]_vars

(* A version that is pinned by a collection can be found.                  *)
PinnedStored ==
  \A c \in Collections : LET a == collection[c].assigned
                         IN a.pipeline # Null => \E v \in Stored(a.pipeline) : v.version = a.version

(* A result that names a version of a pipeline is one of that version.     *)
ResultsOfTheirVersion ==
  \A r \in results : r \in Stored(r.pipeline)

(* A team's default stays until the team changes it: stated of a request   *)
(* on a pipeline of another team.                                          *)
OtherTeamsKeepDefault ==
  [][\A p, q \in Pipelines : /\ pipeline[p].default /\ pipeline'[p].exists /\ ~ pipeline'[p].default
                             /\ ~ pipeline[q].default /\ pipeline'[q].default
                             => pipeline[p].team = pipeline[q].team]_vars
=============================================================================
