--------------------------- MODULE PipelinesProofs ---------------------------
(* The versions of a pipeline are numbered without gaps, so that a request *)
(* that lost a race finds its number taken; what it read is never newer    *)
(* than the row, and the same where it has the row's version.              *)
EXTENDS Pipelines, FiniteSetTheorems, TLAPS

Rows ==
  \A p \in Pipelines :
    IF pipeline[p].exists THEN pipeline[p].version >= 1 /\ pipeline[p].content \in Contents
    ELSE ~ pipeline[p].default /\ ~ pipeline[p].active

(* The history of p holds each version before the current one, and no      *)
(* other; that of a pipeline that does not exist is empty.                 *)
Complete(p) ==
  /\ \A v \in history : v.pipeline = p =>
       pipeline[p].exists /\ 1 <= v.version /\ v.version < pipeline[p].version
  /\ \A n \in Numbers : pipeline[p].exists /\ 1 <= n /\ n < pipeline[p].version =>
       \E v \in history : v.pipeline = p /\ v.version = n

Unique == \A v, w \in history : v.pipeline = w.pipeline /\ v.version = w.version => v = w

(* What a request read of its pipeline is the row, or older.               *)
Read(h) ==
  LET row == handler[h].row
      p == handler[h].pipeline
  IN /\ p \in Pipelines /\ row \in Pipeline
     /\ row.version >= 1 /\ row.content \in Contents
     /\ pipeline[p].exists =>
          /\ row.version <= pipeline[p].version
          /\ row.version = pipeline[p].version => row.content = pipeline[p].content
     /\ handler[h].op = "update" => row.version < MaxVersion /\ handler[h].content \in Contents
     /\ handler[h].op = "assign" => handler[h].of \in Collections

(* A choice names a version that its pipeline has, or had.                 *)
Names(choice) ==
  choice.pipeline # Null =>
    /\ pipeline[choice.pipeline].exists
    /\ 1 <= choice.version /\ choice.version <= pipeline[choice.pipeline].version

IInv == /\ TypeOK /\ Rows /\ Unique
        /\ \A p \in Pipelines : Complete(p)
        /\ \A h \in Handlers : handler[h].op # "idle" => Read(h)
        /\ \A c \in Collections : Names(collection[c].assigned)
        /\ \A c \in Collections : job[c] # Null /\ job[c].pipeline # Null => pipeline[job[c].pipeline].exists

LEMMA IdleFits == Idle \in Handler /\ Idle.op = "idle"
  BY DEF Idle, Handler, Ops

LEMMA NumbersDef ==
  ASSUME ConstantsAssumption
  PROVE  /\ MaxVersion \in Nat /\ MaxVersion >= 1
         /\ \A n : n \in Numbers <=> n \in Nat /\ n <= MaxVersion
  BY DEF ConstantsAssumption, Numbers

LEMMA DoneFrees ==
  ASSUME TypeOK, NEW h \in Handlers, Done(h)
  PROVE  /\ handler' \in [Handlers -> Handler]
         /\ handler'[h].op = "idle"
         /\ \A g \in Handlers \ {h} : handler'[g] = handler[g]
  BY IdleFits DEF TypeOK, Done

LEMMA InitIInv ==
  ASSUME ConstantsAssumption, Init
  PROVE  IInv
  <1>1. \A t \in Teams : [exists |-> FALSE, team |-> t, version |-> 0, content |-> Null,
                          active |-> FALSE, default |-> FALSE] \in Pipeline
    BY NumbersDef DEF Pipeline
  <1>2. /\ pipeline \in [Pipelines -> Pipeline]
        /\ \A p \in Pipelines : ~ pipeline[p].exists /\ ~ pipeline[p].default /\ ~ pipeline[p].active
    BY <1>1 DEF Init
  <1>3. NoChoice \in Choice /\ NoChoice.pipeline = Null
    BY NumbersDef DEF NoChoice, Choice
  <1>4. /\ collection \in [Collections -> [team: Teams, assigned: Choice]]
        /\ \A c \in Collections : collection[c].assigned = NoChoice
    BY <1>3 DEF Init
  <1>5. TypeOK
    BY <1>2, <1>4, IdleFits DEF Init, TypeOK
  <1>6. Rows /\ Unique /\ \A p \in Pipelines : Complete(p)
    BY <1>2 DEF Init, Rows, Unique, Complete
  <1>7. QED
    BY <1>3, <1>4, <1>5, <1>6, IdleFits DEF Init, IInv, Names

-----------------------------------------------------------------------------
(* Steps that change no version.                                           *)
SameRow(p) == /\ pipeline'[p].exists = pipeline[p].exists
              /\ pipeline'[p].version = pipeline[p].version
              /\ pipeline'[p].content = pipeline[p].content

(* h goes on with what it read.                                            *)
Continues(h) == /\ handler[h].op # "idle"
                /\ handler'[h].op \in {handler[h].op, "cleared"}
                /\ handler'[h].pipeline = handler[h].pipeline
                /\ handler'[h].row = handler[h].row
                /\ handler'[h].content = handler[h].content
                /\ handler'[h].of = handler[h].of

LEMMA NoNewVersion ==
  ASSUME IInv, TypeOK', history' = history, \A p \in Pipelines : SameRow(p),
         \A p \in Pipelines : ~ pipeline[p].exists => ~ pipeline'[p].default /\ ~ pipeline'[p].active,
         \A h \in Handlers : \/ handler'[h].op = "idle" \/ Continues(h) \/ Read(h)',
         \A c \in Collections : \/ collection'[c].assigned = collection[c].assigned
                                \/ Names(collection[c].assigned)',
         \A c \in Collections : \/ job'[c] = job[c]
                                \/ job'[c] # Null /\ job'[c].pipeline # Null =>
                                     pipeline[job'[c].pipeline].exists
  PROVE  /\ IInv'
         /\ \A p \in Pipelines : Stored(p)' = Stored(p)
  <1>1. Rows' /\ Unique'
    BY DEF IInv, Rows, Unique, SameRow
  <1>2. \A p \in Pipelines : Complete(p)'
    BY DEF IInv, Complete, SameRow
  <1>3. ASSUME NEW h \in Handlers, handler'[h].op # "idle"
        PROVE  Read(h)'
    <2>1. CASE Continues(h)
      <3>1. Read(h)
        BY <2>1 DEF IInv, Continues
      <3>2. QED
        BY <2>1, <3>1 DEF Continues, Read, SameRow
    <2>2. QED
      BY <1>3, <2>1
  <1>4. ASSUME NEW c \in Collections
        PROVE  /\ Names(collection[c].assigned)'
               /\ job'[c] # Null /\ job'[c].pipeline # Null => pipeline'[job'[c].pipeline].exists
    <2>1. collection[c].assigned \in Choice /\ job[c] \in Choice \cup {Null} /\ job'[c] \in Choice \cup {Null}
      BY DEF IInv, TypeOK
    <2>2. Names(collection[c].assigned)
      BY DEF IInv
    <2>3. Names(collection[c].assigned)'
      BY <2>1, <2>2 DEF Names, SameRow, Choice
    <2>4. job'[c] # Null /\ job'[c].pipeline # Null => pipeline[job'[c].pipeline].exists
      BY DEF IInv
    <2>5. QED
      BY <2>1, <2>3, <2>4 DEF SameRow, Choice
  <1>5. \A p \in Pipelines : Stored(p)' = Stored(p)
    BY DEF Stored, SameRow
  <1>6. QED
    BY <1>1, <1>2, <1>3, <1>4, <1>5 DEF IInv

LEMMA SameRows ==
  ASSUME pipeline' = pipeline
  PROVE  \A p \in Pipelines : SameRow(p)
  BY DEF SameRow

LEMMA RequestKeeps ==
  ASSUME ConstantsAssumption, IInv, NEW h \in Handlers, NEW op \in Ops \ {"idle", "cleared"},
         NEW p \in Pipelines, NEW x \in Contents \cup {Null}, NEW c \in Collections \cup {Null},
         Request(h, op, p, x, c)
  PROVE  IInv' /\ \A q \in Pipelines : Stored(q)' = Stored(q)
  <1> DEFINE new == [Idle EXCEPT !.op = op, !.pipeline = p, !.row = pipeline[p],
                                 !.content = x, !.of = c]
  <1>1. pipeline[p] \in Pipeline /\ TypeOK
    BY DEF IInv, TypeOK
  <1>2. /\ new \in Handler /\ new.op = op /\ new.pipeline = p /\ new.row = pipeline[p]
        /\ new.content = x /\ new.of = c
    BY <1>1 DEF Idle, Handler
  <1>3. /\ handler' = [handler EXCEPT ![h] = new]
        /\ UNCHANGED <<pipeline, history, collection, job, results>>
    BY DEF Request
  <1> HIDE DEF new
  <1>4. /\ handler' \in [Handlers -> Handler] /\ handler'[h] = new
        /\ \A g \in Handlers \ {h} : handler'[g] = handler[g]
    BY <1>1, <1>2, <1>3 DEF TypeOK
  <1>5. TypeOK'
    BY <1>1, <1>3, <1>4 DEF TypeOK
  <1>6. Read(h)'
    <2>1. pipeline[p].exists /\ pipeline[p].version \in Nat
      BY <1>1, NumbersDef DEF Request, Pipeline
    <2>2. pipeline[p].version >= 1 /\ pipeline[p].content \in Contents
      BY <2>1 DEF IInv, Rows
    <2>3. op = "update" => x \in Contents /\ pipeline[p].version < MaxVersion
      BY DEF Request, Accepted
    <2>4. op = "assign" => c \in Collections
      BY DEF Request
    <2>5. QED
      BY <1>1, <1>2, <1>3, <1>4, <2>1, <2>2, <2>3, <2>4 DEF Read
  <1>7. \A g \in Handlers : handler'[g].op = "idle" \/ Continues(g) \/ Read(g)'
    BY <1>4, <1>6 DEF Continues
  <1>8. QED
    BY <1>3, <1>5, <1>7, SameRows, NoNewVersion DEF IInv, Rows

(* What changes the flags of rows only.                                    *)
LEMMA ActiveFits ==
  ASSUME NEW row \in Pipeline, NEW a \in BOOLEAN
  PROVE  LET new == [row EXCEPT !.active = a]
         IN /\ new \in Pipeline /\ new.active = a /\ new.default = row.default
            /\ new.exists = row.exists /\ new.version = row.version /\ new.content = row.content
  BY DEF Pipeline

LEMMA DefaultFits ==
  ASSUME NEW row \in Pipeline, NEW d \in BOOLEAN
  PROVE  LET new == [row EXCEPT !.default = d]
         IN /\ new \in Pipeline /\ new.active = row.active /\ new.default = d
            /\ new.exists = row.exists /\ new.version = row.version /\ new.content = row.content
  BY DEF Pipeline

LEMMA ActivityEffect ==
  ASSUME ConstantsAssumption, IInv, NEW h \in Handlers, CommitActivity(h)
  PROVE  LET p == handler[h].pipeline
             row == handler[h].row
         IN /\ p \in Pipelines /\ pipeline[p].exists /\ pipeline' \in [Pipelines -> Pipeline]
            /\ \A q \in Pipelines \ {p} : pipeline'[q] = pipeline[q]
            /\ SameRow(p)
            /\ handler[h].op \in {"activate", "deactivate", "unset"}
            /\ handler[h].op = "activate" =>
                 /\ pipeline'[p].active = (pipeline[p].active \/ ~ row.active)
                 /\ pipeline'[p].default = pipeline[p].default
            /\ handler[h].op = "deactivate" =>
                 /\ pipeline'[p].active = (pipeline[p].active /\ ~ row.active)
                 /\ pipeline'[p].default = (pipeline[p].default /\ ~ row.default)
            /\ handler[h].op = "unset" =>
                 /\ pipeline'[p].active = pipeline[p].active
                 /\ pipeline'[p].default = (pipeline[p].default /\ ~ row.default)
  <1> DEFINE p == handler[h].pipeline
             on == pipeline[p].active \/ ~ handler[h].row.active
             off == pipeline[p].active /\ ~ handler[h].row.active
             no == pipeline[p].default /\ ~ handler[h].row.default
             activated == [pipeline[p] EXCEPT !.active = on]
             deactivated == [pipeline[p] EXCEPT !.active = off, !.default = no]
             unset == [pipeline[p] EXCEPT !.default = no]
  <1>1. handler[h].op \in {"activate", "deactivate", "unset"} /\ pipeline[p].exists
    BY DEF CommitActivity, Now
  <1>2. p \in Pipelines /\ pipeline \in [Pipelines -> Pipeline] /\ pipeline[p] \in Pipeline
    BY <1>1 DEF IInv, Read, TypeOK
  <1>3. on \in BOOLEAN /\ off \in BOOLEAN /\ no \in BOOLEAN
    OBVIOUS
  <1>4. /\ handler[h].op = "activate" => pipeline' = [pipeline EXCEPT ![p] = activated]
        /\ handler[h].op = "deactivate" => pipeline' = [pipeline EXCEPT ![p] = deactivated]
        /\ handler[h].op = "unset" => pipeline' = [pipeline EXCEPT ![p] = unset]
    BY <1>1 DEF CommitActivity, Now, Write, Loaded
  <1> HIDE DEF on, off, no
  <1>5. /\ activated \in Pipeline /\ deactivated \in Pipeline /\ unset \in Pipeline
        /\ activated.active = on /\ activated.default = pipeline[p].default
        /\ deactivated.active = off /\ deactivated.default = no
        /\ unset.active = pipeline[p].active /\ unset.default = no
        /\ \A new \in {activated, deactivated, unset} :
             /\ new.exists = pipeline[p].exists /\ new.version = pipeline[p].version
             /\ new.content = pipeline[p].content
    <2>1. /\ activated \in Pipeline /\ activated.active = on
          /\ activated.default = pipeline[p].default
          /\ activated.exists = pipeline[p].exists /\ activated.version = pipeline[p].version
          /\ activated.content = pipeline[p].content
      BY <1>2, <1>3, ActiveFits
    <2>2. /\ deactivated \in Pipeline /\ deactivated.active = off /\ deactivated.default = no
          /\ deactivated.exists = pipeline[p].exists /\ deactivated.version = pipeline[p].version
          /\ deactivated.content = pipeline[p].content
      BY <1>2, <1>3 DEF Pipeline
    <2>3. /\ unset \in Pipeline /\ unset.active = pipeline[p].active /\ unset.default = no
          /\ unset.exists = pipeline[p].exists /\ unset.version = pipeline[p].version
          /\ unset.content = pipeline[p].content
      BY <1>2, <1>3, DefaultFits
    <2> HIDE DEF activated, deactivated, unset
    <2>4. QED
      BY <2>1, <2>2, <2>3
  <1> HIDE DEF activated, deactivated, unset
  <1>6. ASSUME NEW new \in {activated, deactivated, unset}, pipeline' = [pipeline EXCEPT ![p] = new]
        PROVE  /\ pipeline' \in [Pipelines -> Pipeline] /\ pipeline'[p] = new
               /\ \A q \in Pipelines \ {p} : pipeline'[q] = pipeline[q]
               /\ SameRow(p)
    BY <1>2, <1>5, <1>6 DEF SameRow
  <1>7. CASE handler[h].op = "activate"
    <2>1. pipeline'[p].active = on /\ pipeline'[p].default = pipeline[p].default
      BY <1>4, <1>5, <1>6, <1>7
    <2>2. QED
      BY <1>1, <1>2, <1>4, <1>6, <1>7, <2>1 DEF on
  <1>8. CASE handler[h].op = "deactivate"
    <2>1. pipeline'[p].active = off /\ pipeline'[p].default = no
      BY <1>4, <1>5, <1>6, <1>8
    <2>2. QED
      BY <1>1, <1>2, <1>4, <1>6, <1>8, <2>1 DEF off, no
  <1>9. CASE handler[h].op = "unset"
    <2>1. pipeline'[p].active = pipeline[p].active /\ pipeline'[p].default = no
      BY <1>4, <1>5, <1>6, <1>9
    <2>2. QED
      BY <1>1, <1>2, <1>4, <1>6, <1>9, <2>1 DEF no
  <1>10. QED
    BY <1>1, <1>7, <1>8, <1>9

LEMMA CommitActivityKeeps ==
  ASSUME ConstantsAssumption, IInv, NEW h \in Handlers, CommitActivity(h)
  PROVE  IInv' /\ \A q \in Pipelines : Stored(q)' = Stored(q)
  <1> DEFINE p == handler[h].pipeline
  <1>1. /\ p \in Pipelines /\ pipeline[p].exists /\ pipeline' \in [Pipelines -> Pipeline]
        /\ \A q \in Pipelines \ {p} : pipeline'[q] = pipeline[q]
        /\ SameRow(p)
    BY ActivityEffect
  <1>2. TypeOK /\ Done(h) /\ UNCHANGED <<history, collection, job, results>>
    BY DEF IInv, CommitActivity
  <1>3. /\ handler' \in [Handlers -> Handler] /\ handler'[h].op = "idle"
        /\ \A g \in Handlers \ {h} : handler'[g] = handler[g]
    BY <1>2, DoneFrees
  <1>4. TypeOK'
    BY <1>1, <1>2, <1>3 DEF TypeOK
  <1>5. \A q \in Pipelines : SameRow(q)
    BY <1>1 DEF SameRow
  <1>6. \A q \in Pipelines : ~ pipeline[q].exists => ~ pipeline'[q].default /\ ~ pipeline'[q].active
    BY <1>1 DEF IInv, Rows
  <1>7. \A g \in Handlers : handler'[g].op = "idle" \/ Continues(g)
    BY <1>3 DEF Continues
  <1>8. QED
    BY <1>2, <1>4, <1>5, <1>6, <1>7, NoNewVersion

LEMMA DefaultsKeep ==
  ASSUME ConstantsAssumption, IInv, NEW h \in Handlers, ClearDefaults(h) \/ CommitDefault(h)
  PROVE  IInv' /\ \A q \in Pipelines : Stored(q)' = Stored(q)
  <1>0. TypeOK /\ pipeline \in [Pipelines -> Pipeline]
    BY DEF IInv, TypeOK
  <1>1. CASE ClearDefaults(h)
    <2>1. Defaults \in SUBSET Pipelines
      BY DEF Defaults
    <2>2. /\ handler' = [handler EXCEPT ![h].op = "cleared", ![h].cleared = Defaults]
          /\ UNCHANGED <<pipeline, history, collection, job, results>>
          /\ handler[h].op # "idle"
      BY <1>1 DEF ClearDefaults
    <2>3. handler' \in [Handlers -> Handler]
      <3>1. handler[h] \in Handler
        BY <1>0 DEF TypeOK
      <3>2. [handler[h] EXCEPT !.op = "cleared", !.cleared = Defaults] \in Handler
        BY <2>1, <3>1 DEF Handler, Ops
      <3>3. QED
        BY <1>0, <2>2, <3>2 DEF TypeOK
    <2>4. TypeOK'
      BY <1>0, <2>2, <2>3 DEF TypeOK
    <2>5. \A g \in Handlers : handler'[g].op = "idle" \/ Continues(g)
      BY <1>0, <2>2 DEF TypeOK, Handler, Continues
    <2>6. QED
      BY <2>2, <2>4, <2>5, SameRows, NoNewVersion DEF IInv, Rows
  <1>2. CASE CommitDefault(h)
    <2> DEFINE p == handler[h].pipeline
               d(q) == q = p \/ (pipeline[q].default /\ q \notin handler[h].cleared)
    <2>1. Done(h) /\ UNCHANGED <<history, collection, job, results>> /\ pipeline[p].exists
      BY <1>2 DEF CommitDefault, Now
    <2>2. pipeline' = [q \in Pipelines |-> [pipeline[q] EXCEPT !.default = d(q)]]
      BY <1>2 DEF CommitDefault
    <2>3. \A q \in Pipelines : d(q) \in BOOLEAN
      OBVIOUS
    <2>4. \A q \in Pipelines : (~ pipeline[q].exists => ~ d(q))
      BY <2>1 DEF IInv, Rows
    <2> HIDE DEF d
    <2>5. ASSUME NEW q \in Pipelines
          PROVE  /\ pipeline'[q] \in Pipeline
                 /\ SameRow(q) /\ pipeline'[q].default = d(q) /\ pipeline'[q].active = pipeline[q].active
      <3> DEFINE b == d(q)
      <3>1. b \in BOOLEAN /\ pipeline[q] \in Pipeline /\ pipeline'[q] = [pipeline[q] EXCEPT !.default = b]
        BY <1>0, <2>2, <2>3
      <3> HIDE DEF b
      <3>2. /\ pipeline'[q] \in Pipeline
            /\ SameRow(q) /\ pipeline'[q].default = b /\ pipeline'[q].active = pipeline[q].active
        BY <3>1, DefaultFits DEF SameRow
      <3>3. QED
        BY <3>2 DEF b
    <2>6. pipeline' \in [Pipelines -> Pipeline] /\ \A q \in Pipelines : SameRow(q)
      BY <2>2, <2>5
    <2>7. /\ handler' \in [Handlers -> Handler] /\ handler'[h].op = "idle"
          /\ \A g \in Handlers \ {h} : handler'[g] = handler[g]
      BY <1>0, <2>1, DoneFrees
    <2>8. TypeOK'
      BY <1>0, <2>1, <2>6, <2>7 DEF TypeOK
    <2>9. \A q \in Pipelines : ~ pipeline[q].exists => ~ pipeline'[q].default /\ ~ pipeline'[q].active
      BY <2>4, <2>5 DEF IInv, Rows
    <2>10. \A g \in Handlers : handler'[g].op = "idle" \/ Continues(g)
      BY <2>7 DEF Continues
    <2>11. QED
      BY <2>1, <2>6, <2>8, <2>9, <2>10, NoNewVersion
  <1>3. QED
    BY <1>1, <1>2

LEMMA AssignKeeps ==
  ASSUME ConstantsAssumption, IInv, NEW h \in Handlers, CommitAssign(h) \/ Fail(h)
  PROVE  IInv' /\ \A q \in Pipelines : Stored(q)' = Stored(q)
  <1> DEFINE p == handler[h].pipeline
             c == handler[h].of
             choice == [pipeline |-> p, version |-> Loaded(h).version]
  <1>0. TypeOK /\ Read(h)
    BY DEF IInv, CommitAssign, Fail
  <1>1. Done(h) /\ UNCHANGED <<pipeline, history, job, results>>
    BY DEF CommitAssign, Fail
  <1>2. /\ handler' \in [Handlers -> Handler] /\ handler'[h].op = "idle"
        /\ \A g \in Handlers \ {h} : handler'[g] = handler[g]
    BY <1>0, <1>1, DoneFrees
  <1>3. \A g \in Handlers : handler'[g].op = "idle" \/ Continues(g)
    BY <1>2 DEF Continues
  <1>4. CASE Fail(h)
    <2>1. collection' = collection
      BY <1>4 DEF Fail
    <2>2. TypeOK'
      BY <1>0, <1>1, <1>2, <2>1 DEF TypeOK
    <2>3. QED
      BY <1>1, <1>3, <2>1, <2>2, SameRows, NoNewVersion DEF IInv, Rows
  <1>5. CASE CommitAssign(h)
    <2>1. c \in Collections /\ p \in Pipelines /\ pipeline[p].exists
      BY <1>0, <1>5 DEF CommitAssign, Read, Now
    <2>2. choice \in Choice /\ choice.pipeline = p /\ choice.version = handler[h].row.version
      BY <1>0 DEF Read, Pipeline, Choice, Loaded
    <2>3. Names(choice)
      BY <1>0, <2>1, <2>2 DEF Read, Names
    <2>4. collection' = [collection EXCEPT ![c].assigned = choice]
      BY <1>5 DEF CommitAssign
    <2> HIDE DEF choice
    <2>5. collection' \in [Collections -> [team: Teams, assigned: Choice]]
      BY <1>0, <2>1, <2>2, <2>4 DEF TypeOK
    <2>6. \A k \in Collections : collection'[k].assigned = collection[k].assigned
                                 \/ collection'[k].assigned = choice
      BY <1>0, <2>1, <2>4 DEF TypeOK
    <2>7. TypeOK'
      BY <1>0, <1>1, <1>2, <2>5 DEF TypeOK
    <2>8. \A k \in Collections : collection'[k].assigned = collection[k].assigned
                                 \/ Names(collection[k].assigned)'
      BY <1>1, <2>3, <2>6 DEF Names
    <2>9. QED
      BY <1>1, <1>3, <2>7, <2>8, SameRows, NoNewVersion DEF IInv, Rows
  <1>6. QED
    BY <1>4, <1>5

-----------------------------------------------------------------------------
(* Collections and their analyses.                                         *)

LEMMA ChosenExist ==
  ASSUME ConstantsAssumption, IInv, NEW c \in Collections,
         NEW x \in Resolved(c) \cup Preferred(c) \cup
           {Current(p) : p \in {q \in Pipelines : Usable(q) /\ pipeline[q].team = collection[c].team}}
  PROVE  x \in Choice /\ (x.pipeline # Null => pipeline[x.pipeline].exists)
  <1> DEFINE a == collection[c].assigned
  <1>1. a \in Choice /\ (a.pipeline # Null => pipeline[a.pipeline].exists)
    BY DEF IInv, TypeOK, Names
  <1>2. NoChoice \in Choice /\ NoChoice.pipeline = Null
    BY NumbersDef DEF NoChoice, Choice
  <1>3. ASSUME NEW p \in Pipelines, pipeline[p].default \/ pipeline[p].active, x = Current(p)
        PROVE  x \in Choice /\ pipeline[x.pipeline].exists
    <2>1. pipeline[p].exists /\ pipeline[p] \in Pipeline
      BY <1>3 DEF IInv, Rows, TypeOK
    <2>2. QED
      BY <1>3, <2>1 DEF Current, Choice, Pipeline
  <1>4. x \in {a, NoChoice} \/ \E p \in Pipelines : (pipeline[p].default \/ pipeline[p].active) /\ x = Current(p)
    BY DEF Resolved, Preferred, Defaults, Usable
  <1>5. QED
    BY <1>1, <1>2, <1>3, <1>4

LEMMA CollectionKeeps ==
  ASSUME ConstantsAssumption, IInv, NEW c \in Collections, ClearPipeline(c) \/ Run(c) \/ Analyse(c)
  PROVE  IInv' /\ \A q \in Pipelines : Stored(q)' = Stored(q)
  <1>0. TypeOK /\ UNCHANGED <<pipeline, history, handler>>
    BY DEF IInv, ClearPipeline, Run, Analyse
  <1>1. \A g \in Handlers : handler'[g].op = "idle" \/ Continues(g)
    BY <1>0 DEF Continues
  <1>2. CASE ClearPipeline(c)
    <2>1. NoChoice \in Choice /\ NoChoice.pipeline = Null
      BY NumbersDef DEF NoChoice, Choice
    <2>2. collection' = [collection EXCEPT ![c].assigned = NoChoice] /\ UNCHANGED <<job, results>>
      BY <1>2 DEF ClearPipeline
    <2>3. collection' \in [Collections -> [team: Teams, assigned: Choice]]
      BY <1>0, <2>1, <2>2 DEF TypeOK
    <2>4. \A k \in Collections : collection'[k].assigned = collection[k].assigned
                                 \/ collection'[k].assigned = NoChoice
      BY <1>0, <2>2 DEF TypeOK
    <2>5. TypeOK'
      BY <1>0, <2>2, <2>3 DEF TypeOK
    <2>6. QED
      BY <1>0, <1>1, <2>1, <2>2, <2>4, <2>5, SameRows, NoNewVersion DEF IInv, Rows, Names
  <1>3. CASE Run(c)
    <2>1. PICK x \in Resolved(c) \cup Preferred(c) \cup
              {Current(p) : p \in {q \in Pipelines : Usable(q) /\ pipeline[q].team = collection[c].team}} :
            job' = [job EXCEPT ![c] = x]
      BY <1>3 DEF Run
    <2>2. x \in Choice /\ (x.pipeline # Null => pipeline[x.pipeline].exists)
      BY ChosenExist
    <2>3. UNCHANGED <<collection, results>>
      BY <1>3 DEF Run
    <2>4. /\ job' \in [Collections -> Choice \cup {Null}]
          /\ \A k \in Collections : job'[k] = job[k] \/ job'[k] = x
      BY <1>0, <2>1, <2>2 DEF TypeOK
    <2>5. TypeOK'
      BY <1>0, <2>3, <2>4 DEF TypeOK
    <2>6. QED
      BY <1>0, <1>1, <2>2, <2>3, <2>4, <2>5, SameRows, NoNewVersion DEF IInv, Rows
  <1>4. CASE Analyse(c)
    <2>1. /\ job[c] # Null /\ job' = [job EXCEPT ![c] = Null] /\ collection' = collection
          /\ results' = IF job[c].pipeline = Null THEN results
                        ELSE results \cup {[pipeline |-> job[c].pipeline, version |-> job[c].version,
                                            content |-> Sent(job[c])]}
      BY <1>4 DEF Analyse
    <2>2. /\ job' \in [Collections -> Choice \cup {Null}]
          /\ \A k \in Collections : job'[k] = job[k] \/ job'[k] = Null
      BY <1>0, <2>1 DEF TypeOK
    <2>3. results' \subseteq Version
      <3>1. job[c] \in Choice
        BY <1>0, <2>1 DEF TypeOK
      <3>2. job[c].pipeline # Null => Sent(job[c]) \in Contents
        BY <2>1, <3>1 DEF IInv, Rows, Sent, Choice
      <3>3. QED
        BY <1>0, <2>1, <3>1, <3>2 DEF TypeOK, Version, Choice
    <2>4. TypeOK'
      BY <1>0, <2>1, <2>2, <2>3 DEF TypeOK
    <2>5. QED
      BY <1>0, <1>1, <2>1, <2>2, <2>4, SameRows, NoNewVersion DEF IInv, Rows
  <1>5. QED
    BY <1>2, <1>3, <1>4

-----------------------------------------------------------------------------
(* New versions and pipelines.                                             *)

(* What was stored of a pipeline stays stored, as long as it exists.       *)
Grows == \A p \in Pipelines : pipeline[p].exists /\ pipeline'[p].exists => Stored(p) \subseteq Stored(p)'

LEMMA CreateKeeps ==
  ASSUME ConstantsAssumption, IInv, NEW p \in Pipelines, NEW x \in Contents, Create(p, x)
  PROVE  IInv' /\ Grows
  <1> DEFINE new == [pipeline[p] EXCEPT !.exists = TRUE, !.version = 1, !.content = x]
  <1>0. TypeOK /\ pipeline[p] \in Pipeline /\ ~ pipeline[p].exists
    BY DEF IInv, TypeOK, Create, NewId
  <1>1. new \in Pipeline /\ new.exists = TRUE /\ new.version = 1 /\ new.content = x
    BY <1>0, NumbersDef DEF Pipeline
  <1>2. pipeline' = [pipeline EXCEPT ![p] = new] /\ UNCHANGED <<history, collection, job, results, handler>>
    BY DEF Create
  <1> HIDE DEF new
  <1>3. /\ pipeline' \in [Pipelines -> Pipeline] /\ pipeline'[p] = new
        /\ \A q \in Pipelines \ {p} : pipeline'[q] = pipeline[q]
    BY <1>0, <1>1, <1>2 DEF TypeOK
  <1>4. TypeOK'
    BY <1>0, <1>2, <1>3 DEF TypeOK
  <1>5. Rows' /\ Unique'
    BY <1>1, <1>2, <1>3 DEF IInv, Rows, Unique
  <1>6. ASSUME NEW q \in Pipelines
        PROVE  Complete(q)'
    <2>1. CASE q = p
      BY <1>0, <1>1, <1>2, <1>3, <2>1, NumbersDef DEF IInv, Complete
    <2>2. CASE q # p
      BY <1>2, <1>3, <2>2 DEF IInv, Complete
    <2>3. QED
      BY <2>1, <2>2
  <1>7. ASSUME NEW g \in Handlers, handler'[g].op # "idle"
        PROVE  Read(g)'
    <2>1. handler[g].pipeline # p
      BY DEF Create, NewId
    <2>2. Read(g)
      BY <1>2, <1>7 DEF IInv
    <2>3. QED
      BY <1>2, <1>3, <2>1, <2>2 DEF Read
  <1>8. ASSUME NEW c \in Collections
        PROVE  /\ Names(collection[c].assigned)'
               /\ job'[c] # Null /\ job'[c].pipeline # Null => pipeline'[job'[c].pipeline].exists
    <2>1. collection[c].assigned \in Choice /\ job[c] \in Choice \cup {Null}
      BY <1>0 DEF TypeOK
    <2>2. QED
      BY <1>0, <1>2, <1>3, <2>1 DEF IInv, Names, Choice
  <1>9. Grows
    BY <1>0, <1>2, <1>3 DEF Grows, Stored
  <1>10. QED
    BY <1>4, <1>5, <1>6, <1>7, <1>8, <1>9 DEF IInv

(* Had another request saved this version, the index would tell: what is   *)
(* saved is the current row.                                               *)
LEMMA FirstIsCurrent ==
  ASSUME ConstantsAssumption, IInv, NEW h \in Handlers, handler[h].op = "update",
         FirstOfVersion(h), Now(h).exists
  PROVE  /\ Loaded(h).version = Now(h).version
         /\ Loaded(h).content = Now(h).content
  <1> DEFINE p == handler[h].pipeline
             row == handler[h].row
  <1>1. Read(h) /\ p \in Pipelines /\ row \in Pipeline /\ pipeline[p] \in Pipeline /\ Complete(p)
    BY DEF IInv, Read, TypeOK
  <1>2. /\ row.version \in Numbers /\ row.version \in Nat /\ row.version >= 1
        /\ row.version <= pipeline[p].version /\ pipeline[p].version \in Nat
    BY <1>1, NumbersDef DEF Read, Pipeline, Now
  <1>3. ~ (row.version < pipeline[p].version)
    BY <1>1, <1>2 DEF Complete, FirstOfVersion, Saved, Loaded, Now
  <1>4. QED
    BY <1>1, <1>2, <1>3 DEF Read, Loaded, Now

LEMMA UpdateKeeps ==
  ASSUME ConstantsAssumption, IInv, NEW h \in Handlers, CommitUpdate(h)
  PROVE  IInv' /\ Grows
  <1> DEFINE p == handler[h].pipeline
             new == Updated(h)
             saved == Saved(h)
  <1>0. /\ TypeOK /\ handler[h].op = "update" /\ FirstOfVersion(h) /\ pipeline[p].exists
        /\ Done(h) /\ UNCHANGED <<collection, job, results>>
        /\ history' = history \cup {saved} /\ pipeline' = [pipeline EXCEPT ![p] = new]
    BY DEF IInv, CommitUpdate, Write, Now
  <1>1. Read(h) /\ p \in Pipelines /\ pipeline[p] \in Pipeline /\ Complete(p)
    BY <1>0 DEF IInv, Read, TypeOK
  <1>2. /\ handler[h].row.version = pipeline[p].version
        /\ handler[h].row.content = pipeline[p].content
    BY <1>0, FirstIsCurrent DEF Loaded, Now
  <1>3. /\ pipeline[p].version \in Nat /\ pipeline[p].version >= 1 /\ pipeline[p].version < MaxVersion
        /\ pipeline[p].content \in Contents /\ handler[h].content \in Contents
    BY <1>0, <1>1, <1>2, NumbersDef DEF IInv, Rows, Read, Pipeline
  <1>4. saved = [pipeline |-> p, version |-> pipeline[p].version, content |-> pipeline[p].content]
    BY <1>2 DEF Saved, Loaded
  <1>5. /\ new \in Pipeline /\ new.exists = TRUE /\ new.version = pipeline[p].version + 1
        /\ new.content = handler[h].content
    <2> DEFINE off == handler[h].content \notin Valids /\ handler[h].row.active
               a == pipeline[p].active /\ ~ off
               d == pipeline[p].default /\ ~ (off /\ handler[h].row.default)
               n == pipeline[p].version + 1
    <2>1. a \in BOOLEAN /\ d \in BOOLEAN /\ n \in Numbers
      BY <1>3, NumbersDef
    <2>2. new = [pipeline[p] EXCEPT !.version = n, !.content = handler[h].content,
                                    !.active = a, !.default = d]
      BY <1>2 DEF Updated, Now, Loaded
    <2> HIDE DEF a, d, n, new
    <2>3. /\ new \in Pipeline /\ new.exists = pipeline[p].exists /\ new.version = n
          /\ new.content = handler[h].content
      BY <1>1, <1>3, <2>1, <2>2 DEF Pipeline
    <2>4. QED
      BY <1>0, <2>3 DEF n
  <1> HIDE DEF new, saved
  <1>6. /\ pipeline' \in [Pipelines -> Pipeline] /\ pipeline'[p] = new
        /\ \A q \in Pipelines \ {p} : pipeline'[q] = pipeline[q]
    BY <1>0, <1>1, <1>5 DEF TypeOK
  <1>7. /\ handler' \in [Handlers -> Handler] /\ handler'[h].op = "idle"
        /\ \A g \in Handlers \ {h} : handler'[g] = handler[g]
    BY <1>0, DoneFrees
  <1>8. /\ saved \in Version /\ saved.pipeline = p /\ saved.version = pipeline[p].version
        /\ saved.content = pipeline[p].content
    BY <1>1, <1>3, <1>4 DEF Version, Pipeline
  <1>9. TypeOK'
    BY <1>0, <1>6, <1>7, <1>8 DEF TypeOK
  <1>10. Rows'
    BY <1>3, <1>5, <1>6 DEF IInv, Rows
  <1>11. Unique'
    <2>1. \A v \in history : v.pipeline = p => v.version < pipeline[p].version
      BY <1>1 DEF Complete
    <2>2. \A v \in history : ~ (v.pipeline = saved.pipeline /\ v.version = saved.version)
      BY <1>3, <1>8, <2>1
    <2>3. QED
      BY <1>0, <2>2 DEF IInv, Unique
  <1>12. ASSUME NEW q \in Pipelines
         PROVE  Complete(q)'
    <2>1. CASE q = p
      <3>1. ASSUME NEW v \in history', v.pipeline = p
            PROVE  1 <= v.version /\ v.version < new.version
        <4>1. CASE v = saved
          BY <1>3, <1>5, <1>8, <4>1
        <4>2. CASE v \in history
          <5>1. v.version \in Nat /\ 1 <= v.version /\ v.version < pipeline[p].version
            BY <1>0, <1>1, <3>1, <4>2, NumbersDef DEF Complete, TypeOK, Version
          <5>2. QED
            BY <1>3, <1>5, <5>1
        <4>3. QED
          BY <1>0, <4>1, <4>2
      <3>2. ASSUME NEW n \in Numbers, 1 <= n, n < new.version
            PROVE  \E v \in history' : v.pipeline = p /\ v.version = n
        <4>1. CASE n = pipeline[p].version
          BY <1>0, <1>8, <4>1
        <4>2. CASE n # pipeline[p].version
          <5>1. n \in Nat /\ n < pipeline[p].version
            BY <1>3, <1>5, <3>2, <4>2, NumbersDef
          <5>2. QED
            BY <1>0, <1>1, <3>2, <5>1 DEF Complete
        <4>3. QED
          BY <4>1, <4>2
      <3>3. QED
        BY <1>5, <1>6, <2>1, <3>1, <3>2 DEF Complete
    <2>2. CASE q # p
      BY <1>0, <1>6, <1>8, <2>2 DEF IInv, Complete
    <2>3. QED
      BY <2>1, <2>2
  <1>13. ASSUME NEW g \in Handlers, handler'[g].op # "idle"
         PROVE  Read(g)'
    <2>1. handler'[g] = handler[g] /\ Read(g)
      BY <1>7, <1>13 DEF IInv
    <2>2. CASE handler[g].pipeline = p
      <3>1. /\ handler[g].row.version \in Nat /\ handler[g].row.version <= pipeline[p].version
            /\ handler[g].row \in Pipeline
        BY <1>0, <2>1, <2>2, NumbersDef DEF Read, Pipeline
      <3>2. handler[g].row.version < new.version
        BY <1>3, <1>5, <3>1
      <3>3. QED
        BY <1>3, <1>5, <1>6, <2>1, <2>2, <3>1, <3>2 DEF Read
    <2>3. CASE handler[g].pipeline # p
      BY <1>6, <2>1, <2>3 DEF Read
    <2>4. QED
      BY <2>2, <2>3
  <1>14. ASSUME NEW c \in Collections
         PROVE  /\ Names(collection[c].assigned)'
                /\ job'[c] # Null /\ job'[c].pipeline # Null => pipeline'[job'[c].pipeline].exists
    <2>1. /\ collection[c].assigned \in Choice /\ job[c] \in Choice \cup {Null}
          /\ collection[c].assigned.version \in Nat
      BY <1>0, NumbersDef DEF TypeOK, Choice
    <2>2. Names(collection[c].assigned)
      BY DEF IInv
    <2>3. Names(collection[c].assigned)'
      BY <1>0, <1>3, <1>5, <1>6, <2>1, <2>2 DEF Names, Choice
    <2>4. QED
      BY <1>0, <1>5, <1>6, <2>1, <2>3 DEF IInv, Choice
  <1>15. Grows
    BY <1>0, <1>4, <1>6 DEF Grows, Stored
  <1>16. QED
    BY <1>9, <1>10, <1>11, <1>12, <1>13, <1>14, <1>15 DEF IInv

LEMMA ForgetFits ==
  ASSUME NEW p \in Pipelines, NEW choice \in Choice
  PROVE  /\ Forget(choice, p) \in Choice
         /\ Forget(choice, p).version = choice.version
         /\ Forget(choice, p).pipeline = IF choice.pipeline = p THEN Null ELSE choice.pipeline
  BY DEF Forget, Choice

LEMMA DeleteKeeps ==
  ASSUME ConstantsAssumption, IInv, NEW h \in Handlers, CommitDelete(h)
  PROVE  IInv' /\ Grows
  <1> DEFINE p == handler[h].pipeline
             new == [exists |-> FALSE, team |-> Now(h).team, version |-> 0, content |-> Null,
                     active |-> FALSE, default |-> FALSE]
  <1>0. /\ TypeOK /\ handler[h].op # "idle" /\ Done(h)
        /\ pipeline' = [pipeline EXCEPT ![p] = new]
        /\ history' = {v \in history : v.pipeline # p}
        /\ collection' = [c \in Collections |-> [collection[c] EXCEPT !.assigned = Forget(collection[c].assigned, p)]]
        /\ job' = [c \in Collections |-> IF job[c] = Null THEN Null ELSE Forget(job[c], p)]
        /\ results' = {r \in results : r.pipeline # p}
    BY DEF IInv, CommitDelete, Write
  <1>1. p \in Pipelines /\ pipeline[p] \in Pipeline
    BY <1>0 DEF IInv, Read, TypeOK
  <1>2. /\ new \in Pipeline /\ new.exists = FALSE /\ new.default = FALSE /\ new.active = FALSE
    BY <1>1, NumbersDef DEF Pipeline, Now
  <1> HIDE DEF new
  <1>3. /\ pipeline' \in [Pipelines -> Pipeline] /\ pipeline'[p] = new
        /\ \A q \in Pipelines \ {p} : pipeline'[q] = pipeline[q]
    BY <1>0, <1>1, <1>2 DEF TypeOK
  <1>4. /\ handler' \in [Handlers -> Handler] /\ handler'[h].op = "idle"
        /\ \A g \in Handlers \ {h} : handler'[g] = handler[g]
    BY <1>0, DoneFrees
  <1>5. ASSUME NEW c \in Collections
        PROVE  /\ collection'[c] \in [team: Teams, assigned: Choice]
               /\ collection'[c].assigned = Forget(collection[c].assigned, p)
    <2>1. collection[c] \in [team: Teams, assigned: Choice] /\ collection[c].assigned \in Choice
      BY <1>0 DEF TypeOK
    <2> DEFINE left == Forget(collection[c].assigned, p)
    <2>2. left \in Choice /\ collection'[c] = [collection[c] EXCEPT !.assigned = left]
      BY <1>0, <1>1, <2>1, ForgetFits
    <2> HIDE DEF left
    <2>3. collection'[c] \in [team: Teams, assigned: Choice] /\ collection'[c].assigned = left
      BY <2>1, <2>2
    <2>4. QED
      BY <2>3 DEF left
  <1>6. ASSUME NEW c \in Collections
        PROVE  /\ job'[c] \in Choice \cup {Null}
               /\ job'[c] = Null \/ (job[c] # Null /\ job'[c] = Forget(job[c], p))
    BY <1>0, <1>1, ForgetFits DEF TypeOK
  <1>7. TypeOK'
    BY <1>0, <1>3, <1>4, <1>5, <1>6 DEF TypeOK
  <1>8. Rows' /\ Unique'
    BY <1>0, <1>2, <1>3 DEF IInv, Rows, Unique
  <1>9. ASSUME NEW q \in Pipelines
        PROVE  Complete(q)'
    <2>1. Complete(q)
      BY DEF IInv
    <2>2. CASE q = p
      BY <1>0, <1>2, <1>3, <2>2 DEF Complete
    <2>3. CASE q # p
      BY <1>0, <1>3, <2>1, <2>3 DEF Complete
    <2>4. QED
      BY <2>2, <2>3
  <1>10. ASSUME NEW g \in Handlers, handler'[g].op # "idle"
         PROVE  Read(g)'
    <2>1. handler'[g] = handler[g] /\ Read(g)
      BY <1>4, <1>10 DEF IInv
    <2>2. QED
      BY <1>2, <1>3, <2>1 DEF Read
  <1>11. ASSUME NEW c \in Collections
         PROVE  /\ Names(collection[c].assigned)'
                /\ job'[c] # Null /\ job'[c].pipeline # Null => pipeline'[job'[c].pipeline].exists
    <2>1. /\ collection[c].assigned \in Choice /\ job[c] \in Choice \cup {Null}
          /\ Names(collection[c].assigned)
          /\ job[c] # Null /\ job[c].pipeline # Null => pipeline[job[c].pipeline].exists
      BY <1>0 DEF IInv, TypeOK
    <2>2. Names(collection[c].assigned)'
      BY <1>1, <1>3, <1>5, <2>1, ForgetFits DEF Names, Choice
    <2>3. job'[c] # Null /\ job'[c].pipeline # Null => pipeline'[job'[c].pipeline].exists
      BY <1>1, <1>3, <1>6, <2>1, ForgetFits DEF Choice
    <2>4. QED
      BY <2>2, <2>3
  <1>12. Grows
    <2> SUFFICES ASSUME NEW q \in Pipelines, pipeline[q].exists, pipeline'[q].exists
                 PROVE  Stored(q) \subseteq Stored(q)'
      BY DEF Grows
    <2>1. q # p /\ pipeline'[q] = pipeline[q]
      BY <1>2, <1>3
    <2>2. QED
      BY <1>0, <2>1 DEF Stored
  <1>13. QED
    BY <1>7, <1>8, <1>9, <1>10, <1>11, <1>12 DEF IInv

LEMMA NextKeeps ==
  ASSUME ConstantsAssumption, IInv, [Next]_vars
  PROVE  IInv' /\ Grows
  <1>1. CASE UNCHANGED vars
    <2>1. TypeOK' /\ history' = history /\ pipeline' = pipeline
      BY <1>1 DEF vars, IInv, TypeOK
    <2>2. \A g \in Handlers : handler'[g].op = "idle" \/ Continues(g)
      BY <1>1 DEF vars, Continues
    <2>3. IInv'
      BY <1>1, <2>1, <2>2, SameRows, NoNewVersion DEF vars, IInv, Rows
    <2>4. QED
      BY <2>1, <2>3 DEF Grows, Stored
  <1>2. ASSUME \A q \in Pipelines : Stored(q)' = Stored(q)
        PROVE  Grows
    BY <1>2 DEF Grows
  <1>3. ASSUME NEW p \in Pipelines, NEW x \in Contents, Create(p, x)
        PROVE  IInv' /\ Grows
    BY <1>3, CreateKeeps
  <1>4. ASSUME NEW h \in Handlers, NEW op \in Ops \ {"idle", "cleared"}, NEW p \in Pipelines,
               NEW x \in Contents \cup {Null}, NEW c \in Collections \cup {Null},
               Request(h, op, p, x, c)
        PROVE  IInv' /\ Grows
    BY <1>2, <1>4, RequestKeeps
  <1>5. ASSUME NEW h \in Handlers,
               \/ CommitUpdate(h) \/ CommitDelete(h) \/ CommitActivity(h)
               \/ ClearDefaults(h) \/ CommitDefault(h) \/ CommitAssign(h) \/ Fail(h)
        PROVE  IInv' /\ Grows
    BY <1>2, <1>5, UpdateKeeps, DeleteKeeps, CommitActivityKeeps, DefaultsKeep, AssignKeeps
  <1>6. ASSUME NEW c \in Collections, ClearPipeline(c) \/ Run(c) \/ Analyse(c)
        PROVE  IInv' /\ Grows
    BY <1>2, <1>6, CollectionKeeps
  <1>7. QED
    BY <1>1, <1>3, <1>4, <1>5, <1>6 DEF Next

-----------------------------------------------------------------------------
(* Rows and requests are what their types say, however requests overlap.   *)
THEOREM TypeCorrect == ConstantsAssumption /\ Spec => []TypeOK
  <1> SUFFICES ASSUME ConstantsAssumption
               PROVE  Spec => []TypeOK
    OBVIOUS
  <1>1. Init => IInv
    BY InitIInv
  <1>2. IInv /\ [Next]_vars => IInv'
    BY NextKeeps
  <1>3. IInv => TypeOK
    BY DEF IInv
  <1>4. QED
    BY <1>1, <1>2, <1>3, PTL DEF Spec

(* Whatever requests overlap, a version that a collection pins is that of  *)
(* the row or in the history, until the pipeline is deleted and the        *)
(* collection is without one.                                              *)
THEOREM PinnedAlwaysStored == ConstantsAssumption /\ Spec => []PinnedStored
  <1> SUFFICES ASSUME ConstantsAssumption
               PROVE  Spec => []PinnedStored
    OBVIOUS
  <1>1. Init => IInv
    BY InitIInv
  <1>2. IInv /\ [Next]_vars => IInv'
    BY NextKeeps
  <1>3. IInv => PinnedStored
    <2> SUFFICES ASSUME IInv, NEW c \in Collections, collection[c].assigned.pipeline # Null
                 PROVE  \E v \in Stored(collection[c].assigned.pipeline) :
                          v.version = collection[c].assigned.version
      BY DEF PinnedStored
    <2> DEFINE a == collection[c].assigned
    <2>1. /\ a.pipeline \in Pipelines /\ a.version \in Numbers /\ pipeline[a.pipeline].exists
          /\ 1 <= a.version /\ a.version <= pipeline[a.pipeline].version
          /\ pipeline[a.pipeline].version \in Nat /\ a.version \in Nat
      BY NumbersDef DEF IInv, TypeOK, Names, Choice, Pipeline
    <2>2. CASE a.version = pipeline[a.pipeline].version
      <3> DEFINE current == [pipeline |-> a.pipeline,
                             version |-> pipeline[a.pipeline].version,
                             content |-> pipeline[a.pipeline].content]
      <3>1. current \in Stored(a.pipeline)
        BY DEF Stored
      <3>2. current.version = a.version
        BY <2>2
      <3>3. QED
        BY <3>1, <3>2
    <2>3. CASE a.version < pipeline[a.pipeline].version
      <3>1. Complete(a.pipeline)
        BY <2>1 DEF IInv
      <3>2. QED
        BY <2>1, <2>3, <3>1 DEF Complete, Stored
    <2>4. QED
      BY <2>1, <2>2, <2>3
  <1>4. QED
    BY <1>1, <1>2, <1>3, PTL DEF Spec

(* No step loses a version of a pipeline that stays, or leaves two         *)
(* definitions under one number, for any number of overlapping requests:   *)
(* the index on the history refuses all but the first update that read a   *)
(* version.                                                                *)
THEOREM VersionsAlwaysKept == ConstantsAssumption /\ Spec => VersionsKept
  <1> SUFFICES ASSUME ConstantsAssumption
               PROVE  Spec => VersionsKept
    OBVIOUS
  <1>1. Init => IInv
    BY InitIInv
  <1>2. IInv /\ [Next]_vars => IInv' /\ Grows
    BY NextKeeps
  <1>3. IInv' /\ Grows => KeepsVersions
    <2> SUFFICES ASSUME IInv', Grows, NEW p \in Pipelines, pipeline[p].exists, pipeline'[p].exists,
                        NEW v \in Stored(p)', NEW w \in Stored(p)', v.version = w.version
                 PROVE  v = w
      BY DEF Grows, KeepsVersions
    <2> DEFINE now == [pipeline |-> p, version |-> pipeline'[p].version, content |-> pipeline'[p].content]
    <2>1. Unique' /\ Complete(p)' /\ pipeline'[p].version \in Nat
      BY NumbersDef DEF IInv, TypeOK, Pipeline
    <2>2. now.version = pipeline'[p].version
      OBVIOUS
    <2>3. \A u \in Stored(p)' : u = now \/ (u \in history' /\ u.pipeline = p /\ u.version < pipeline'[p].version)
      BY <2>1 DEF Stored, Complete
    <2> HIDE DEF now
    <2>4. QED
      BY <2>1, <2>2, <2>3 DEF Unique
  <1>4. QED
    BY <1>1, <1>2, <1>3, PTL DEF Spec, VersionsKept

-----------------------------------------------------------------------------
(* One request at a time: what it read is still so when it writes.         *)
OneRequest == \E h : Handlers = {h}

UpToDate(h) ==
  LET p == handler[h].pipeline
      op == handler[h].op
  IN op # "idle" =>
       /\ pipeline[p].exists /\ handler[h].row = pipeline[p]
       /\ op = "activate" => Valid(p)
       /\ op \in {"default", "cleared"} => pipeline[p].active
       /\ op = "cleared" => handler[h].cleared = Defaults

(* The flags are sound, and two defaults are one.                          *)
Sound == /\ \A p \in Pipelines : /\ pipeline[p].default => pipeline[p].active
                                 /\ pipeline[p].active => Valid(p)
         /\ \A p, q \in Defaults : p = q

DInv == IInv /\ Sound /\ \A h \in Handlers : UpToDate(h)

LEMMA SoundIsUsable ==
  ASSUME Sound
  PROVE  DefaultUsable
  <1>1. CASE Defaults = {}
    BY <1>1, FS_EmptySet DEF Sound, DefaultUsable
  <1>2. CASE Defaults # {}
    <2>1. PICK p : p \in Defaults
      BY <1>2
    <2>2. Defaults = {p}
      BY <2>1 DEF Sound
    <2>3. Cardinality(Defaults) = 1
      BY <2>2, FS_Singleton
    <2>4. QED
      BY <2>3 DEF Sound, DefaultUsable
  <1>3. QED
    BY <1>1, <1>2

LEMMA RequestEnds ==
  ASSUME OneRequest, TypeOK, NEW h \in Handlers, Done(h)
  PROVE  \A g \in Handlers : UpToDate(g)'
  <1>1. handler'[h].op = "idle" /\ \A g \in Handlers : g = h
    BY DoneFrees DEF OneRequest
  <1>2. QED
    BY <1>1 DEF UpToDate

LEMMA SameFlags ==
  ASSUME DInv, pipeline' = pipeline
  PROVE  Sound' /\ Defaults' = Defaults
  BY DEF DInv, Sound, Defaults, Valid

(* One row is replaced by one whose flags are sound; it is the default     *)
(* only where it was.                                                      *)
LEMMA RowReplaced ==
  ASSUME DInv, NEW p \in Pipelines,
         \A q \in Pipelines \ {p} : pipeline'[q] = pipeline[q],
         pipeline'[p].default => pipeline[p].default /\ pipeline'[p].active,
         pipeline'[p].active => pipeline'[p].content \in Valids
  PROVE  Sound'
  <1>1. \A q \in Pipelines : /\ pipeline'[q].default => pipeline'[q].active
                             /\ pipeline'[q].active => pipeline'[q].content \in Valids
    BY DEF DInv, Sound, Valid
  <1>2. Defaults' \subseteq Defaults
    BY DEF Defaults
  <1>3. QED
    BY <1>1, <1>2 DEF DInv, Sound, Valid, Defaults

-----------------------------------------------------------------------------
LEMMA RequestSound ==
  ASSUME OneRequest, DInv, NEW h \in Handlers, NEW op \in Ops \ {"idle", "cleared"},
         NEW p \in Pipelines, NEW x \in Contents \cup {Null}, NEW c \in Collections \cup {Null},
         Request(h, op, p, x, c)
  PROVE  Sound' /\ \A g \in Handlers : UpToDate(g)'
  <1> DEFINE new == [Idle EXCEPT !.op = op, !.pipeline = p, !.row = pipeline[p],
                                 !.content = x, !.of = c]
  <1>1. new.op = op /\ new.pipeline = p /\ new.row = pipeline[p]
    BY DEF Idle
  <1>2. handler' = [handler EXCEPT ![h] = new] /\ pipeline' = pipeline
        /\ pipeline[p].exists /\ Accepted(op, p)
    BY DEF Request
  <1> HIDE DEF new
  <1>3. handler'[h] = new /\ \A g \in Handlers : g = h
    BY <1>2 DEF OneRequest, DInv, IInv, TypeOK
  <1>4. /\ op = "activate" => Valid(p)
        /\ op = "default" => pipeline[p].active
    BY <1>2 DEF Accepted
  <1>5. UpToDate(h)'
    BY <1>1, <1>2, <1>3, <1>4 DEF UpToDate, Valid
  <1>6. QED
    BY <1>2, <1>3, <1>5, SameFlags

LEMMA CreateSound ==
  ASSUME OneRequest, DInv, NEW p \in Pipelines, NEW x \in Contents, Create(p, x)
  PROVE  Sound' /\ \A g \in Handlers : UpToDate(g)'
  <1> DEFINE new == [pipeline[p] EXCEPT !.exists = TRUE, !.version = 1, !.content = x]
  <1>1. /\ pipeline \in [Pipelines -> Pipeline] /\ pipeline[p] \in Pipeline
        /\ ~ pipeline[p].default /\ ~ pipeline[p].active
        /\ \A h \in Handlers : handler[h].pipeline # p
    BY DEF DInv, IInv, TypeOK, Rows, Create, NewId
  <1>2. new.default = pipeline[p].default /\ new.active = pipeline[p].active
    BY <1>1 DEF Pipeline
  <1>3. pipeline' = [pipeline EXCEPT ![p] = new] /\ handler' = handler
    BY DEF Create
  <1> HIDE DEF new
  <1>4. pipeline'[p] = new /\ \A q \in Pipelines \ {p} : pipeline'[q] = pipeline[q]
    BY <1>1, <1>3
  <1>5. Sound'
    BY <1>1, <1>2, <1>4, RowReplaced
  <1>6. Defaults' = Defaults
    BY <1>1, <1>2, <1>4 DEF Defaults
  <1>7. ASSUME NEW h \in Handlers
        PROVE  UpToDate(h)'
    <2>1. handler[h].op # "idle" => handler[h].pipeline \in Pipelines \ {p}
      BY <1>1 DEF DInv, IInv, Read
    <2>2. QED
      BY <1>3, <1>4, <1>6, <2>1 DEF DInv, UpToDate, Valid
  <1>8. QED
    BY <1>5, <1>7

LEMMA UpdateSound ==
  ASSUME OneRequest, DInv, NEW h \in Handlers, CommitUpdate(h)
  PROVE  Sound' /\ \A g \in Handlers : UpToDate(g)'
  <1> DEFINE p == handler[h].pipeline
             off == handler[h].content \notin Valids /\ handler[h].row.active
             a == pipeline[p].active /\ ~ off
             d == pipeline[p].default /\ ~ (off /\ handler[h].row.default)
             n == handler[h].row.version + 1
             new == [pipeline[p] EXCEPT !.version = n, !.content = handler[h].content,
                                        !.active = a, !.default = d]
  <1>1. handler[h].op = "update" /\ Done(h) /\ pipeline' = [pipeline EXCEPT ![p] = new]
    BY DEF CommitUpdate, Write, Updated, Now, Loaded
  <1>2. /\ p \in Pipelines /\ pipeline \in [Pipelines -> Pipeline] /\ pipeline[p] \in Pipeline
        /\ handler[h].row = pipeline[p]
    BY <1>1 DEF DInv, IInv, TypeOK, Read, UpToDate
  <1>3. /\ pipeline[p].default => pipeline[p].active
        /\ pipeline[p].default \in BOOLEAN /\ pipeline[p].active \in BOOLEAN
    BY <1>2 DEF DInv, Sound, Pipeline
  <1>4. /\ a => handler[h].content \in Valids
        /\ d => pipeline[p].default /\ a
    BY <1>2, <1>3
  <1>5. a \in BOOLEAN /\ d \in BOOLEAN
    OBVIOUS
  <1> HIDE DEF a, d, n
  <1>6. new.active = a /\ new.default = d /\ new.content = handler[h].content
    BY <1>2, <1>5 DEF Pipeline
  <1> HIDE DEF new
  <1>7. pipeline'[p] = new /\ \A q \in Pipelines \ {p} : pipeline'[q] = pipeline[q]
    BY <1>1, <1>2
  <1>8. Sound'
    BY <1>2, <1>4, <1>6, <1>7, RowReplaced
  <1>9. QED
    BY <1>1, <1>8, RequestEnds DEF DInv, IInv

LEMMA DeleteSound ==
  ASSUME OneRequest, DInv, NEW h \in Handlers, CommitDelete(h)
  PROVE  Sound' /\ \A g \in Handlers : UpToDate(g)'
  <1> DEFINE p == handler[h].pipeline
             new == [exists |-> FALSE, team |-> Now(h).team, version |-> 0, content |-> Null,
                     active |-> FALSE, default |-> FALSE]
  <1>1. handler[h].op = "delete" /\ Done(h) /\ pipeline' = [pipeline EXCEPT ![p] = new]
    BY DEF CommitDelete, Write
  <1>2. p \in Pipelines /\ pipeline \in [Pipelines -> Pipeline]
    BY <1>1 DEF DInv, IInv, TypeOK, Read
  <1>3. new.default = FALSE /\ new.active = FALSE
    OBVIOUS
  <1> HIDE DEF new
  <1>4. pipeline'[p] = new /\ \A q \in Pipelines \ {p} : pipeline'[q] = pipeline[q]
    BY <1>1, <1>2
  <1>5. QED
    BY <1>1, <1>2, <1>3, <1>4, RowReplaced, RequestEnds DEF DInv, IInv

LEMMA ActivitySound ==
  ASSUME ConstantsAssumption, OneRequest, DInv, NEW h \in Handlers, CommitActivity(h)
  PROVE  Sound' /\ \A g \in Handlers : UpToDate(g)'
  <1> DEFINE p == handler[h].pipeline
             row == handler[h].row
  <1>1. Done(h) /\ handler[h].op # "idle"
    BY DEF CommitActivity
  <1>2. /\ p \in Pipelines /\ SameRow(p) /\ pipeline[p] \in Pipeline
        /\ \A q \in Pipelines \ {p} : pipeline'[q] = pipeline[q]
        /\ handler[h].op \in {"activate", "deactivate", "unset"}
    BY ActivityEffect DEF DInv, IInv, TypeOK
  <1>3. row = pipeline[p] /\ (handler[h].op = "activate" => Valid(p))
    BY <1>1 DEF DInv, UpToDate
  <1>4. /\ pipeline[p].default => pipeline[p].active
        /\ pipeline[p].active => Valid(p)
        /\ pipeline[p].default \in BOOLEAN /\ pipeline[p].active \in BOOLEAN
    BY <1>2 DEF DInv, Sound, Pipeline
  <1> DEFINE Fine == /\ pipeline'[p].default => pipeline[p].default /\ pipeline'[p].active
                     /\ pipeline'[p].active => Valid(p)
  <1>5. ASSUME handler[h].op = "activate"
        PROVE  Fine
    <2>1. /\ pipeline'[p].active = (pipeline[p].active \/ ~ row.active)
          /\ pipeline'[p].default = pipeline[p].default
      BY <1>5, ActivityEffect DEF DInv
    <2>2. QED
      BY <1>3, <1>4, <1>5, <2>1, Zenon
  <1>6. ASSUME handler[h].op = "deactivate"
        PROVE  Fine
    <2>1. /\ pipeline'[p].active = (pipeline[p].active /\ ~ row.active)
          /\ pipeline'[p].default = (pipeline[p].default /\ ~ row.default)
      BY <1>6, ActivityEffect DEF DInv
    <2>2. QED
      BY <1>3, <2>1, Zenon
  <1>7. ASSUME handler[h].op = "unset"
        PROVE  Fine
    <2>1. /\ pipeline'[p].active = pipeline[p].active
          /\ pipeline'[p].default = (pipeline[p].default /\ ~ row.default)
      BY <1>7, ActivityEffect DEF DInv
    <2>2. QED
      BY <1>3, <1>4, <2>1, Zenon
  <1>8. Fine
    BY <1>2, <1>5, <1>6, <1>7
  <1>9. Sound'
    BY <1>2, <1>8, RowReplaced DEF Valid, SameRow
  <1>10. QED
    BY <1>1, <1>9, RequestEnds DEF DInv, IInv

LEMMA DefaultsSound ==
  ASSUME OneRequest, DInv, NEW h \in Handlers, ClearDefaults(h) \/ CommitDefault(h)
  PROVE  Sound' /\ \A g \in Handlers : UpToDate(g)'
  <1>0. /\ handler[h].op # "idle" /\ handler[h] \in Handler /\ \A g \in Handlers : g = h
        /\ handler \in [Handlers -> Handler] /\ pipeline \in [Pipelines -> Pipeline]
    BY DEF ClearDefaults, CommitDefault, DInv, IInv, TypeOK, OneRequest
  <1>1. CASE ClearDefaults(h)
    <2> DEFINE all == Defaults
               new == [handler[h] EXCEPT !.op = "cleared", !.cleared = all]
    <2>1. handler' = [handler EXCEPT ![h] = new] /\ pipeline' = pipeline /\ handler[h].op = "default"
      BY <1>0, <1>1 DEF ClearDefaults
    <2> HIDE DEF all
    <2>2. /\ new.op = "cleared" /\ new.pipeline = handler[h].pipeline
          /\ new.row = handler[h].row /\ new.cleared = all
      BY <1>0 DEF Handler
    <2> HIDE DEF new
    <2>3. handler'[h] = new /\ all = Defaults'
      BY <1>0, <2>1, SameFlags DEF all
    <2>4. UpToDate(h)'
      BY <1>0, <2>1, <2>2, <2>3 DEF DInv, UpToDate
    <2>5. QED
      BY <1>0, <2>1, <2>4, SameFlags
  <1>2. CASE CommitDefault(h)
    <2> DEFINE p == handler[h].pipeline
               d(q) == q = p \/ (pipeline[q].default /\ q \notin handler[h].cleared)
    <2>1. Done(h) /\ handler[h].op = "cleared"
          /\ pipeline' = [q \in Pipelines |-> [pipeline[q] EXCEPT !.default = d(q)]]
      BY <1>2 DEF CommitDefault
    <2>2. /\ pipeline[p].active /\ handler[h].cleared = Defaults
      BY <2>1 DEF DInv, UpToDate
    <2>3. \A q \in Pipelines : d(q) \in BOOLEAN /\ (d(q) => q = p)
      BY <2>2 DEF Defaults
    <2> HIDE DEF d
    <2>4. ASSUME NEW q \in Pipelines
          PROVE  /\ pipeline'[q].active = pipeline[q].active
                 /\ pipeline'[q].content = pipeline[q].content
                 /\ pipeline'[q].default => q = p
      <3> DEFINE b == d(q)
      <3>1. b \in BOOLEAN /\ pipeline[q] \in Pipeline /\ pipeline'[q] = [pipeline[q] EXCEPT !.default = b]
            /\ (b => q = p)
        BY <1>0, <2>1, <2>3
      <3> HIDE DEF b
      <3>2. QED
        BY <3>1, DefaultFits
    <2>5. Sound'
      BY <2>2, <2>4 DEF DInv, Sound, Valid, Defaults
    <2>6. QED
      BY <2>1, <2>5, RequestEnds DEF DInv, IInv
  <1>3. QED
    BY <1>1, <1>2

LEMMA OthersSound ==
  ASSUME OneRequest, DInv,
         \/ \E h \in Handlers : CommitAssign(h) \/ Fail(h)
         \/ \E c \in Collections : ClearPipeline(c) \/ Run(c) \/ Analyse(c)
         \/ UNCHANGED vars
  PROVE  Sound' /\ \A g \in Handlers : UpToDate(g)'
  <1>1. CASE \E h \in Handlers : CommitAssign(h) \/ Fail(h)
    <2>1. PICK h \in Handlers : Done(h) /\ pipeline' = pipeline
      BY <1>1 DEF CommitAssign, Fail
    <2>2. QED
      BY <2>1, SameFlags, RequestEnds DEF DInv, IInv
  <1>2. CASE handler' = handler /\ pipeline' = pipeline
    BY <1>2, SameFlags DEF DInv, UpToDate, Valid
  <1>3. QED
    BY <1>1, <1>2 DEF ClearPipeline, Run, Analyse, vars

(* Requests that are handled one after the other leave at most one         *)
(* default, which is active, and nothing active that is not valid:         *)
(* whatever is edited, activated, deleted and made default in between.     *)
THEOREM DefaultAlwaysUsable ==
  ConstantsAssumption /\ OneRequest /\ Spec => []DefaultUsable
  <1> SUFFICES ASSUME ConstantsAssumption, OneRequest
               PROVE  Spec => []DefaultUsable
    OBVIOUS
  <1>1. Init => DInv
    <2> SUFFICES ASSUME Init
                 PROVE  DInv
      OBVIOUS
    <2>1. \A p \in Pipelines : ~ pipeline[p].default /\ ~ pipeline[p].active
      BY DEF Init
    <2>2. Defaults = {}
      BY <2>1 DEF Defaults
    <2>3. \A h \in Handlers : handler[h].op = "idle"
      BY DEF Init, Idle
    <2>4. QED
      BY <2>1, <2>2, <2>3, InitIInv DEF DInv, Sound, UpToDate
  <1>2. DInv /\ [Next]_vars => DInv'
    <2> SUFFICES ASSUME DInv, [Next]_vars
                 PROVE  DInv'
      OBVIOUS
    <2>1. IInv'
      BY NextKeeps DEF DInv
    <2>2. ASSUME NEW p \in Pipelines, NEW x \in Contents, Create(p, x)
          PROVE  Sound' /\ \A g \in Handlers : UpToDate(g)'
      BY <2>2, CreateSound
    <2>3. ASSUME NEW h \in Handlers, NEW op \in Ops \ {"idle", "cleared"}, NEW p \in Pipelines,
                 NEW x \in Contents \cup {Null}, NEW c \in Collections \cup {Null},
                 Request(h, op, p, x, c)
          PROVE  Sound' /\ \A g \in Handlers : UpToDate(g)'
      BY <2>3, RequestSound
    <2>4. ASSUME NEW h \in Handlers,
                 \/ CommitUpdate(h) \/ CommitDelete(h) \/ CommitActivity(h)
                 \/ ClearDefaults(h) \/ CommitDefault(h)
          PROVE  Sound' /\ \A g \in Handlers : UpToDate(g)'
      BY <2>4, UpdateSound, DeleteSound, ActivitySound, DefaultsSound
    <2>5. Sound' /\ \A g \in Handlers : UpToDate(g)'
      BY <2>2, <2>3, <2>4, OthersSound DEF Next
    <2>6. QED
      BY <2>1, <2>5 DEF DInv
  <1>3. DInv => DefaultUsable
    BY SoundIsUsable DEF DInv
  <1>4. QED
    BY <1>1, <1>2, <1>3, PTL DEF Spec

-----------------------------------------------------------------------------
(* DeadlineReminders, for any team: no reminder is stored twice.           *)
CONSTANTS Users, Events, Workers, Series, Ahead, Behind, None, Before, Retention, MaxDay,
          Moves, Settings, Failures, MaxCrashes
VARIABLES now, deadline, open, wants, device, notes, twice, check, crashes

Remind == INSTANCE DeadlineReminders


Note == [reminder: Remind!Reminder, read: BOOLEAN, kept: BOOLEAN,
         push: {"pending", "pushed", "failed", "no_device"}]

(* What is at hand has a member, and a reminder, of some.                  *)
Fits(c) ==
  /\ c \in Remind!Check
  /\ c.left # {} \/ c.phase \in {"store", "push"} => c.user \in Users
  /\ c.phase \in {"store", "push"} => c.reminder \in Remind!Reminder

Typed == Remind!TypeOK /\ \A w \in Workers : Fits(check[w])

Calendar == /\ now \in 2 .. 2 * MaxDay + 1
            /\ deadline \in [Events -> Remind!Days \cup {None}]
            /\ open \subseteq Events /\ wants \subseteq Users
            /\ device \in [Users -> {"none", "works", "gone"}]
            /\ crashes \in 0 .. MaxCrashes

LEMMA TypedParts ==
  Typed <=> /\ Calendar /\ notes \subseteq Note /\ twice \subseteq Remind!Reminder
            /\ check \in [Workers -> Remind!Check] /\ \A w \in Workers : Fits(check[w])
  BY DEF Typed, Remind!TypeOK, Calendar, Note

LEMMA TypedPartsPrimed ==
  ASSUME Calendar', notes' \subseteq Note, twice' \subseteq Remind!Reminder,
         check' \in [Workers -> Remind!Check], \A w \in Workers : Fits(check'[w])
  PROVE  Typed'
  BY DEF Typed, Remind!TypeOK, Calendar, Note, Fits, Remind!Check, Remind!Reminder, Remind!Days

LEMMA UserDayFits ==
  ASSUME Remind!ConstantsAssumption, now \in 2 .. 2 * MaxDay + 1, NEW u
  PROVE  Remind!UserDay(u) \in 0 .. MaxDay + 1
  BY DEF Remind!ConstantsAssumption, Remind!UserDay

LEMMA DaysGoBy ==
  ASSUME Remind!ConstantsAssumption, now \in 2 .. 2 * MaxDay + 1, now' = now + 1, NEW u
  PROVE  /\ Remind!UserDay(u)' \in Int /\ Remind!UserDay(u) \in Int
         /\ Remind!UserDay(u) <= Remind!UserDay(u)' /\ Remind!UserDay(u)' <= Remind!UserDay(u) + 1
  BY DEF Remind!ConstantsAssumption, Remind!UserDay

LEMMA NoCheckFits ==
  ASSUME Remind!ConstantsAssumption
  PROVE  Fits(Remind!NoCheck) /\ Remind!NoCheck.phase = "idle" /\ Remind!NoCheck.left = {}
           /\ Remind!NoCheck.users = {}
         /\ Remind!NoCheck.late = FALSE
  <1>1. [e \in Events |-> None] \in [Events -> Remind!Days \cup {None}]
    OBVIOUS
  <1>2. Remind!NoCheck \in Remind!Check
    BY <1>1 DEF Remind!NoCheck, Remind!Check, Remind!ConstantsAssumption
  <1>3. QED
    BY <1>2 DEF Remind!NoCheck, Fits

LEMMA LoadedFits ==
  ASSUME Calendar, NEW S
  PROVE  Remind!Loaded(S) \in [Events -> Remind!Days \cup {None}]
  BY DEF Calendar, Remind!Loaded

(* Whatever changes under a check is noted in it.                          *)
LEMMA DisturbFits ==
  ASSUME NEW c \in Remind!Check, Fits(c), NEW b \in BOOLEAN
  PROVE  LET d == [c EXCEPT !.calm = FALSE]
             l == [c EXCEPT !.calm = FALSE, !.late = b]
         IN /\ Fits(d) /\ Fits(l)
            /\ d.phase = c.phase /\ d.left = c.left /\ d.user = c.user /\ d.today = c.today
            /\ d.late = c.late /\ d.reminder = c.reminder
            /\ l.phase = c.phase /\ l.left = c.left /\ l.user = c.user /\ l.today = c.today
            /\ l.late = b /\ l.reminder = c.reminder
  <1> DEFINE d == [c EXCEPT !.calm = FALSE]
             l == [c EXCEPT !.calm = FALSE, !.late = b]
  <1>1. /\ d \in Remind!Check /\ d.phase = c.phase /\ d.left = c.left /\ d.user = c.user
        /\ d.today = c.today /\ d.late = c.late /\ d.reminder = c.reminder
    BY DEF Remind!Check
  <1>2. /\ l \in Remind!Check /\ l.phase = c.phase /\ l.left = c.left /\ l.user = c.user
        /\ l.today = c.today /\ l.late = b /\ l.reminder = c.reminder
    BY DEF Remind!Check
  <1> HIDE DEF d, l
  <1>3. Fits(d) /\ Fits(l)
    BY <1>1, <1>2 DEF Fits
  <1>4. QED
    BY <1>1, <1>2, <1>3 DEF d, l

LEMMA StartFits ==
  ASSUME Remind!ConstantsAssumption, Calendar
  PROVE  LET c == [Remind!NoCheck EXCEPT !.phase = "check", !.events = Remind!Selected,
           !.calm = TRUE,
                                  !.users = IF Remind!Selected = {} THEN {} ELSE Users,
                                  !.seen = Remind!Loaded(Remind!Selected)]
         IN Fits(c) /\ c.phase = "check" /\ c.left = {} /\ c.late = FALSE
  <1> DEFINE c == [Remind!NoCheck EXCEPT !.phase = "check", !.events = Remind!Selected,
        !.calm = TRUE,
                                  !.users = IF Remind!Selected = {} THEN {} ELSE Users,
                                  !.seen = Remind!Loaded(Remind!Selected)]
  <1>1. Remind!NoCheck \in Remind!Check /\ Remind!NoCheck.left = {} /\ Remind!NoCheck.late = FALSE
    BY NoCheckFits DEF Fits
  <1>2. Remind!Selected \subseteq Events
    BY DEF Remind!Selected, Calendar
  <1>3. Remind!Loaded(Remind!Selected) \in [Events -> Remind!Days \cup {None}]
    BY LoadedFits
  <1>4. c \in Remind!Check /\ c.phase = "check" /\ c.left = {} /\ c.late = FALSE
    BY <1>1, <1>2, <1>3 DEF Remind!Check
  <1> HIDE DEF c
  <1>5. Fits(c)
    BY <1>4 DEF Fits
  <1>6. QED
    BY <1>4, <1>5 DEF c

LEMMA NextUserFits ==
  ASSUME Remind!ConstantsAssumption, Calendar,
           NEW s \in Remind!Check, Fits(s), s.phase = "check", NEW u \in s.users
  PROVE  LET c == [s EXCEPT !.users = @ \ {u}, !.user = u, !.today = Remind!UserDay(u),
           !.left = s.events]
         IN /\ Fits(c) /\ c.phase = "check" /\ c.user = u /\ c.today = Remind!UserDay(u)
                 /\ c.late = s.late
  <1> DEFINE c == [s EXCEPT !.users = @ \ {u}, !.user = u, !.today = Remind!UserDay(u),
        !.left = s.events]
  <1>1. Remind!UserDay(u) \in 0 .. MaxDay + 1
    BY UserDayFits DEF Calendar
  <1>2. u \in Users
    BY DEF Remind!Check
  <1>3. /\ c \in Remind!Check /\ c.phase = "check" /\ c.user = u /\ c.today = Remind!UserDay(u)
             /\ c.late = s.late
    BY <1>1, <1>2 DEF Remind!Check
  <1> HIDE DEF c
  <1>4. Fits(c)
    BY <1>2, <1>3 DEF Fits
  <1>5. QED
    BY <1>3, <1>4 DEF c

LEMMA LookFits ==
  ASSUME Remind!ConstantsAssumption, NEW s \in Remind!Check, Fits(s), s.phase = "check",
           NEW e \in s.left
  PROVE  LET c == [s EXCEPT !.left = @ \ {e}]
             r == [user |-> s.user, event |-> e, days |-> s.seen[e] - s.today,
               deadline |-> s.seen[e]]
             d == [c EXCEPT !.phase = "store", !.reminder = r]
         IN /\ Fits(c) /\ c.phase = "check" /\ c.left \subseteq s.left
            /\ c.user = s.user /\ c.today = s.today /\ c.late = s.late
            /\ Remind!Due(s.user, s.seen[e], s.today) =>
                 /\ Fits(d) /\ d.phase = "store" /\ d.left \subseteq s.left /\ d.reminder = r
                 /\ d.user = s.user /\ d.today = s.today /\ d.late = s.late
                 /\ r \in Remind!Reminder
  <1> DEFINE c == [s EXCEPT !.left = @ \ {e}]
             r == [user |-> s.user, event |-> e, days |-> s.seen[e] - s.today,
               deadline |-> s.seen[e]]
             d == [c EXCEPT !.phase = "store", !.reminder = r]
  <1>1. e \in Events /\ s.user \in Users /\ s.seen[e] \in Remind!Days \cup {None}
    BY DEF Remind!Check, Fits
  <1>2. /\ c \in Remind!Check /\ c.phase = "check" /\ c.left = s.left \ {e}
        /\ c.user = s.user /\ c.today = s.today /\ c.late = s.late
    BY DEF Remind!Check
  <1>3. Remind!Due(s.user, s.seen[e], s.today) => r \in Remind!Reminder
    BY <1>1 DEF Remind!Due, Remind!Reminder
  <1> HIDE DEF c, r
  <1>4. r \in Remind!Reminder =>
          /\ d \in Remind!Check /\ d.phase = "store" /\ d.left = s.left \ {e} /\ d.reminder = r
          /\ d.user = s.user /\ d.today = s.today /\ d.late = s.late
    BY <1>2 DEF Remind!Check
  <1> HIDE DEF d
  <1>5. Fits(c)
    BY <1>1, <1>2 DEF Fits
  <1>6. r \in Remind!Reminder => Fits(d)
    BY <1>1, <1>4 DEF Fits
  <1>7. QED
    BY <1>2, <1>3, <1>4, <1>5, <1>6 DEF c, r, d

LEMMA StoreFits ==
  ASSUME Remind!ConstantsAssumption, Calendar,
           NEW s \in Remind!Check, Fits(s), s.phase \in {"store", "push"}
  PROVE  LET c == [s EXCEPT !.phase = "push", !.seen = Remind!Loaded(s.events)]
             d == [s EXCEPT !.phase = "check", !.reminder = None, !.seen = Remind!Loaded(s.events)]
         IN /\ Fits(c) /\ c.phase = "push" /\ c.left = s.left
            /\ c.user = s.user /\ c.today = s.today /\ c.late = s.late
            /\ Fits(d) /\ d.phase = "check" /\ d.left = s.left
            /\ d.user = s.user /\ d.today = s.today /\ d.late = s.late
  <1> DEFINE c == [s EXCEPT !.phase = "push", !.seen = Remind!Loaded(s.events)]
             d == [s EXCEPT !.phase = "check", !.reminder = None, !.seen = Remind!Loaded(s.events)]
  <1>1. Remind!Loaded(s.events) \in [Events -> Remind!Days \cup {None}]
    BY LoadedFits
  <1>2. /\ c \in Remind!Check /\ c.phase = "push" /\ c.left = s.left /\ c.reminder = s.reminder
        /\ c.user = s.user /\ c.today = s.today /\ c.late = s.late
    BY <1>1 DEF Remind!Check
  <1>3. /\ d \in Remind!Check /\ d.phase = "check" /\ d.left = s.left
        /\ d.user = s.user /\ d.today = s.today /\ d.late = s.late
    BY <1>1 DEF Remind!Check
  <1> HIDE DEF c, d
  <1>4. Fits(c) /\ Fits(d)
    BY <1>2, <1>3 DEF Fits
  <1>5. QED
    BY <1>2, <1>3, <1>4 DEF c, d

LEMMA OneCheck ==
  ASSUME Typed, NEW w \in Workers, NEW c, Fits(c), check' = [check EXCEPT ![w] = c]
  PROVE  /\ check' \in [Workers -> Remind!Check] /\ \A v \in Workers : Fits(check'[v])
         /\ check'[w] = c /\ \A v \in Workers \ {w} : check'[v] = check[v]
  BY DEF Typed, Remind!TypeOK, Fits

-----------------------------------------------------------------------------
(* A note is removed when its day is past; a check that is late knows the  *)
(* day before, at worst; what is at hand to be stored is not stored yet.   *)
Removed == \A n \in notes : ~ n.kept =>
             n.reminder.deadline - n.reminder.days < Remind!UserDay(n.reminder.user) - Retention

Recent(c) == c.left # {} => /\ Remind!UserDay(c.user) <= c.today + 1
                            /\ ~ c.late => Remind!UserDay(c.user) <= c.today

NotStored(c) == c.phase = "store" => \A n \in notes : n.reminder # c.reminder

Timely == /\ twice = {}
          /\ Removed
          /\ \A w \in Workers : Recent(check[w]) /\ NotStored(check[w])

RemindersInv == Typed /\ Timely

OneWorker == \A v, w \in Workers : v = w

(* Notes that say the same, of which those whose day is past may be gone.  *)
SameNotes == \A m \in notes' : m \in Note /\ \E n \in notes :
               /\ m.reminder = n.reminder
               /\ ~ m.kept => \/ ~ n.kept
                              \/ n.reminder.deadline - n.reminder.days
                                   < Remind!UserDay(n.reminder.user) - Retention

LEMMA SameNotesTimely ==
  ASSUME RemindersInv, SameNotes, UNCHANGED <<now, twice>>, NEW c, NotStored(c)
  PROVE  Removed' /\ notes' \subseteq Note /\ NotStored(c)'
  <1>1. \A u : Remind!UserDay(u)' = Remind!UserDay(u)
    BY DEF Remind!UserDay
  <1>2. Removed'
    BY <1>1 DEF RemindersInv, Timely, Removed, SameNotes
  <1>3. NotStored(c)'
    BY DEF NotStored, SameNotes
  <1>4. QED
    BY <1>2, <1>3 DEF SameNotes

(* A change of what checks look at, in every check.                        *)
LEMMA ChecksDisturbed ==
  ASSUME Remind!ConstantsAssumption, Typed, Remind!Disturb
  PROVE  /\ check' \in [Workers -> Remind!Check] /\ \A w \in Workers : Fits(check'[w])
         /\ \A w \in Workers : /\ check'[w].phase = check[w].phase /\ check'[w].left = check[w].left
                               /\ check'[w].user = check[w].user /\ check'[w].today = check[w].today
                               /\ check'[w].late = check[w].late
                               /\ check'[w].reminder = check[w].reminder
  <1>1. \A w \in Workers : check[w] \in Remind!Check /\ Fits(check[w])
    BY TypedParts
  <1>2. \A w \in Workers : check'[w] = [check[w] EXCEPT !.calm = FALSE]
    BY DEF Remind!Disturb
  <1>3. \A w \in Workers :
          LET d == [check[w] EXCEPT !.calm = FALSE]
          IN /\ Fits(d) /\ d.phase = check[w].phase /\ d.left = check[w].left
             /\ d.user = check[w].user /\ d.today = check[w].today /\ d.late = check[w].late
             /\ d.reminder = check[w].reminder
    BY <1>1, DisturbFits
  <1>4. ASSUME NEW w \in Workers PROVE Fits(check'[w])
    <2>1. check'[w] = [check[w] EXCEPT !.calm = FALSE]
      BY <1>2
    <2>2. QED
      BY <1>3, <2>1
  <1>5. check' \in [Workers -> Remind!Check]
    BY <1>2, <1>4 DEF Remind!Disturb, Fits
  <1>6. ASSUME NEW w \in Workers
        PROVE  /\ check'[w].phase = check[w].phase /\ check'[w].left = check[w].left
               /\ check'[w].user = check[w].user /\ check'[w].today = check[w].today
               /\ check'[w].late = check[w].late /\ check'[w].reminder = check[w].reminder
    <2>1. check'[w] = [check[w] EXCEPT !.calm = FALSE]
      BY <1>2
    <2>2. QED
      BY <1>3, <2>1
  <1>7. QED
    BY <1>4, <1>5, <1>6

LEMMA DisturbStep ==
  ASSUME Remind!ConstantsAssumption, RemindersInv, Calendar', Remind!Disturb, UNCHANGED <<now,
           notes, twice>>
  PROVE  RemindersInv'
  <1>1. /\ check' \in [Workers -> Remind!Check] /\ \A w \in Workers : Fits(check'[w])
        /\ \A w \in Workers : /\ check'[w].phase = check[w].phase /\ check'[w].left = check[w].left
                              /\ check'[w].user = check[w].user /\ check'[w].today = check[w].today
                              /\ check'[w].late = check[w].late
                              /\ check'[w].reminder = check[w].reminder
    BY ChecksDisturbed DEF RemindersInv
  <1>2. Typed'
    BY <1>1, TypedParts, TypedPartsPrimed DEF RemindersInv
  <1>3. \A u : Remind!UserDay(u)' = Remind!UserDay(u)
    BY DEF Remind!UserDay
  <1>4. Removed'
    BY <1>3 DEF RemindersInv, Timely, Removed
  <1>5. \A w \in Workers : Recent(check[w])' /\ NotStored(check[w])'
    BY <1>1 DEF RemindersInv, Timely, Recent, NotStored, Remind!UserDay
  <1>6. QED
    BY <1>2, <1>4, <1>5 DEF RemindersInv, Timely

LEMMA UserSteps ==
  ASSUME Remind!ConstantsAssumption, RemindersInv,
         \/ \E s \in Series : \E d \in Remind!Days : Remind!SetDeadline(s, d)
         \/ \E e \in Events : Remind!EndEvent(e)
         \/ \E u \in Users : \/ Remind!SetPreference(u) \/ Remind!Cleanup(u)
                             \/ \E d \in {"none", "works", "gone"} : Remind!SetDevice(u, d)
         \/ \E n \in notes : Remind!MarkRead(n)
  PROVE  RemindersInv'
  <1>1. /\ Calendar /\ notes \subseteq Note /\ twice \subseteq Remind!Reminder
        /\ check \in [Workers -> Remind!Check] /\ \A w \in Workers : Fits(check[w])
    BY TypedParts DEF RemindersInv
  <1>2. ASSUME NEW s \in Series, NEW d \in Remind!Days, Remind!SetDeadline(s, d) PROVE RemindersInv'
    <2>1. deadline' \in [Events -> Remind!Days \cup {None}]
      BY <1>1, <1>2 DEF Remind!SetDeadline, Calendar
    <2>2. Calendar'
      BY <1>1, <1>2, <2>1 DEF Calendar, Remind!SetDeadline
    <2>3. QED
      BY <1>2, <2>2, DisturbStep DEF Remind!SetDeadline
  <1>3. ASSUME NEW e \in Events, Remind!EndEvent(e) PROVE RemindersInv'
    <2>1. Calendar'
      BY <1>1, <1>3 DEF Calendar, Remind!EndEvent
    <2>2. QED
      BY <1>3, <2>1, DisturbStep DEF Remind!EndEvent
  <1>4. ASSUME NEW u \in Users, Remind!SetPreference(u) PROVE RemindersInv'
    <2>1. Calendar'
      BY <1>1, <1>4 DEF Calendar, Remind!SetPreference
    <2>2. QED
      BY <1>4, <2>1, DisturbStep DEF Remind!SetPreference
  <1>5. ASSUME Calendar', SameNotes, UNCHANGED <<now, twice, check>> PROVE RemindersInv'
    <2>1. Removed' /\ notes' \subseteq Note
      <3>1. NotStored(Remind!NoCheck)
        BY DEF NotStored, Remind!NoCheck
      <3>2. QED
        BY <1>5, <3>1, SameNotesTimely
    <2>2. \A w \in Workers : NotStored(check[w])'
      BY <1>5, SameNotesTimely DEF RemindersInv, Timely
    <2>3. \A w \in Workers : Recent(check[w])'
      BY <1>5 DEF RemindersInv, Timely, Recent, Remind!UserDay
    <2>4. Typed'
      BY <1>1, <1>5, <2>1, TypedPartsPrimed
    <2>5. QED
      BY <1>5, <2>1, <2>2, <2>3, <2>4 DEF RemindersInv, Timely
  <1>6. ASSUME NEW u \in Users, Remind!Cleanup(u) PROVE RemindersInv'
    <2>1. notes' = {IF Remind!Expired(n, u) THEN [n EXCEPT !.kept = FALSE] ELSE n : n \in notes}
      BY <1>6 DEF Remind!Cleanup
    <2>2. \A n \in notes : /\ [n EXCEPT !.kept = FALSE] \in Note
                           /\ [n EXCEPT !.kept = FALSE].reminder = n.reminder
      BY <1>1 DEF Note
    <2>3. \A n \in notes : Remind!Expired(n, u) =>
            n.reminder.deadline - n.reminder.days < Remind!UserDay(n.reminder.user) - Retention
      BY DEF Remind!Expired
    <2>4. SameNotes
      <3>1. ASSUME NEW m \in notes'
            PROVE  m \in Note /\ \E n \in notes :
               /\ m.reminder = n.reminder
               /\ ~ m.kept => \/ ~ n.kept
                              \/ n.reminder.deadline - n.reminder.days
                                   < Remind!UserDay(n.reminder.user) - Retention
        <4>1. PICK n \in notes : m = IF Remind!Expired(n, u) THEN [n EXCEPT !.kept = FALSE] ELSE n
          BY <2>1
        <4>2. QED
          BY <1>1, <2>2, <2>3, <4>1
      <3>2. QED
        BY <3>1 DEF SameNotes
    <2>5. Calendar'
      BY <1>1, <1>6 DEF Calendar, Remind!Cleanup
    <2>6. QED
      BY <1>5, <1>6, <2>4, <2>5 DEF Remind!Cleanup
  <1>7. ASSUME NEW u \in Users, NEW d \in {"none", "works", "gone"}, Remind!SetDevice(u, d)
                 PROVE RemindersInv'
    <2>1. SameNotes
      BY <1>1, <1>7 DEF SameNotes, Remind!SetDevice
    <2>2. Calendar'
      BY <1>1, <1>7 DEF Calendar, Remind!SetDevice
    <2>3. QED
      BY <1>5, <1>7, <2>1, <2>2 DEF Remind!SetDevice
  <1>8. ASSUME NEW n \in notes, Remind!MarkRead(n) PROVE RemindersInv'
    <2>1. n \in Note /\ [n EXCEPT !.read = TRUE] \in Note
          /\ [n EXCEPT !.read = TRUE].reminder = n.reminder
               /\ [n EXCEPT !.read = TRUE].kept = n.kept
      BY <1>1 DEF Note
    <2>2. notes' = (notes \ {n}) \cup {[n EXCEPT !.read = TRUE]}
      BY <1>8 DEF Remind!MarkRead
    <2>3. SameNotes
      BY <1>1, <2>1, <2>2, Zenon DEF SameNotes
    <2>4. Calendar'
      BY <1>1, <1>8 DEF Calendar, Remind!MarkRead
    <2>5. QED
      BY <1>5, <1>8, <2>3, <2>4 DEF Remind!MarkRead
  <1>9. QED
    BY <1>2, <1>3, <1>4, <1>6, <1>7, <1>8

LEMMA TickStep ==
  ASSUME Remind!ConstantsAssumption, RemindersInv, Remind!Tick
  PROVE  RemindersInv'
  <1>1. /\ Calendar /\ notes \subseteq Note /\ twice \subseteq Remind!Reminder
        /\ check \in [Workers -> Remind!Check] /\ \A w \in Workers : Fits(check[w])
    BY TypedParts DEF RemindersInv
  <1>2. Calendar' /\ now \in 2 .. 2 * MaxDay + 1 /\ now' = now + 1
    <2>1. now < 2 * MaxDay + 1 /\ now' = now + 1 /\ UNCHANGED <<deadline, open, wants, device,
            crashes>>
      BY DEF Remind!Tick
    <2>2. now' \in 2 .. 2 * MaxDay + 1
      BY <1>1, <2>1 DEF Calendar, Remind!ConstantsAssumption
    <2>3. QED
      BY <1>1, <2>1, <2>2 DEF Calendar
  <1>3. \A u : /\ Remind!UserDay(u)' \in Int /\ Remind!UserDay(u) \in Int
               /\ Remind!UserDay(u) <= Remind!UserDay(u)'
                    /\ Remind!UserDay(u)' <= Remind!UserDay(u) + 1
    BY <1>2, DaysGoBy
  <1>4. ASSUME NEW w \in Workers
        PROVE  /\ Fits(check'[w])
               /\ \/ check'[w].phase = "idle" /\ check'[w].left = {}
                  \/ /\ check'[w].phase = check[w].phase /\ check'[w].left = check[w].left
                     /\ check'[w].user = check[w].user /\ check'[w].today = check[w].today
                     /\ check'[w].late /\ ~ check[w].late
                     /\ check'[w].reminder = check[w].reminder
    <2>1. CASE check[w].phase = "idle"
      <3>1. check'[w] = Remind!NoCheck
        BY <2>1 DEF Remind!Tick
      <3>2. QED
        BY <3>1, NoCheckFits
    <2>2. CASE check[w].phase # "idle"
      <3>1. check'[w] = [check[w] EXCEPT !.calm = FALSE, !.late = TRUE]
        BY <2>2 DEF Remind!Tick
      <3>2. check[w] \in Remind!Check /\ Fits(check[w]) /\ ~ check[w].late
        BY <1>1 DEF Remind!Tick
      <3>3. LET l == [check[w] EXCEPT !.calm = FALSE, !.late = TRUE]
            IN /\ Fits(l) /\ l.phase = check[w].phase /\ l.left = check[w].left
               /\ l.user = check[w].user /\ l.today = check[w].today /\ l.late = TRUE
               /\ l.reminder = check[w].reminder
        BY <3>2, DisturbFits
      <3>4. QED
        BY <3>1, <3>2, <3>3
    <2>3. QED
      BY <2>1, <2>2
  <1>5. check' \in [Workers -> Remind!Check]
    BY <1>4 DEF Remind!Tick, Fits
  <1>6. Typed'
    BY <1>1, <1>2, <1>4, <1>5, TypedPartsPrimed DEF Remind!Tick
  <1>7. notes' = notes /\ twice' = twice
    BY DEF Remind!Tick
  <1>8. Removed'
    <2>1. ASSUME NEW n \in notes, ~ n.kept
          PROVE  n.reminder.deadline - n.reminder.days < Remind!UserDay(n.reminder.user)' - Retention
      <3>1. n.reminder.deadline \in Int /\ n.reminder.days \in Int /\ Retention \in Int
        BY <1>1 DEF Note, Remind!Reminder, Remind!Days, Remind!ConstantsAssumption
      <3>2. n.reminder.deadline - n.reminder.days < Remind!UserDay(n.reminder.user) - Retention
        BY <2>1 DEF RemindersInv, Timely, Removed
      <3>3. QED
        BY <1>3, <3>1, <3>2
    <2>2. QED
      BY <1>7, <2>1 DEF Removed
  <1>9. \A w \in Workers : Recent(check[w])'
    <2>1. ASSUME NEW w \in Workers, check'[w].left # {}, NEW u, u = check[w].user
          PROVE  /\ Remind!UserDay(u)' <= check'[w].today + 1 /\ check'[w].late
                      /\ check'[w].user = u
      <3>1. /\ check'[w].left = check[w].left /\ check'[w].user = check[w].user
            /\ check'[w].today = check[w].today /\ check'[w].late /\ ~ check[w].late
        BY <1>4, <2>1
      <3>2. Remind!UserDay(u) <= check[w].today
        BY <2>1, <3>1 DEF RemindersInv, Timely, Recent
      <3>3. check[w].today \in Int
        BY <1>1 DEF Remind!Check, Remind!ConstantsAssumption
      <3>4. Remind!UserDay(u)' <= check[w].today + 1
        BY <1>3, <3>2, <3>3
      <3>5. QED
        BY <2>1, <3>1, <3>4
    <2>2. QED
      BY <2>1 DEF Recent, Remind!UserDay
  <1>10. \A w \in Workers : NotStored(check[w])'
    BY <1>4, <1>7 DEF RemindersInv, Timely, NotStored
  <1>11. QED
    BY <1>6, <1>7, <1>8, <1>9, <1>10 DEF RemindersInv, Timely

(* A step of the only process.                                             *)
LEMMA OwnStep ==
  ASSUME Remind!ConstantsAssumption, RemindersInv, OneWorker, NEW w \in Workers, NEW c,
         check' = [check EXCEPT ![w] = c], Fits(c),
         c.left # {} => Remind!UserDay(c.user) <= c.today + 1 /\ (~ c.late =>
           Remind!UserDay(c.user) <= c.today),
         c.phase = "store" => \A n \in notes' : n.reminder # c.reminder,
         Removed', notes' \subseteq Note, twice' = {}, Calendar', now' = now
  PROVE  RemindersInv'
  <1>1. /\ check' \in [Workers -> Remind!Check] /\ \A v \in Workers : Fits(check'[v])
        /\ \A v \in Workers : check'[v] = c
    BY OneCheck DEF RemindersInv, OneWorker
  <1>2. Typed'
    BY <1>1, TypedPartsPrimed
  <1>3. \A v \in Workers : Recent(check[v])' /\ NotStored(check[v])'
    BY <1>1 DEF Recent, NotStored, Remind!UserDay
  <1>4. QED
    BY <1>2, <1>3 DEF RemindersInv, Timely

LEMMA LookStep ==
  ASSUME Remind!ConstantsAssumption, RemindersInv, OneWorker, NEW w \in Workers,
           NEW e \in Events, Remind!Look(w, e)
  PROVE  RemindersInv'
  <1> DEFINE s == check[w]
             rest == [s EXCEPT !.left = @ \ {e}]
             r == [user |-> s.user, event |-> e, days |-> s.seen[e] - s.today,
               deadline |-> s.seen[e]]
             d == [rest EXCEPT !.phase = "store", !.reminder = r]
  <1>1. /\ Calendar /\ notes \subseteq Note /\ s \in Remind!Check /\ Fits(s)
    BY TypedParts DEF RemindersInv
  <1>2. /\ s.phase = "check" /\ e \in s.left
        /\ UNCHANGED <<now, deadline, open, wants, device, notes, twice, crashes>>
        /\ \/ check' = [check EXCEPT ![w] = rest]
           \/ /\ Remind!Due(s.user, s.seen[e], s.today)
                   /\ ~ Remind!Reminded(s.user, e, s.seen[e] - s.today)
              /\ check' = [check EXCEPT ![w] = d]
    BY DEF Remind!Look
  <1>3. Removed' /\ Calendar' /\ notes' \subseteq Note /\ twice' = {}
    BY <1>1, <1>2 DEF RemindersInv, Timely, Removed, Remind!UserDay, Calendar
  <1>4. Remind!UserDay(s.user) <= s.today + 1 /\ (~ s.late => Remind!UserDay(s.user) <= s.today)
    BY <1>2 DEF RemindersInv, Timely, Recent
  <1>5. /\ Fits(rest) /\ rest.phase = "check" /\ rest.left \subseteq s.left
        /\ rest.user = s.user /\ rest.today = s.today /\ rest.late = s.late
        /\ Remind!Due(s.user, s.seen[e], s.today) =>
             /\ Fits(d) /\ d.phase = "store" /\ d.left \subseteq s.left /\ d.reminder = r
             /\ d.user = s.user /\ d.today = s.today /\ d.late = s.late
             /\ r \in Remind!Reminder
    BY <1>1, <1>2, LookFits
  <1>6. r.user = s.user /\ r.event = e /\ r.days = s.seen[e] - s.today /\ r.deadline = s.seen[e]
    OBVIOUS
  <1>7. s.today \in Int
    BY <1>1 DEF Remind!Check, Remind!ConstantsAssumption
  <1> HIDE DEF r, d, rest
  <1>8. CASE check' = [check EXCEPT ![w] = rest]
    BY <1>2, <1>3, <1>4, <1>5, <1>8, OwnStep
  <1>9. CASE /\ Remind!Due(s.user, s.seen[e], s.today)
                  /\ ~ Remind!Reminded(s.user, e, s.seen[e] - s.today)
             /\ check' = [check EXCEPT ![w] = d]
    <2>1. ASSUME NEW n \in notes, n.reminder = r PROVE FALSE
      <3>1. n.kept \in BOOLEAN
        BY <1>1 DEF Note
      <3>2. ~ n.kept
        BY <1>6, <1>9, <2>1 DEF Remind!Reminded
      <3>3. r.deadline - r.days < Remind!UserDay(r.user) - Retention
        BY <2>1, <3>2 DEF RemindersInv, Timely, Removed
      <3>4. r.deadline \in Int /\ s.seen[e] \in Int
        BY <1>5, <1>6, <1>9 DEF Remind!Reminder, Remind!Days
      <3>5. r.deadline - r.days = s.today
        BY <1>6, <1>7, <3>4
      <3>6. Remind!UserDay(r.user) \in Int
        BY <1>1, UserDayFits DEF Calendar
      <3>7. Remind!UserDay(r.user) <= s.today + 1
        BY <1>4, <1>6
      <3>8. QED
        BY <1>7, <3>3, <3>5, <3>6, <3>7 DEF Remind!ConstantsAssumption
    <2>2. \A n \in notes' : n.reminder # d.reminder
      BY <1>2, <1>5, <1>9, <2>1
    <2>3. QED
      BY <1>2, <1>3, <1>4, <1>5, <1>9, <2>2, OwnStep
  <1>10. QED
    BY <1>2, <1>8, <1>9

LEMMA CheckSteps ==
  ASSUME Remind!ConstantsAssumption, RemindersInv, OneWorker, NEW w \in Workers,
         Remind!Start(w) \/ Remind!NextUser(w) \/ Remind!Store(w) \/ Remind!Deliver(w)
           \/ Remind!Finish(w) \/ Remind!Crash(w)
  PROVE  RemindersInv'
  <1> DEFINE s == check[w]
  <1>1. /\ Calendar /\ notes \subseteq Note /\ s \in Remind!Check /\ Fits(s) /\ twice = {}
             /\ Removed
    BY TypedParts DEF RemindersInv, Timely
  <1>2. UNCHANGED <<now, notes>> => Removed' /\ notes' \subseteq Note
    BY <1>1 DEF Removed, Remind!UserDay
  <1>3. s.left # {} => Remind!UserDay(s.user) <= s.today + 1 /\ (~ s.late =>
          Remind!UserDay(s.user) <= s.today)
    BY DEF RemindersInv, Timely, Recent
  <1>4. CASE Remind!Start(w)
    <2> DEFINE c == [Remind!NoCheck EXCEPT !.phase = "check", !.events = Remind!Selected,
          !.calm = TRUE,
                                    !.users = IF Remind!Selected = {} THEN {} ELSE Users,
                                    !.seen = Remind!Loaded(Remind!Selected)]
    <2>1. Fits(c) /\ c.phase = "check" /\ c.left = {}
      BY <1>1, StartFits
    <2>2. check' = [check EXCEPT ![w] = c]
      BY <1>4 DEF Remind!Start
    <2> HIDE DEF c
    <2>3. UNCHANGED <<now, notes, twice>> /\ Calendar'
      BY <1>1, <1>4 DEF Remind!Start, Calendar
    <2>4. QED
      BY <1>1, <1>2, <2>1, <2>2, <2>3, OwnStep
  <1>5. CASE Remind!NextUser(w)
    <2>1. PICK u \in s.users :
            LET c == [s EXCEPT !.users = @ \ {u}, !.user = u, !.today = Remind!UserDay(u),
                  !.left = s.events]
            IN check' = [check EXCEPT ![w] = c]
      BY <1>5 DEF Remind!NextUser
    <2> DEFINE c == [s EXCEPT !.users = @ \ {u}, !.user = u, !.today = Remind!UserDay(u),
          !.left = s.events]
    <2>2. s.phase = "check" /\ UNCHANGED <<now, notes, twice>> /\ Calendar'
      BY <1>1, <1>5 DEF Remind!NextUser, Calendar
    <2>3. Fits(c) /\ c.phase = "check" /\ c.user = u /\ c.today = Remind!UserDay(u)
      BY <1>1, <2>2, NextUserFits
    <2>4. check' = [check EXCEPT ![w] = c]
      BY <2>1
    <2> HIDE DEF c
    <2>5. Remind!UserDay(u) \in Int
      BY <1>1, UserDayFits DEF Calendar
    <2>6. Remind!UserDay(c.user) <= c.today
      BY <2>3, <2>5
    <2>7. Remind!UserDay(c.user) <= c.today + 1
      BY <2>3, <2>5
    <2>8. QED
      BY <1>1, <1>2, <2>2, <2>3, <2>4, <2>6, <2>7, OwnStep
  <1>6. CASE Remind!Store(w)
    <2> DEFINE c == [s EXCEPT !.phase = "push", !.seen = Remind!Loaded(s.events)]
               m == [reminder |-> s.reminder, read |-> FALSE, kept |-> TRUE, push |-> "pending"]
    <2>1. s.phase = "store" /\ s.reminder \in Remind!Reminder
      BY <1>1, <1>6 DEF Remind!Store, Fits
    <2>2. \A n \in notes : n.reminder # s.reminder
      BY <2>1 DEF RemindersInv, Timely, NotStored
    <2>3. notes' = notes \cup {m} /\ twice' = twice /\ now' = now /\ Calendar'
      BY <1>1, <1>6, <2>2 DEF Remind!Store, Calendar
    <2>4. m \in Note /\ m.kept = TRUE
      BY <2>1 DEF Note
    <2> HIDE DEF m
    <2>5. notes' \subseteq Note /\ Removed'
      BY <1>1, <2>3, <2>4 DEF Removed, Remind!UserDay
    <2>6. /\ Fits(c) /\ c.phase = "push" /\ c.left = s.left
          /\ c.user = s.user /\ c.today = s.today /\ c.late = s.late
      BY <1>1, <2>1, StoreFits
    <2>7. check' = [check EXCEPT ![w] = c]
      BY <1>6 DEF Remind!Store
    <2> HIDE DEF c
    <2>8. QED
      BY <1>1, <1>3, <2>3, <2>5, <2>6, <2>7, OwnStep
  <1>7. CASE Remind!Deliver(w)
    <2> DEFINE c == [s EXCEPT !.phase = "check", !.reminder = None,
          !.seen = Remind!Loaded(s.events)]
    <2>1. s.phase = "push"
      BY <1>7 DEF Remind!Deliver
    <2>2. /\ Fits(c) /\ c.phase = "check" /\ c.left = s.left
          /\ c.user = s.user /\ c.today = s.today /\ c.late = s.late
      BY <1>1, <2>1, StoreFits
    <2>3. check' = [check EXCEPT ![w] = c]
      BY <1>7 DEF Remind!Deliver
    <2> HIDE DEF c
    <2>4. PICK p \in {"no_device", "pushed", "failed"} :
            notes' = {IF n.reminder = s.reminder THEN [n EXCEPT !.push = p] ELSE n : n \in notes}
      BY <1>7 DEF Remind!Deliver
    <2>5. \A n \in notes : /\ n \in Note /\ [n EXCEPT !.push = p] \in Note
                           /\ [n EXCEPT !.push = p].reminder = n.reminder
                           /\ [n EXCEPT !.push = p].kept = n.kept
      BY <1>1, <2>4 DEF Note
    <2>6. SameNotes
      <3>1. ASSUME NEW m \in notes'
            PROVE  m \in Note /\ \E n \in notes : m.reminder = n.reminder /\ m.kept = n.kept
        <4>1. PICK n \in notes : m = IF n.reminder = s.reminder THEN [n EXCEPT !.push = p] ELSE n
          BY <2>4
        <4>2. QED
          BY <2>5, <4>1
      <3>2. QED
        BY <3>1 DEF SameNotes
    <2>7. now' = now /\ twice' = twice
      BY <1>7 DEF Remind!Deliver
    <2>8. Calendar'
      <3>1. device' \in [Users -> {"none", "works", "gone"}]
        BY <1>1, <1>7 DEF Remind!Deliver, Calendar
      <3>2. QED
        BY <1>1, <1>7, <3>1 DEF Remind!Deliver, Calendar
    <2>9. NotStored(Remind!NoCheck)
      BY DEF NotStored, Remind!NoCheck
    <2>10. Removed' /\ notes' \subseteq Note
      BY <2>6, <2>7, <2>9, SameNotesTimely
    <2>11. QED
      BY <1>1, <1>3, <2>2, <2>3, <2>7, <2>8, <2>10, OwnStep
  <1>8. CASE Remind!Finish(w) \/ Remind!Crash(w)
    <2>1. check' = [check EXCEPT ![w] = Remind!NoCheck] /\ UNCHANGED <<now, notes, twice>>
      BY <1>8 DEF Remind!Finish, Remind!Crash
    <2>2. Calendar'
      BY <1>1, <1>8 DEF Remind!Finish, Remind!Crash, Calendar, Remind!ConstantsAssumption
    <2>3. QED
      BY <1>1, <1>2, <2>1, <2>2, NoCheckFits, OwnStep
  <1>9. QED
    BY <1>4, <1>5, <1>6, <1>7, <1>8

LEMMA InitReminders ==
  ASSUME Remind!ConstantsAssumption, Remind!Init
  PROVE  RemindersInv
  <1>1. Calendar
    BY DEF Remind!Init, Calendar, Remind!ConstantsAssumption
  <1>2. notes = {} /\ twice = {} /\ check = [w \in Workers |-> Remind!NoCheck]
    BY DEF Remind!Init
  <1>3. Typed
    BY <1>1, <1>2, NoCheckFits, TypedParts DEF Fits
  <1>4. QED
    BY <1>2, <1>3, NoCheckFits DEF RemindersInv, Timely, Removed, Recent, NotStored

LEMMA NextReminders ==
  ASSUME Remind!ConstantsAssumption, OneWorker, RemindersInv, [Remind!Next]_(Remind!vars)
  PROVE  RemindersInv'
  <1>1. CASE UNCHANGED Remind!vars
    BY <1>1 DEF Remind!vars, RemindersInv, Typed, Remind!TypeOK, Timely, Removed, Recent,
       NotStored, Remind!UserDay
  <1>2. CASE Remind!Next
    BY <1>2, TickStep, UserSteps, CheckSteps, LookStep DEF Remind!Next
  <1>3. QED
    BY <1>1, <1>2

(* With one server process, a reminder is stored once for a member, however *)
(* deadlines move, notes are read and removed, checks end and days go by.   *)
THEOREM NeverTwiceReminded ==
  Remind!ConstantsAssumption /\ OneWorker /\ Remind!Spec => []Remind!NoDuplicate
  <1> SUFFICES ASSUME Remind!ConstantsAssumption, OneWorker
               PROVE  Remind!Spec => []Remind!NoDuplicate
    OBVIOUS
  <1>1. Remind!Init => RemindersInv
    BY InitReminders
  <1>2. RemindersInv /\ [Remind!Next]_(Remind!vars) => RemindersInv'
    BY NextReminders
  <1>3. RemindersInv => Remind!NoDuplicate
    BY DEF RemindersInv, Timely, Remind!NoDuplicate
  <1>4. QED
    BY <1>1, <1>2, <1>3, PTL DEF Remind!Spec

-----------------------------------------------------------------------------
(* That a check reminds: for any number of processes, what a check has     *)
(* come to and nothing has disturbed since is reminded of.                 *)
LEMMA TypedOwn ==
  ASSUME Typed, NEW w \in Workers, NEW c, Fits(c), check' = [check EXCEPT ![w] = c],
         Calendar', notes' \subseteq Note, twice' \subseteq Remind!Reminder
  PROVE  Typed'
  BY OneCheck, TypedPartsPrimed

LEMMA TypedUsers ==
  ASSUME Remind!ConstantsAssumption, Typed,
         \/ \E s \in Series : \E d \in Remind!Days : Remind!SetDeadline(s, d)
         \/ \E e \in Events : Remind!EndEvent(e)
         \/ \E u \in Users : \/ Remind!SetPreference(u) \/ Remind!Cleanup(u)
                             \/ \E d \in {"none", "works", "gone"} : Remind!SetDevice(u, d)
         \/ \E n \in notes : Remind!MarkRead(n)
  PROVE  Typed'
  <1>1. /\ Calendar /\ notes \subseteq Note /\ twice \subseteq Remind!Reminder
        /\ check \in [Workers -> Remind!Check] /\ \A w \in Workers : Fits(check[w])
    BY TypedParts
  <1>2. ASSUME Remind!Disturb, Calendar', UNCHANGED <<notes, twice>> PROVE Typed'
    BY <1>1, <1>2, ChecksDisturbed, TypedPartsPrimed
  <1>3. ASSUME Calendar', notes' \subseteq Note, UNCHANGED <<twice, check>> PROVE Typed'
    BY <1>1, <1>3, TypedPartsPrimed
  <1>4. ASSUME NEW s \in Series, NEW d \in Remind!Days, Remind!SetDeadline(s, d) PROVE Typed'
    <2>1. deadline' \in [Events -> Remind!Days \cup {None}]
      BY <1>1, <1>4 DEF Remind!SetDeadline, Calendar
    <2>2. Calendar'
      BY <1>1, <1>4, <2>1 DEF Calendar, Remind!SetDeadline
    <2>3. QED
      BY <1>2, <1>4, <2>2 DEF Remind!SetDeadline
  <1>5. ASSUME NEW e \in Events, Remind!EndEvent(e) PROVE Typed'
    BY <1>1, <1>2, <1>5 DEF Calendar, Remind!EndEvent
  <1>6. ASSUME NEW u \in Users, Remind!SetPreference(u) PROVE Typed'
    BY <1>1, <1>2, <1>6 DEF Calendar, Remind!SetPreference
  <1>7. ASSUME NEW u \in Users, Remind!Cleanup(u) PROVE Typed'
    <2>1. \A n \in Note : [n EXCEPT !.kept = FALSE] \in Note
      BY DEF Note
    <2>2. notes' \subseteq Note
      BY <1>1, <1>7, <2>1 DEF Remind!Cleanup
    <2>3. QED
      BY <1>1, <1>3, <1>7, <2>2 DEF Calendar, Remind!Cleanup
  <1>8. ASSUME NEW u \in Users, NEW d \in {"none", "works", "gone"}, Remind!SetDevice(u, d)
        PROVE Typed'
    BY <1>1, <1>3, <1>8 DEF Calendar, Remind!SetDevice
  <1>9. ASSUME NEW n \in notes, Remind!MarkRead(n) PROVE Typed'
    <2>1. \A m \in Note : [m EXCEPT !.read = TRUE] \in Note
      BY DEF Note
    <2>2. notes' \subseteq Note
      BY <1>1, <1>9, <2>1 DEF Remind!MarkRead
    <2>3. QED
      BY <1>1, <1>3, <1>9, <2>2 DEF Calendar, Remind!MarkRead
  <1>10. QED
    BY <1>4, <1>5, <1>6, <1>7, <1>8, <1>9

LEMMA TypedTick ==
  ASSUME Remind!ConstantsAssumption, Typed, Remind!Tick
  PROVE  Typed'
  <1>1. /\ Calendar /\ notes \subseteq Note /\ twice \subseteq Remind!Reminder
        /\ check \in [Workers -> Remind!Check] /\ \A w \in Workers : Fits(check[w])
    BY TypedParts
  <1>2. now < 2 * MaxDay + 1 /\ now' = now + 1
        /\ UNCHANGED <<deadline, open, wants, device, crashes>>
    BY DEF Remind!Tick
  <1>3. now' \in 2 .. 2 * MaxDay + 1
    BY <1>1, <1>2 DEF Calendar, Remind!ConstantsAssumption
  <1>4. Calendar'
    BY <1>1, <1>2, <1>3 DEF Calendar
  <1>5. ASSUME NEW w \in Workers PROVE Fits(check'[w])
    <2>1. LET l == [check[w] EXCEPT !.calm = FALSE, !.late = TRUE] IN Fits(l)
      BY <1>1, DisturbFits
    <2>2. check'[w] = IF check[w].phase = "idle" THEN Remind!NoCheck
                      ELSE [check[w] EXCEPT !.calm = FALSE, !.late = TRUE]
      BY DEF Remind!Tick
    <2>3. QED
      BY <2>1, <2>2, NoCheckFits
  <1>6. check' \in [Workers -> Remind!Check]
    BY <1>5 DEF Remind!Tick, Fits
  <1>7. QED
    BY <1>1, <1>4, <1>5, <1>6, TypedPartsPrimed DEF Remind!Tick

LEMMA TypedCheck ==
  ASSUME Remind!ConstantsAssumption, Typed, NEW w \in Workers,
         \/ Remind!Start(w) \/ Remind!NextUser(w) \/ Remind!Store(w) \/ Remind!Deliver(w)
         \/ Remind!Finish(w) \/ Remind!Crash(w) \/ \E e \in Events : Remind!Look(w, e)
  PROVE  Typed'
  <1> DEFINE s == check[w]
  <1>1. /\ Calendar /\ notes \subseteq Note /\ twice \subseteq Remind!Reminder
        /\ s \in Remind!Check /\ Fits(s)
    BY TypedParts
  <1>2. CASE Remind!Start(w)
    <2>1. Calendar' /\ UNCHANGED <<notes, twice>>
      BY <1>1, <1>2 DEF Remind!Start, Calendar
    <2>2. QED
      BY <1>1, <1>2, <2>1, StartFits, TypedOwn DEF Remind!Start
  <1>3. CASE Remind!NextUser(w)
    <2>1. s.phase = "check" /\ Calendar' /\ UNCHANGED <<notes, twice>>
      BY <1>1, <1>3 DEF Remind!NextUser, Calendar
    <2>2. \E c : Fits(c) /\ check' = [check EXCEPT ![w] = c]
      BY <1>1, <1>3, <2>1, NextUserFits DEF Remind!NextUser
    <2>3. QED
      BY <1>1, <2>1, <2>2, TypedOwn
  <1>4. CASE Remind!Store(w)
    <2> DEFINE m == [reminder |-> s.reminder, read |-> FALSE, kept |-> TRUE, push |-> "pending"]
    <2>1. s.phase = "store" /\ s.reminder \in Remind!Reminder
      BY <1>1, <1>4 DEF Remind!Store, Fits
    <2>2. m \in Note
      BY <2>1 DEF Note
    <2>3. Calendar' /\ notes' \subseteq notes \cup {m} /\ twice' \subseteq twice \cup {s.reminder}
      BY <1>1, <1>4 DEF Remind!Store, Calendar
    <2>4. notes' \subseteq Note /\ twice' \subseteq Remind!Reminder
      BY <1>1, <2>1, <2>2, <2>3
    <2>5. \E c : Fits(c) /\ check' = [check EXCEPT ![w] = c]
      BY <1>1, <1>4, <2>1, StoreFits DEF Remind!Store
    <2>6. QED
      BY <2>3, <2>4, <2>5, TypedOwn
  <1>5. CASE Remind!Deliver(w)
    <2>1. s.phase = "push"
      BY <1>5 DEF Remind!Deliver
    <2>2. device' \in [Users -> {"none", "works", "gone"}]
      BY <1>1, <1>5 DEF Remind!Deliver, Calendar
    <2>3. Calendar' /\ twice' = twice
      BY <1>1, <1>5, <2>2 DEF Remind!Deliver, Calendar
    <2>4. PICK p \in {"no_device", "pushed", "failed"} :
            notes' = {IF n.reminder = s.reminder THEN [n EXCEPT !.push = p] ELSE n : n \in notes}
      BY <1>5 DEF Remind!Deliver
    <2>5. \A n \in Note : [n EXCEPT !.push = p] \in Note
      BY <2>4 DEF Note
    <2>6. notes' \subseteq Note
      BY <1>1, <2>4, <2>5
    <2>7. \E c : Fits(c) /\ check' = [check EXCEPT ![w] = c]
      BY <1>1, <1>5, <2>1, StoreFits DEF Remind!Deliver
    <2>8. QED
      BY <1>1, <2>3, <2>6, <2>7, TypedOwn
  <1>6. CASE Remind!Finish(w) \/ Remind!Crash(w)
    <2>1. check' = [check EXCEPT ![w] = Remind!NoCheck] /\ UNCHANGED <<notes, twice>>
      BY <1>6 DEF Remind!Finish, Remind!Crash
    <2>2. Calendar'
      BY <1>1, <1>6 DEF Remind!Finish, Remind!Crash, Calendar, Remind!ConstantsAssumption
    <2>3. QED
      BY <1>1, <2>1, <2>2, NoCheckFits, TypedOwn
  <1>7. ASSUME NEW e \in Events, Remind!Look(w, e) PROVE Typed'
    <2>1. s.phase = "check" /\ e \in s.left /\ Calendar' /\ UNCHANGED <<notes, twice>>
      BY <1>1, <1>7 DEF Remind!Look, Calendar
    <2>2. \E c : Fits(c) /\ check' = [check EXCEPT ![w] = c]
      BY <1>1, <1>7, <2>1, LookFits DEF Remind!Look
    <2>3. QED
      BY <1>1, <2>1, <2>2, TypedOwn
  <1>8. QED
    BY <1>2, <1>3, <1>4, <1>5, <1>6, <1>7

-----------------------------------------------------------------------------
(* A reminder of deadlines as they are; deadlines are set once.            *)
Unmoved == ~ Moves /\ Behind = {}

Of(u, e) == [user |-> u, event |-> e, days |-> deadline[e] - Remind!UserDay(u),
             deadline |-> deadline[e]]
Near(u, e) == deadline[e] # None /\ deadline[e] - Remind!UserDay(u) \in 0 .. Before
Noted(u, e, N) == \E n \in N : n.reminder = Of(u, e)

Dated(r) == r.deadline # None /\ deadline[r.event] = r.deadline
KnowsDates(c) == /\ \A e \in Events : c.seen[e] \in {None, deadline[e]}
                 /\ c.phase = "store" => Dated(c.reminder)

(* Of the members that an undisturbed check has come to, all have their    *)
(* reminders but the one at hand: of the events that are left, and of the  *)
(* reminder that is about to be stored.                                    *)
Covers(c, N) ==
  \A u \in wants \ c.users, e \in c.events : Near(u, e) =>
    \/ Noted(u, e, N)
    \/ u = c.user /\ e \in c.left
    \/ c.phase = "store" /\ c.reminder = Of(u, e)
Undisturbed(c) ==
  /\ c.events = Remind!Selected /\ c.seen = Remind!Loaded(c.events) /\ c.left \subseteq c.events
  /\ c.left # {} => c.today = Remind!UserDay(c.user)

CalmCovers(c, N) == c.calm => Undisturbed(c) /\ Covers(c, N)

Reminding == /\ Typed
             /\ \A n \in notes : Dated(n.reminder)
             /\ \A w \in Workers : KnowsDates(check[w]) /\ CalmCovers(check[w], notes)

Stays == \A n \in notes : \E m \in notes' : m.reminder = n.reminder

(* Notes come and are marked, nothing that a check looks at changes.       *)
LEMMA SameWorld ==
  ASSUME UNCHANGED <<now, deadline, open, wants>>, NEW w \in Workers,
         KnowsDates(check'[w]), CalmCovers(check'[w], notes')
  PROVE  KnowsDates(check[w])' /\ CalmCovers(check[w], notes)'
  <1>1. KnowsDates(check[w])'
    BY DEF KnowsDates, Dated
  <1>2. Remind!Selected' = Remind!Selected
    BY DEF Remind!Selected, Remind!Today
  <1>3. \A u : Remind!UserDay(u)' = Remind!UserDay(u)
    BY DEF Remind!UserDay
  <1>4. \A u, e : Of(u, e)' = Of(u, e) /\ Near(u, e)' = Near(u, e)
    BY <1>3 DEF Of, Near
  <1>5. check'[w].calm => Covers(check[w], notes)'
    BY <1>4 DEF CalmCovers, Covers, Noted
  <1>6. check'[w].calm => Undisturbed(check[w])'
    BY <1>2, <1>3 DEF CalmCovers, Undisturbed, Remind!Loaded
  <1>7. QED
    BY <1>1, <1>5, <1>6 DEF CalmCovers

LEMMA NotesKept ==
  ASSUME NEW c, CalmCovers(c, notes), Stays
  PROVE  CalmCovers(c, notes')
  BY DEF CalmCovers, Covers, Noted, Stays

LEMMA RemindingOwn ==
  ASSUME Typed', Reminding, NEW w \in Workers, NEW c, check' = [check EXCEPT ![w] = c],
         UNCHANGED <<now, deadline, open, wants>>,
         Stays, \A n \in notes' : Dated(n.reminder),
         KnowsDates(c), CalmCovers(c, notes')
  PROVE  Reminding'
  <1>1. check \in [Workers -> Remind!Check]
    BY TypedParts DEF Reminding
  <1>2. ASSUME NEW v \in Workers PROVE KnowsDates(check'[v]) /\ CalmCovers(check'[v], notes')
    <2>1. CASE v = w
      BY <1>1, <2>1
    <2>2. CASE v # w
      <3>1. check'[v] = check[v]
        BY <1>1, <2>2
      <3>2. KnowsDates(check[v]) /\ CalmCovers(check[v], notes')
        BY NotesKept DEF Reminding
      <3>3. QED
        BY <3>1, <3>2
    <2>3. QED
      BY <2>1, <2>2
  <1>3. \A v \in Workers : KnowsDates(check[v])' /\ CalmCovers(check[v], notes)'
    BY <1>2, SameWorld
  <1>4. \A n \in notes' : Dated(n.reminder)'
    BY DEF Dated
  <1>5. QED
    BY <1>3, <1>4 DEF Reminding

LEMMA RemindingNotes ==
  ASSUME Typed', Reminding, UNCHANGED <<now, deadline, open, wants, check>>,
         Stays, \A n \in notes' : Dated(n.reminder)
  PROVE  Reminding'
  <1>1. \A v \in Workers : KnowsDates(check'[v]) /\ CalmCovers(check'[v], notes')
    BY NotesKept DEF Reminding
  <1>2. \A v \in Workers : KnowsDates(check[v])' /\ CalmCovers(check[v], notes)'
    BY <1>1, SameWorld
  <1>3. \A n \in notes' : Dated(n.reminder)'
    BY DEF Dated
  <1>4. QED
    BY <1>2, <1>3 DEF Reminding

(* Whatever disturbs a check, the dates that are known stay.               *)
Interrupted(w) ==
  \/ check'[w] = Remind!NoCheck
  \/ /\ ~ check'[w].calm /\ check'[w].phase = check[w].phase
     /\ check'[w].seen = check[w].seen /\ check'[w].reminder = check[w].reminder

LEMMA RemindingDisturbed ==
  ASSUME Typed', Reminding, Remind!ConstantsAssumption, UNCHANGED notes,
         \A e \in Events : deadline[e] # None => deadline'[e] = deadline[e],
         \A w \in Workers : Interrupted(w)
  PROVE  Reminding'
  <1>1. /\ \A n \in notes : n \in Note /\ Dated(n.reminder)
        /\ \A w \in Workers : Fits(check[w]) /\ KnowsDates(check[w])
    BY TypedParts DEF Reminding
  <1>2. \A r \in Remind!Reminder : Dated(r) => Dated(r)'
    BY DEF Dated, Remind!Reminder
  <1>3. \A n \in notes' : Dated(n.reminder)'
    <2>1. ASSUME NEW n \in notes PROVE Dated(n.reminder)'
      BY <1>1, <2>1 DEF Note, Remind!Reminder, Dated
    <2>2. QED
      BY <2>1
  <1>4. ASSUME NEW w \in Workers PROVE KnowsDates(check[w])' /\ CalmCovers(check[w], notes)'
    <2>1. CASE check'[w] = Remind!NoCheck
      BY <2>1 DEF Remind!NoCheck, KnowsDates, CalmCovers
    <2>2. CASE check'[w] # Remind!NoCheck
      <3>1. /\ ~ check'[w].calm /\ check'[w].phase = check[w].phase
            /\ check'[w].seen = check[w].seen /\ check'[w].reminder = check[w].reminder
        BY <2>2 DEF Interrupted
      <3>2. \A e \in Events : check'[w].seen[e] \in {None, deadline'[e]}
        BY <1>1, <3>1 DEF KnowsDates
      <3>3. check'[w].phase = "store" =>
              /\ check[w].reminder \in Remind!Reminder /\ Dated(check[w].reminder)
              /\ check'[w].reminder = check[w].reminder
        BY <1>1, <3>1 DEF Fits, KnowsDates
      <3>4. check'[w].phase = "store" => Dated(check[w].reminder)'
        BY <3>3 DEF Dated, Remind!Reminder
      <3>5. QED
        BY <3>1, <3>2, <3>4 DEF KnowsDates, CalmCovers
    <2>3. QED
      BY <2>1, <2>2
  <1>5. QED
    BY <1>3, <1>4 DEF Reminding

LEMMA RemindingUsers ==
  ASSUME Remind!ConstantsAssumption, Unmoved, Reminding,
         \/ \E s \in Series : \E d \in Remind!Days : Remind!SetDeadline(s, d)
         \/ \E e \in Events : Remind!EndEvent(e)
         \/ \E u \in Users : \/ Remind!SetPreference(u) \/ Remind!Cleanup(u)
                             \/ \E d \in {"none", "works", "gone"} : Remind!SetDevice(u, d)
         \/ \E n \in notes : Remind!MarkRead(n)
  PROVE  Reminding'
  <1>1. /\ Calendar /\ notes \subseteq Note /\ \A w \in Workers : check[w] \in Remind!Check
        /\ \A n \in notes : Dated(n.reminder)
    BY TypedParts DEF Reminding
  <1>2. Typed'
    BY TypedUsers DEF Reminding
  <1>3. ASSUME Remind!Disturb, UNCHANGED notes,
               \A e \in Events : deadline[e] # None => deadline'[e] = deadline[e]
        PROVE  Reminding'
    <2>1. \A w \in Workers : /\ check'[w] = [check[w] EXCEPT !.calm = FALSE]
                             /\ check[w] \in Remind!Check
      BY <1>1, <1>3 DEF Remind!Disturb
    <2>2. \A c \in Remind!Check :
            LET d == [c EXCEPT !.calm = FALSE]
            IN ~ d.calm /\ d.phase = c.phase /\ d.seen = c.seen /\ d.reminder = c.reminder
      BY DEF Remind!Check
    <2>3. \A w \in Workers : Interrupted(w)
      BY <2>1, <2>2 DEF Interrupted
    <2>4. QED
      BY <1>2, <1>3, <2>3, RemindingDisturbed
  <1>4. ASSUME NEW s \in Series, NEW d \in Remind!Days, Remind!SetDeadline(s, d) PROVE Reminding'
    <2>1. \A e \in s : deadline[e] = None
      BY <1>4 DEF Remind!SetDeadline, Unmoved
    <2>2. \A e \in Events : deadline[e] # None => deadline'[e] = deadline[e]
      BY <1>4, <2>1 DEF Remind!SetDeadline
    <2>3. QED
      BY <1>3, <1>4, <2>2 DEF Remind!SetDeadline
  <1>5. ASSUME NEW e \in Events, Remind!EndEvent(e) PROVE Reminding'
    BY <1>3, <1>5 DEF Remind!EndEvent
  <1>6. ASSUME NEW u \in Users, Remind!SetPreference(u) PROVE Reminding'
    BY <1>3, <1>6 DEF Remind!SetPreference
  <1>7. ASSUME NEW u \in Users, Remind!Cleanup(u) PROVE Reminding'
    <2>1. notes' = {IF Remind!Expired(n, u) THEN [n EXCEPT !.kept = FALSE] ELSE n : n \in notes}
      BY <1>7 DEF Remind!Cleanup
    <2>2. \A n \in notes : [n EXCEPT !.kept = FALSE].reminder = n.reminder
      BY <1>1 DEF Note
    <2>3. Stays
      BY <2>1, <2>2 DEF Stays
    <2>4. \A n \in notes' : Dated(n.reminder)
      BY <1>1, <2>1, <2>2
    <2>5. QED
      BY <1>2, <1>7, <2>3, <2>4, RemindingNotes DEF Remind!Cleanup
  <1>8. ASSUME NEW u \in Users, NEW d \in {"none", "works", "gone"}, Remind!SetDevice(u, d)
        PROVE Reminding'
    BY <1>1, <1>2, <1>8, RemindingNotes DEF Remind!SetDevice, Stays
  <1>9. ASSUME NEW n \in notes, Remind!MarkRead(n) PROVE Reminding'
    <2>1. notes' = (notes \ {n}) \cup {[n EXCEPT !.read = TRUE]}
      BY <1>9 DEF Remind!MarkRead
    <2>2. [n EXCEPT !.read = TRUE].reminder = n.reminder
      BY <1>1 DEF Note
    <2>3. Stays
      BY <2>1, <2>2 DEF Stays
    <2>4. \A m \in notes' : Dated(m.reminder)
      BY <1>1, <2>1, <2>2
    <2>5. QED
      BY <1>2, <1>9, <2>3, <2>4, RemindingNotes DEF Remind!MarkRead
  <1>10. QED
    BY <1>4, <1>5, <1>6, <1>7, <1>8, <1>9

LEMMA RemindingTick ==
  ASSUME Remind!ConstantsAssumption, Reminding, Remind!Tick
  PROVE  Reminding'
  <1>1. Typed' /\ \A w \in Workers : check[w] \in Remind!Check
    BY TypedTick, TypedParts DEF Reminding
  <1>2. ASSUME NEW w \in Workers
        PROVE  Interrupted(w)
    <2>1. check'[w] = IF check[w].phase = "idle" THEN Remind!NoCheck
                      ELSE [check[w] EXCEPT !.calm = FALSE, !.late = TRUE]
      BY DEF Remind!Tick
    <2>2. QED
      BY <1>1, <2>1 DEF Remind!Check, Interrupted
  <1>3. QED
    BY <1>1, <1>2, RemindingDisturbed DEF Remind!Tick

LEMMA RemindingStart ==
  ASSUME Remind!ConstantsAssumption, Reminding, NEW w \in Workers,
         Remind!Start(w) \/ Remind!Finish(w) \/ Remind!Crash(w)
  PROVE  Reminding'
  <1>1. Typed' /\ Calendar /\ \A n \in notes : Dated(n.reminder)
    BY TypedCheck, TypedParts DEF Reminding
  <1>2. /\ UNCHANGED <<now, deadline, open, wants, notes>> /\ Stays
        /\ \A n \in notes' : Dated(n.reminder)
    BY <1>1 DEF Remind!Start, Remind!Finish, Remind!Crash, Stays
  <1>3. CASE Remind!Start(w)
    <2> DEFINE c == [Remind!NoCheck EXCEPT !.phase = "check", !.events = Remind!Selected,
                       !.calm = TRUE,
                       !.users = IF Remind!Selected = {} THEN {} ELSE Users,
                       !.seen = Remind!Loaded(Remind!Selected)]
    <2>1. check' = [check EXCEPT ![w] = c]
      BY <1>3 DEF Remind!Start
    <2>2. /\ c.phase = "check" /\ c.events = Remind!Selected /\ c.left = {}
          /\ c.users = (IF Remind!Selected = {} THEN {} ELSE Users)
          /\ c.seen = Remind!Loaded(Remind!Selected)
      BY DEF Remind!NoCheck
    <2> HIDE DEF c
    <2>3. KnowsDates(c)
      BY <2>2 DEF KnowsDates, Remind!Loaded
    <2>4. CalmCovers(c, notes')
      BY <1>1, <2>2 DEF CalmCovers, Undisturbed, Covers, Calendar
    <2>5. QED
      BY <1>1, <1>2, <2>1, <2>3, <2>4, RemindingOwn
  <1>4. CASE Remind!Finish(w) \/ Remind!Crash(w)
    <2>1. check' = [check EXCEPT ![w] = Remind!NoCheck]
      BY <1>4 DEF Remind!Finish, Remind!Crash
    <2>2. KnowsDates(Remind!NoCheck) /\ CalmCovers(Remind!NoCheck, notes')
      BY DEF Remind!NoCheck, KnowsDates, CalmCovers
    <2>3. QED
      BY <1>1, <1>2, <2>1, <2>2, RemindingOwn
  <1>5. QED
    BY <1>3, <1>4

LEMMA RemindingNextUser ==
  ASSUME Remind!ConstantsAssumption, Reminding, NEW w \in Workers, Remind!NextUser(w)
  PROVE  Reminding'
  <1> DEFINE s == check[w]
  <1>1. /\ Typed' /\ Calendar /\ s \in Remind!Check /\ \A n \in notes : Dated(n.reminder)
        /\ KnowsDates(s) /\ CalmCovers(s, notes)
    BY TypedCheck, TypedParts DEF Reminding
  <1>2. PICK u \in s.users :
          LET c == [s EXCEPT !.users = @ \ {u}, !.user = u, !.today = Remind!UserDay(u),
                             !.left = s.events]
          IN check' = [check EXCEPT ![w] = c]
    BY DEF Remind!NextUser
  <1>3. /\ s.phase = "check" /\ s.left = {} /\ Stays
        /\ UNCHANGED <<now, deadline, open, wants, notes>>
    BY DEF Remind!NextUser, Stays
  <1> DEFINE c == [s EXCEPT !.users = @ \ {u}, !.user = u, !.today = Remind!UserDay(u),
                            !.left = s.events]
  <1>4. /\ c.users = s.users \ {u} /\ c.user = u /\ c.today = Remind!UserDay(u)
        /\ c.left = s.events /\ c.events = s.events /\ c.seen = s.seen /\ c.calm = s.calm
        /\ c.phase = "check"
    BY <1>1, <1>3 DEF Remind!Check
  <1>5. check' = [check EXCEPT ![w] = c]
    BY <1>2
  <1> HIDE DEF c, s
  <1>6. KnowsDates(c)
    BY <1>1, <1>4 DEF KnowsDates
  <1>7. c.calm => Undisturbed(c)
    BY <1>1, <1>4 DEF CalmCovers, Undisturbed
  <1>8. c.calm => Covers(c, notes)
    <2>1. ASSUME c.calm, NEW v \in wants \ c.users, NEW e \in c.events, Near(v, e)
          PROVE  Noted(v, e, notes) \/ (v = c.user /\ e \in c.left)
      <3>1. CASE v = u
        BY <1>4, <2>1, <3>1
      <3>2. CASE v # u
        <4>1. v \in wants \ s.users /\ e \in s.events /\ s.calm
          BY <1>4, <2>1, <3>2
        <4>2. QED
          BY <1>1, <1>3, <2>1, <4>1 DEF CalmCovers, Covers
      <3>3. QED
        BY <3>1, <3>2
    <2>2. QED
      BY <2>1 DEF Covers
  <1>9. CalmCovers(c, notes') /\ \A n \in notes' : Dated(n.reminder)
    BY <1>1, <1>3, <1>7, <1>8 DEF CalmCovers
  <1>10. QED
    BY <1>1, <1>3, <1>5, <1>6, <1>9, RemindingOwn

LEMMA RemindingLook ==
  ASSUME Remind!ConstantsAssumption, Reminding, NEW w \in Workers, NEW e \in Events,
         Remind!Look(w, e)
  PROVE  Reminding'
  <1> DEFINE s == check[w]
             rest == [s EXCEPT !.left = @ \ {e}]
             r == [user |-> s.user, event |-> e, days |-> s.seen[e] - s.today,
                   deadline |-> s.seen[e]]
             d == [rest EXCEPT !.phase = "store", !.reminder = r]
             Storing == /\ Remind!Due(s.user, s.seen[e], s.today)
                       /\ ~ Remind!Reminded(s.user, e, s.seen[e] - s.today) /\ s.user \in wants
  <1>1. /\ Typed' /\ Calendar /\ s \in Remind!Check
        /\ \A n \in notes : n \in Note /\ Dated(n.reminder)
        /\ KnowsDates(s) /\ CalmCovers(s, notes)
    BY TypedCheck, TypedParts DEF Reminding
  <1>2. /\ s.phase = "check" /\ e \in s.left /\ Stays
        /\ UNCHANGED <<now, deadline, open, wants, notes>>
        /\ check' = [check EXCEPT ![w] = IF Storing THEN d ELSE rest]
    BY DEF Remind!Look, Stays
  <1>3. /\ rest.left = s.left \ {e} /\ rest.phase = s.phase /\ rest.events = s.events
        /\ rest.users = s.users /\ rest.user = s.user /\ rest.today = s.today
        /\ rest.seen = s.seen /\ rest.calm = s.calm /\ rest.reminder = s.reminder
        /\ d.left = s.left \ {e} /\ d.phase = "store" /\ d.events = s.events
        /\ d.users = s.users /\ d.user = s.user /\ d.today = s.today
        /\ d.seen = s.seen /\ d.calm = s.calm /\ d.reminder = r
    BY <1>1 DEF Remind!Check
  <1> HIDE DEF rest, d
  <1>4. s.calm => s.seen[e] = deadline[e] /\ s.today = Remind!UserDay(s.user)
    BY <1>1, <1>2 DEF CalmCovers, Undisturbed, Remind!Loaded
  <1>5. s.calm => r = Of(s.user, e)
    BY <1>4 DEF Of
  <1>6. Remind!Due(s.user, s.seen[e], s.today) => Dated(r)
    BY <1>1 DEF Remind!Due, Dated, KnowsDates
  <1>7. s.calm /\ Near(s.user, e) /\ s.user \in wants /\ ~ Storing => Noted(s.user, e, notes)
    <2>1. SUFFICES ASSUME s.calm, Near(s.user, e), s.user \in wants, ~ Storing
                   PROVE  Noted(s.user, e, notes)
      OBVIOUS
    <2>2. Remind!Due(s.user, s.seen[e], s.today)
      BY <1>4, <2>1 DEF Near, Remind!Due
    <2>3. PICK n \in notes : /\ n.reminder.days = s.seen[e] - s.today
                             /\ n.reminder.user = s.user /\ n.reminder.event = e
      BY <2>1, <2>2 DEF Remind!Reminded
    <2>4. n.reminder.deadline = deadline[e] /\ n.reminder \in Remind!Reminder
      BY <1>1, <2>3 DEF Dated, Note
    <2>5. n.reminder = Of(s.user, e)
      BY <1>4, <2>1, <2>3, <2>4 DEF Of, Remind!Reminder
    <2>6. QED
      BY <2>5 DEF Noted
  <1> DEFINE c == IF Storing THEN d ELSE rest
  <1>8. /\ c.left = s.left \ {e} /\ c.events = s.events /\ c.users = s.users /\ c.user = s.user
        /\ c.today = s.today /\ c.seen = s.seen /\ c.calm = s.calm
        /\ Storing => c.phase = "store" /\ c.reminder = r
        /\ ~ Storing => c.phase = "check"
    BY <1>2, <1>3
  <1>9. check' = [check EXCEPT ![w] = c]
    BY <1>2
  <1>10. Storing => Dated(r)
    BY <1>6
  <1> HIDE DEF c, s, r, Storing
  <1>11. KnowsDates(c)
    BY <1>1, <1>8, <1>10 DEF KnowsDates
  <1>12. c.calm => Undisturbed(c)
    BY <1>1, <1>8 DEF CalmCovers, Undisturbed
  <1>13. c.calm => Covers(c, notes)
    <2>1. ASSUME c.calm, NEW v \in wants \ c.users, NEW f \in c.events, Near(v, f)
          PROVE  \/ Noted(v, f, notes) \/ (v = c.user /\ f \in c.left)
                 \/ c.phase = "store" /\ c.reminder = Of(v, f)
      <3>1. CASE v = s.user /\ f = e
        BY <1>5, <1>7, <1>8, <2>1, <3>1
      <3>2. CASE ~ (v = s.user /\ f = e)
        <4>1. v \in wants \ s.users /\ f \in s.events /\ s.calm
          BY <1>8, <2>1
        <4>2. Noted(v, f, notes) \/ (v = s.user /\ f \in s.left)
          BY <1>1, <1>2, <2>1, <4>1 DEF CalmCovers, Covers
        <4>3. QED
          BY <1>8, <3>2, <4>2
      <3>3. QED
        BY <3>1, <3>2
    <2>2. QED
      BY <2>1 DEF Covers
  <1>14. CalmCovers(c, notes') /\ \A n \in notes' : Dated(n.reminder)
    BY <1>1, <1>2, <1>12, <1>13 DEF CalmCovers
  <1>15. QED
    BY <1>1, <1>2, <1>9, <1>11, <1>14, RemindingOwn

(* A commit: what has been loaded is loaded again, the reminder at hand is *)
(* stored.                                                                 *)
LEMMA RemindingCommit ==
  ASSUME Reminding, NEW w \in Workers, NEW c, NEW N,
         c.phase \in {"check", "push"}, check[w].phase \in {"store", "push"},
         c.events = check[w].events, c.users = check[w].users, c.user = check[w].user,
         c.left = check[w].left, c.today = check[w].today, c.calm = check[w].calm,
         c.seen = Remind!Loaded(c.events),
         \A n \in notes : \E m \in N : m.reminder = n.reminder,
         check[w].phase = "store" => \E m \in N : m.reminder = check[w].reminder
  PROVE  KnowsDates(c) /\ CalmCovers(c, N)
  <1> DEFINE s == check[w]
  <1>1. CalmCovers(s, notes)
    BY DEF Reminding
  <1>2. KnowsDates(c)
    BY DEF KnowsDates, Remind!Loaded
  <1>3. c.calm => Undisturbed(c)
    BY <1>1 DEF CalmCovers, Undisturbed
  <1>4. c.calm => Covers(c, N)
    BY <1>1 DEF CalmCovers, Covers, Noted
  <1>5. QED
    BY <1>2, <1>3, <1>4 DEF CalmCovers

LEMMA RemindingStore ==
  ASSUME Remind!ConstantsAssumption, Reminding, NEW w \in Workers, Remind!Store(w)
  PROVE  Reminding'
  <1> DEFINE s == check[w]
             c == [s EXCEPT !.phase = "push", !.seen = Remind!Loaded(s.events)]
             m == [reminder |-> s.reminder, read |-> FALSE, kept |-> TRUE, push |-> "pending"]
  <1>1. /\ Typed' /\ s \in Remind!Check /\ \A n \in notes : Dated(n.reminder)
        /\ KnowsDates(s)
    BY TypedCheck, TypedParts DEF Reminding
  <1>2. /\ s.phase = "store" /\ UNCHANGED <<now, deadline, open, wants>>
        /\ check' = [check EXCEPT ![w] = c]
        /\ \/ notes' = notes /\ \E n \in notes : n.reminder = s.reminder
           \/ notes' = notes \cup {m}
    BY DEF Remind!Store
  <1>3. m.reminder = s.reminder
    OBVIOUS
  <1>4. /\ c.phase = "push" /\ c.events = s.events /\ c.users = s.users /\ c.user = s.user
        /\ c.left = s.left /\ c.today = s.today /\ c.calm = s.calm
        /\ c.seen = Remind!Loaded(c.events)
    BY <1>1 DEF Remind!Check
  <1> HIDE DEF m, c
  <1>5. Dated(s.reminder)
    BY <1>1, <1>2 DEF KnowsDates
  <1>6. /\ \A n \in notes : \E k \in notes' : k.reminder = n.reminder
        /\ \E k \in notes' : k.reminder = s.reminder
        /\ \A n \in notes' : Dated(n.reminder)
    BY <1>1, <1>2, <1>3, <1>5
  <1>7. KnowsDates(c) /\ CalmCovers(c, notes')
    BY <1>2, <1>4, <1>6, RemindingCommit
  <1>8. QED
    BY <1>1, <1>2, <1>6, <1>7, RemindingOwn DEF Stays

LEMMA RemindingDeliver ==
  ASSUME Remind!ConstantsAssumption, Reminding, NEW w \in Workers, Remind!Deliver(w)
  PROVE  Reminding'
  <1> DEFINE s == check[w]
             c == [s EXCEPT !.phase = "check", !.reminder = None,
                            !.seen = Remind!Loaded(s.events)]
  <1>1. /\ Typed' /\ s \in Remind!Check /\ \A n \in notes : n \in Note /\ Dated(n.reminder)
    BY TypedCheck, TypedParts DEF Reminding
  <1>2. /\ s.phase = "push" /\ UNCHANGED <<now, deadline, open, wants>>
        /\ check' = [check EXCEPT ![w] = c]
    BY DEF Remind!Deliver
  <1>3. PICK p \in {"no_device", "pushed", "failed"} :
          notes' = {IF n.reminder = s.reminder THEN [n EXCEPT !.push = p] ELSE n : n \in notes}
    BY DEF Remind!Deliver
  <1>4. \A n \in notes : [n EXCEPT !.push = p].reminder = n.reminder
    BY <1>1 DEF Note
  <1>5. /\ c.phase = "check" /\ c.events = s.events /\ c.users = s.users /\ c.user = s.user
        /\ c.left = s.left /\ c.today = s.today /\ c.calm = s.calm
        /\ c.seen = Remind!Loaded(c.events)
    BY <1>1 DEF Remind!Check
  <1> HIDE DEF c
  <1>6. \A n \in notes : \E k \in notes' : k.reminder = n.reminder
    BY <1>3, <1>4
  <1>7. \A n \in notes' : Dated(n.reminder)
    BY <1>1, <1>3, <1>4
  <1>8. KnowsDates(c) /\ CalmCovers(c, notes')
    <2>1. c.phase \in {"check", "push"} /\ s.phase \in {"store", "push"} /\ s.phase # "store"
      BY <1>2, <1>5
    <2>2. QED
      BY <1>5, <1>6, <2>1, RemindingCommit
  <1>9. QED
    BY <1>1, <1>2, <1>6, <1>7, <1>8, RemindingOwn DEF Stays

LEMMA NextReminding ==
  ASSUME Remind!ConstantsAssumption, Unmoved, Reminding, [Remind!Next]_(Remind!vars)
  PROVE  Reminding'
  <1>1. CASE UNCHANGED Remind!vars
    <2>1. Typed' /\ UNCHANGED <<now, deadline, open, wants, check, notes>>
      BY <1>1 DEF Remind!vars, Reminding, Typed, Remind!TypeOK
    <2>2. QED
      BY <2>1, RemindingNotes DEF Reminding, Stays
  <1>2. CASE Remind!Next
    BY <1>2, RemindingTick, RemindingUsers, RemindingStart, RemindingNextUser, RemindingLook,
       RemindingStore, RemindingDeliver DEF Remind!Next
  <1>3. QED
    BY <1>1, <1>2

LEMMA SameCardinality == \A S : Remind!Cardinality(S) = Cardinality(S)
  BY DEF Remind!Cardinality, Cardinality

(* The day of a member who is not behind the server's day.                 *)
LEMMA LocalDays ==
  ASSUME Remind!ConstantsAssumption, Unmoved, Calendar, NEW u
  PROVE  Remind!LocalDay(u) = Remind!UserDay(u)
  <1>1. Cardinality(Behind \cap {u}) = 0
    BY FS_EmptySet DEF Unmoved
  <1>2. CASE u \in Ahead
    <2>1. Ahead \cap {u} = {u}
      BY <1>2
    <2>2. Cardinality(Ahead \cap {u}) = 1
      BY <2>1, FS_Singleton
    <2>3. Remind!LocalDay(u) = (now + 1 - 0) \div 2
      BY <1>1, <2>2, SameCardinality DEF Remind!LocalDay
    <2>4. Remind!UserDay(u) = (now + 1) \div 2
      BY <1>2 DEF Remind!UserDay
    <2>5. now + 1 - 0 = now + 1
      BY DEF Calendar
    <2>6. QED
      BY <2>3, <2>4, <2>5
  <1>3. CASE u \notin Ahead
    <2>1. Ahead \cap {u} = {}
      BY <1>3
    <2>2. Cardinality(Ahead \cap {u}) = 0
      BY <2>1, FS_EmptySet
    <2>3. Remind!LocalDay(u) = (now + 0 - 0) \div 2
      BY <1>1, <2>2, SameCardinality DEF Remind!LocalDay
    <2>4. Remind!UserDay(u) = (now + 0) \div 2
      BY <1>3 DEF Remind!UserDay, Unmoved
    <2>5. now + 0 - 0 = now + 0
      BY DEF Calendar
    <2>6. QED
      BY <2>3, <2>4, <2>5
  <1>4. QED
    BY <1>2, <1>3

(* A deadline that is near by a member's own day is selected: that day is  *)
(* the server's or the one after it.                                       *)
LEMMA FinishReminds ==
  ASSUME Remind!ConstantsAssumption, Unmoved, Reminding
  PROVE  Remind!CheckedReminds
  <1>1. Calendar /\ \A w \in Workers : CalmCovers(check[w], notes)
    BY TypedParts DEF Reminding
  <1>2. SUFFICES ASSUME NEW w \in Workers, Remind!Finish(w), check[w].calm,
                        NEW u \in wants, NEW e \in open, deadline[e] # None,
                        deadline[e] - Remind!LocalDay(u) \in 0 .. Before
                 PROVE  \E n \in notes : n.reminder =
                          [user |-> u, event |-> e, deadline |-> deadline[e],
                           days |-> deadline[e] - Remind!LocalDay(u)]
    BY DEF Remind!CheckedReminds
  <1>3. Remind!LocalDay(u) = Remind!UserDay(u)
    BY <1>1, LocalDays
  <1>4. Near(u, e)
    BY <1>2, <1>3 DEF Near
  <1>5. deadline[e] \in Int /\ e \in Events
    BY <1>1, <1>2 DEF Calendar, Remind!Days
  <1>6. Remind!Today <= Remind!UserDay(u) /\ Remind!Today \in Int /\ Remind!UserDay(u) \in Int
    BY <1>1 DEF Remind!Today, Remind!UserDay, Calendar, Unmoved, Remind!ConstantsAssumption
  <1>7. e \in Remind!Selected
    <2>1. deadline[e] >= Remind!Today
      BY <1>4, <1>5, <1>6 DEF Near, Remind!ConstantsAssumption
    <2>2. QED
      BY <1>2, <2>1 DEF Remind!Selected
  <1>8. check[w].phase = "check" /\ check[w].users = {} /\ check[w].left = {}
    BY <1>2 DEF Remind!Finish
  <1>9. Noted(u, e, notes)
    BY <1>1, <1>2, <1>4, <1>7, <1>8 DEF CalmCovers, Undisturbed, Covers
  <1>10. QED
    BY <1>3, <1>9 DEF Noted, Of

(* FR-038 and FR-040, for any number of processes, members and events:     *)
(* where deadlines are set once and no member is behind the server's day,  *)
(* a check that nothing has disturbed has reminded every member who wants  *)
(* it of each deadline that is near by the member's own day.               *)
THEOREM CheckAlwaysReminds ==
  Remind!ConstantsAssumption /\ Unmoved /\ Remind!Spec => Remind!CheckedMeansReminded
  <1> SUFFICES ASSUME Remind!ConstantsAssumption, Unmoved
               PROVE  Remind!Spec => [][Remind!CheckedReminds]_(Remind!vars)
    BY DEF Remind!CheckedMeansReminded
  <1>1. Remind!Init => Reminding
    <2>1. SUFFICES ASSUME Remind!Init PROVE Reminding
      OBVIOUS
    <2>2. notes = {} /\ check = [w \in Workers |-> Remind!NoCheck]
      BY <2>1 DEF Remind!Init
    <2>3. KnowsDates(Remind!NoCheck) /\ CalmCovers(Remind!NoCheck, notes)
      BY DEF Remind!NoCheck, KnowsDates, CalmCovers
    <2>4. Typed
      BY <2>1, InitReminders DEF RemindersInv
    <2>5. QED
      BY <2>2, <2>3, <2>4 DEF Reminding
  <1>2. Reminding /\ [Remind!Next]_(Remind!vars) => Reminding' /\ Remind!CheckedReminds
    BY NextReminding, FinishReminds
  <1>3. QED
    BY <1>1, <1>2, PTL DEF Remind!Spec

-----------------------------------------------------------------------------
(* EventSeries: the rows of the events of a team, and those of their        *)
(* deadlines.                                                              *)
CONSTANTS MaxRows, MaxDate, SeriesSizes, Updates, Scopes, Operations, Serial
VARIABLES rows, series, deletion

Schedule == INSTANCE EventSeries

(* A set of naturals up to n has a least element: the one with the fewest  *)
(* elements up to it.                                                      *)
LEMMA Least ==
  ASSUME NEW n \in Nat, NEW S \in SUBSET (1 .. n), S # {}
  PROVE  \E x \in S : \A y \in S : x <= y
  <1> DEFINE Upto(x) == {y \in S : y <= x}
             T == {Upto(x) : x \in S}
  <1>1. IsFiniteSet(1 .. n)
    BY FS_Interval
  <1>2. /\ IsWellFoundedOn(StrictSubsetOrdering(1 .. n), FiniteSubsetsOf(1 .. n))
        /\ FiniteSubsetsOf(1 .. n) = SUBSET (1 .. n)
    BY <1>1, FS_StrictSubsetOrderingWellFounded, FS_FiniteSubsetsOfFinite
  <1>3. T \subseteq SUBSET (1 .. n) /\ T # {}
    OBVIOUS
  <1>4. PICK A \in T : \A B \in T : ~ (<<B, A>> \in StrictSubsetOrdering(1 .. n))
    <2> HIDE DEF T
    <2>1. /\ IsWellFoundedOn(StrictSubsetOrdering(1 .. n), SUBSET (1 .. n))
          /\ T \subseteq SUBSET (1 .. n) /\ T # {}
      BY <1>2, <1>3, Zenon
    <2> QED BY <2>1, WFMin, Zenon
  <1>5. PICK x \in S : A = Upto(x)
    BY <1>4
  <1>6. ASSUME NEW y \in S, ~ (x <= y) PROVE FALSE
    <2>1. Upto(y) \in T
      OBVIOUS
    <2>2. Upto(y) \subseteq A
      <3>1. x \in 1 .. n /\ y \in 1 .. n /\ A = {z \in S : z <= x}
        BY <1>5, <1>6
      <3>2. ASSUME NEW z \in S, z <= y PROVE z \in A
        <4>1. z \in 1 .. n
          BY <3>2
        <4>2. z <= x
          BY <4>1, <3>1, <3>2, <1>6
        <4> QED BY <4>2, <3>1
      <3> QED BY <3>2
    <2>3. x \in A /\ x \notin Upto(y)
      BY <1>5, <1>6
    <2>4. A \subseteq 1 .. n
      BY <1>5
    <2> QED BY <2>1, <2>2, <2>3, <2>4, <1>4 DEF StrictSubsetOrdering
  <1> QED BY <1>6

LEMMA ScheduleCardinality == \A S : Schedule!Cardinality(S) = Cardinality(S)
  BY DEF Schedule!Cardinality, Cardinality

LEMMA RowsFinite ==
  ASSUME Schedule!ConstantsAssumption
  PROVE  /\ IsFiniteSet(Schedule!Rows) /\ Cardinality(Schedule!Rows) = MaxRows
         /\ Schedule!Rows \subseteq Nat /\ 0 \notin Schedule!Rows
         /\ \A S \in SUBSET Schedule!Rows :
              IsFiniteSet(S) /\ Cardinality(S) \in 0 .. MaxRows
  <1>1. MaxRows \in Nat
    BY DEF Schedule!ConstantsAssumption
  <1>2. IsFiniteSet(1 .. MaxRows) /\ Cardinality(1 .. MaxRows) = MaxRows
    BY <1>1, FS_Interval
  <1>3. ASSUME NEW S \in SUBSET (1 .. MaxRows)
        PROVE  IsFiniteSet(S) /\ Cardinality(S) \in 0 .. MaxRows
    <2>1. IsFiniteSet(S) /\ Cardinality(S) <= MaxRows
      BY <1>2, FS_Subset
    <2>2. Cardinality(S) \in Nat
      BY <2>1, FS_CardinalityType
    <2> QED BY <1>1, <2>1, <2>2
  <1> QED BY <1>1, <1>2, <1>3 DEF Schedule!Rows

(* While there is room, the next row of the table is a free one.           *)
LEMMA FreshIsFree ==
  ASSUME Schedule!ConstantsAssumption, NEW rs,
         NEW k \in Schedule!Rows, rs[k].kind = "free"
  PROVE  Schedule!Fresh(rs) \in Schedule!Rows /\ rs[Schedule!Fresh(rs)].kind = "free"
  <1> DEFINE S == {i \in Schedule!Rows : rs[i].kind = "free"}
  <1>1. MaxRows \in Nat /\ S \in SUBSET (1 .. MaxRows) /\ S # {}
    BY DEF Schedule!ConstantsAssumption, Schedule!Rows
  <1>2. \E x \in S : \A y \in S : x <= y
    <2> HIDE DEF S
    <2> QED BY <1>1, Least
  <1>3. Schedule!Min(S) \in S
    BY <1>2 DEF Schedule!Min
  <1> QED BY <1>3 DEF Schedule!Fresh

LEMMA RoomIsFree ==
  ASSUME Schedule!ConstantsAssumption, NEW n \in Nat, Schedule!HasRoom(n)
  PROVE  /\ n >= 1 => \E k \in Schedule!Rows : rows[k].kind = "free"
         /\ n >= 2 => \A i \in Schedule!Rows :
                        \E k \in Schedule!Rows \ {i} : rows[k].kind = "free"
  <1>1. Schedule!Free \in SUBSET Schedule!Rows /\ Cardinality(Schedule!Free) >= n
    BY ScheduleCardinality DEF Schedule!HasRoom, Schedule!Free
  <1>2. IsFiniteSet(Schedule!Free) /\ Cardinality(Schedule!Free) \in Nat
    BY <1>1, RowsFinite, FS_CardinalityType
  <1>3. n >= 1 => Schedule!Free # {}
    BY <1>1, <1>2, FS_EmptySet
  <1>4. ASSUME n >= 2, NEW i \in Schedule!Rows PROVE Schedule!Free \ {i} # {}
    <2>1. Cardinality({i}) = 1 /\ Cardinality({}) = 0
      BY FS_Singleton, FS_EmptySet
    <2>2. Schedule!Free # {i} /\ Schedule!Free # {}
      BY <2>1, <1>1, <1>4
    <2> QED BY <2>2
  <1> QED BY <1>3, <1>4 DEF Schedule!Free

Table == [Schedule!Rows -> Schedule!Row]
OptionalDate == Schedule!Dates \cup {Schedule!None}
Owners == Schedule!Rows \cup {Schedule!None}

LEMMA EntryFits ==
  ASSUME Schedule!ConstantsAssumption, NEW owner \in Owners, NEW d \in OptionalDate
  PROVE  /\ Schedule!NewEntry(owner, d) \in Schedule!Row
         /\ Schedule!NewEntry(owner, d).kind = "entry"
         /\ Schedule!NewEntry(owner, d).live
         /\ Schedule!NewEntry(owner, d).parent = owner
         /\ Schedule!NewEntry(owner, d).inSeries = (owner = Schedule!None)
         /\ Schedule!NewEntry(owner, d).date = d
  <1>1. 0 \in 0 .. MaxRows
    BY DEF Schedule!ConstantsAssumption
  <1>2. ASSUME NEW b \in BOOLEAN
        PROVE  LET e == [Schedule!NoRow EXCEPT !.kind = "entry", !.parent = owner, !.date = d,
                                               !.inSeries = b, !.live = TRUE]
               IN  e \in Schedule!Row /\ e.kind = "entry" /\ e.live /\ e.parent = owner
                   /\ e.inSeries = b /\ e.date = d
    BY <1>1 DEF Schedule!NoRow, Schedule!Row, OptionalDate, Owners, Schedule!None
  <1>3. (owner = Schedule!None) \in BOOLEAN
    OBVIOUS
  <1> QED BY <1>2, <1>3, Zenon DEF Schedule!NewEntry

LEMMA NoRowFits ==
  ASSUME Schedule!ConstantsAssumption
  PROVE  Schedule!NoRow \in Schedule!Row /\ Schedule!NoRow.kind = "free" /\ ~ Schedule!NoRow.live
  BY DEF Schedule!ConstantsAssumption, Schedule!NoRow, Schedule!Row, Schedule!None

(* Synchronising writes one row: a free one becomes the entry of the       *)
(* owner, or an entry that the owner has is deleted, or moved.             *)
SyncedRow(rs, owner, d, new, k) ==
  /\ new = [rs EXCEPT ![k] = new[k]]
  /\ \/ /\ Schedule!Entries(rs, owner) = {} /\ d # Schedule!None
        /\ rs[k].kind = "free" /\ new[k] = Schedule!NewEntry(owner, d)
     \/ /\ k \in Schedule!Entries(rs, owner) /\ d = Schedule!None /\ new[k] = Schedule!NoRow
     \/ /\ k \in Schedule!Entries(rs, owner) /\ d # Schedule!None
        /\ new[k] = [rs[k] EXCEPT !.date = d, !.location = FALSE]

LEMMA CreatedShape ==
  ASSUME Schedule!ConstantsAssumption, NEW rs \in Table, NEW owner \in Owners,
         NEW d \in OptionalDate, NEW new \in Schedule!CreatedEntry(rs, owner, d),
         \E k \in Schedule!Rows : rs[k].kind = "free"
  PROVE  /\ new \in Table
         /\ \E k \in Schedule!Rows : /\ new = [rs EXCEPT ![k] = new[k]]
                                     /\ rs[k].kind = "free"
                                     /\ new[k] = Schedule!NewEntry(owner, d)
  <1> DEFINE k == Schedule!Fresh(rs)
  <1>1. k \in Schedule!Rows /\ rs[k].kind = "free"
    BY FreshIsFree
  <1>2. new = [rs EXCEPT ![k] = Schedule!NewEntry(owner, d)]
    BY DEF Schedule!CreatedEntry
  <1> HIDE DEF k
  <1>3. new[k] = Schedule!NewEntry(owner, d)
    BY <1>1, <1>2 DEF Table
  <1> QED BY <1>1, <1>2, <1>3, EntryFits DEF Table

LEMMA SyncedShape ==
  ASSUME Schedule!ConstantsAssumption, NEW rs \in Table, NEW owner \in Owners,
         NEW d \in OptionalDate, NEW new \in Schedule!Synced(rs, owner, d),
         \E k \in Schedule!Rows : rs[k].kind = "free"
  PROVE  /\ new \in Table
         /\ \/ Schedule!Entries(rs, owner) = {} /\ d = Schedule!None /\ new = rs
            \/ \E k \in Schedule!Rows : SyncedRow(rs, owner, d, new, k)
  <1>1. CASE Schedule!Entries(rs, owner) = {} /\ d = Schedule!None
    BY <1>1 DEF Schedule!Synced
  <1>2. CASE Schedule!Entries(rs, owner) = {} /\ d # Schedule!None
    <2>1. new \in Schedule!CreatedEntry(rs, owner, d)
      BY <1>2 DEF Schedule!Synced
    <2> QED BY <2>1, <1>2, CreatedShape DEF SyncedRow
  <1>3. CASE Schedule!Entries(rs, owner) # {}
    <2>1. PICK i \in Schedule!Entries(rs, owner) :
            new = [rs EXCEPT ![i] = IF d = Schedule!None THEN Schedule!NoRow
                                    ELSE [rs[i] EXCEPT !.date = d, !.location = FALSE]]
      BY <1>3 DEF Schedule!Synced
    <2>2. i \in Schedule!Rows /\ rs[i] \in Schedule!Row
      BY DEF Schedule!Entries, Table
    <2>3. [rs[i] EXCEPT !.date = d, !.location = FALSE] \in Schedule!Row
      BY <2>2 DEF Schedule!Row, OptionalDate
    <2>4. new \in Table /\ new = [rs EXCEPT ![i] = new[i]]
      BY <2>1, <2>2, <2>3, NoRowFits DEF Table
    <2>5. d = Schedule!None => new[i] = Schedule!NoRow
      BY <2>1, <2>2 DEF Table
    <2>6. d # Schedule!None => new[i] = [rs[i] EXCEPT !.date = d, !.location = FALSE]
      BY <2>1, <2>2 DEF Table
    <2> QED BY <2>2, <2>4, <2>5, <2>6 DEF SyncedRow
  <1> QED BY <1>1, <1>2, <1>3

(* It leaves the events as they are.                                       *)
LEMMA SyncedEvents ==
  ASSUME Schedule!ConstantsAssumption, NEW rs \in Table, NEW owner \in Owners,
         NEW d \in OptionalDate, NEW new \in Schedule!Synced(rs, owner, d),
         \E k \in Schedule!Rows : rs[k].kind = "free"
  PROVE  /\ new \in Table
         /\ \A i \in Schedule!Rows :
              rs[i].kind = "event" \/ new[i].kind = "event" => new[i] = rs[i]
  <1>1. new \in Table
    BY SyncedShape
  <1>2. ASSUME NEW k \in Schedule!Rows, SyncedRow(rs, owner, d, new, k), NEW i \in Schedule!Rows,
               rs[i].kind = "event" \/ new[i].kind = "event"
        PROVE  new[i] = rs[i]
    <2>1. i # k => new[i] = rs[i]
      BY <1>2 DEF SyncedRow, Table
    <2>2. i = k => rs[k].kind # "event"
      BY <1>2 DEF SyncedRow, Schedule!Entries
    <2>3. i = k => new[k].kind # "event"
      <3>1. rs[k] \in Schedule!Row
        BY DEF Table
      <3>2. [rs[k] EXCEPT !.date = d, !.location = FALSE].kind = rs[k].kind
        BY <3>1 DEF Schedule!Row
      <3>3. Schedule!NewEntry(owner, d).kind = "entry" /\ Schedule!NoRow.kind = "free"
        BY EntryFits, NoRowFits
      <3>4. new[k] \in {Schedule!NewEntry(owner, d), Schedule!NoRow,
                        [rs[k] EXCEPT !.date = d, !.location = FALSE]}
        BY <1>2 DEF SyncedRow
      <3> QED BY <2>2, <3>2, <3>3, <3>4
    <2> QED BY <2>1, <2>2, <2>3, <1>2
  <1> QED BY <1>1, <1>2, SyncedShape

LEMMA SameSeriesEvents ==
  ASSUME NEW rs, NEW new,
         \A i \in Schedule!Rows : (rs[i].kind = "event" \/ new[i].kind = "event")
           => /\ new[i].kind = rs[i].kind /\ new[i].inSeries = rs[i].inSeries
              /\ new[i].live = rs[i].live
  PROVE  Schedule!SeriesEvents(new) = Schedule!SeriesEvents(rs)
  BY DEF Schedule!SeriesEvents, Schedule!SeriesRows

LEMMA NewEventFits ==
  ASSUME Schedule!ConstantsAssumption, NEW d \in OptionalDate, NEW deadlineOf \in OptionalDate
  PROVE  LET r == Schedule!NewEvent(d, deadlineOf)
         IN  r \in Schedule!Row /\ r.kind = "event" /\ ~ r.inSeries /\ r.live
             /\ r.deadline = deadlineOf
  <1>1. 0 \in 0 .. MaxRows
    BY DEF Schedule!ConstantsAssumption
  <1> QED BY <1>1 DEF Schedule!NewEvent, Schedule!NoRow, Schedule!Row, OptionalDate, Schedule!None

(* What an update writes to row i.                                         *)
AttendanceUpdated(e, u, i) ==
  IF i \in Schedule!InScope(e, u.scope)
  THEN Schedule!AttendanceAfter(i, Schedule!InScope(e, u.scope), u) ELSE rows[i].attendance
DateUpdated(e, u, i) ==
  IF i \in Schedule!InScope(e, u.scope) /\ u.date # Schedule!None THEN u.date ELSE rows[i].date
StatusUpdated(e, u, i) ==
  IF i \in Schedule!InScope(e, u.scope) /\ u.status # Schedule!Unset THEN u.status ELSE rows[i].status
Owned(e) == IF rows[e].inSeries THEN Schedule!SeriesRows(rows) ELSE {e}
DeadlineUpdated(e, u, i) ==
  IF i \in Owned(e) /\ rows[i].kind = "event" /\ u.deadline # Schedule!Kept
  THEN u.deadline ELSE rows[i].deadline

LEMMA UpdateTyped ==
  ASSUME Schedule!ConstantsAssumption, Schedule!TypeOK, NEW e, NEW u \in Updates,
         NEW i \in Schedule!Rows
  PROVE  /\ AttendanceUpdated(e, u, i) \in {"planned", "attended", "skipped"}
         /\ DateUpdated(e, u, i) \in OptionalDate
         /\ StatusUpdated(e, u, i) \in {"future", "cancelled"}
         /\ DeadlineUpdated(e, u, i) \in OptionalDate
  <1>1. u \in Schedule!Update /\ rows[i] \in Schedule!Row
    BY DEF Schedule!ConstantsAssumption, Schedule!TypeOK
  <1>2. AttendanceUpdated(e, u, i) \in {"planned", "attended", "skipped"}
    BY <1>1 DEF AttendanceUpdated, Schedule!AttendanceAfter, Schedule!Update, Schedule!Row,
                Schedule!Unset
  <1>3. DateUpdated(e, u, i) \in OptionalDate /\ StatusUpdated(e, u, i) \in {"future", "cancelled"}
    BY <1>1 DEF DateUpdated, StatusUpdated, OptionalDate, Schedule!Update, Schedule!Row,
                Schedule!Unset
  <1>4. DeadlineUpdated(e, u, i) \in OptionalDate
    BY <1>1 DEF DeadlineUpdated, OptionalDate, Schedule!Update, Schedule!Row
  <1> QED BY <1>2, <1>3, <1>4

(* It writes neither the kind of a row, nor where the row belongs.         *)
LEMMA UpdatedEffect ==
  ASSUME Schedule!ConstantsAssumption, Schedule!TypeOK, NEW e, NEW u \in Updates
  PROVE  /\ Schedule!Updated(e, u) \in Table
         /\ \A i \in Schedule!Rows :
              LET new == Schedule!Updated(e, u)[i]
              IN  /\ new.kind = rows[i].kind /\ new.inSeries = rows[i].inSeries
                  /\ new.parent = rows[i].parent /\ new.live = rows[i].live
                  /\ new.date = DateUpdated(e, u, i)
                  /\ new.deadline = DeadlineUpdated(e, u, i)
                  /\ new.attendance = AttendanceUpdated(e, u, i)
                  /\ new.status = StatusUpdated(e, u, i)
  <1> DEFINE L(i) == (i \in Owned(e) /\ u.location) \/ rows[i].location
             N(i) == [rows[i] EXCEPT !.status = StatusUpdated(e, u, i),
                                     !.attendance = AttendanceUpdated(e, u, i),
                                     !.date = DateUpdated(e, u, i), !.location = L(i),
                                     !.deadline = DeadlineUpdated(e, u, i)]
  <1>1. Schedule!Updated(e, u) = [i \in Schedule!Rows |-> N(i)]
    BY Zenon DEF Schedule!Updated, StatusUpdated, AttendanceUpdated, DateUpdated, DeadlineUpdated,
                 Owned
  <1>2. ASSUME NEW i \in Schedule!Rows PROVE rows[i] \in Schedule!Row /\ L(i) \in BOOLEAN
    BY DEF Schedule!TypeOK, Schedule!Row
  <1> HIDE DEF L
  <1>3. ASSUME NEW i \in Schedule!Rows
        PROVE  /\ N(i) \in Schedule!Row /\ N(i).kind = rows[i].kind
               /\ N(i).inSeries = rows[i].inSeries /\ N(i).parent = rows[i].parent
               /\ N(i).live = rows[i].live /\ N(i).date = DateUpdated(e, u, i)
               /\ N(i).deadline = DeadlineUpdated(e, u, i)
               /\ N(i).attendance = AttendanceUpdated(e, u, i)
               /\ N(i).status = StatusUpdated(e, u, i)
    <2>1. /\ AttendanceUpdated(e, u, i) \in {"planned", "attended", "skipped"}
          /\ DateUpdated(e, u, i) \in OptionalDate
          /\ StatusUpdated(e, u, i) \in {"future", "cancelled"}
          /\ DeadlineUpdated(e, u, i) \in OptionalDate
      BY UpdateTyped
    <2>2. rows[i] \in Schedule!Row /\ L(i) \in BOOLEAN
      BY <1>2
    <2>3. N(i) \in Schedule!Row
      BY <2>1, <2>2 DEF Schedule!Row, OptionalDate
    <2> QED BY <2>2, <2>3 DEF Schedule!Row
  <1> HIDE DEF N
  <1> QED BY <1>1, <1>3 DEF Table

LEMMA CreateEffect ==
  ASSUME Schedule!ConstantsAssumption, Schedule!TypeOK, NEW d \in Schedule!Dates,
         NEW deadlineOf \in OptionalDate, Schedule!CreateEvent(d, deadlineOf)
  PROVE  /\ Schedule!TypeOK'
         /\ Schedule!SeriesEvents(rows)' = Schedule!SeriesEvents(rows)
  <1> DEFINE i == Schedule!Fresh(rows)
             rs == [rows EXCEPT ![i] = Schedule!NewEvent(d, deadlineOf)]
  <1>1. Schedule!HasRoom(2)
    BY DEF Schedule!CreateEvent
  <1>2. i \in Schedule!Rows /\ rows[i].kind = "free"
    <2>1. \E k \in Schedule!Rows : rows[k].kind = "free"
      BY <1>1, RoomIsFree
    <2> QED BY <2>1, FreshIsFree
  <1>3. rs \in Table /\ \A k \in Schedule!Rows :
          rs[k] = IF k = i THEN Schedule!NewEvent(d, deadlineOf) ELSE rows[k]
    BY <1>2, NewEventFits DEF Schedule!TypeOK, Table, OptionalDate
  <1>4. \E k \in Schedule!Rows : rs[k].kind = "free"
    BY <1>1, <1>2, <1>3, RoomIsFree
  <1>5. rows' \in Schedule!Synced(rs, i, deadlineOf)
    BY DEF Schedule!CreateEvent
  <1>6. /\ rows' \in Table
        /\ \A k \in Schedule!Rows : rs[k].kind = "event" \/ rows'[k].kind = "event" => rows'[k] = rs[k]
    <2> HIDE DEF i, rs
    <2> QED BY <1>2, <1>3, <1>4, <1>5, SyncedEvents DEF Owners
  <1>7. Schedule!TypeOK'
    BY <1>6 DEF Schedule!TypeOK, Schedule!CreateEvent, Table
  <1>8. Schedule!SeriesEvents(rows') = Schedule!SeriesEvents(rs)
    <2> HIDE DEF i, rs
    <2> QED BY <1>6, SameSeriesEvents
  <1>9. Schedule!SeriesEvents(rs) = Schedule!SeriesEvents(rows)
    <2> HIDE DEF i, rs
    <2> QED BY <1>2, <1>3, NewEventFits DEF Schedule!SeriesEvents, Schedule!SeriesRows, OptionalDate
  <1> QED BY <1>7, <1>8, <1>9 DEF Schedule!SeriesEvents, Schedule!SeriesRows

(* The rows of a new series.                                               *)
NewSeriesEvent(i, deadlineOf) ==
  [Schedule!NewEvent(Schedule!Min({i, MaxDate}), deadlineOf) EXCEPT !.inSeries = TRUE, !.position = i]
NewSeriesRows(n, deadlineOf) ==
  [i \in Schedule!Rows |-> IF i <= n THEN NewSeriesEvent(i, deadlineOf) ELSE Schedule!NoRow]

LEMMA SeriesRowsFit ==
  ASSUME Schedule!ConstantsAssumption, NEW n \in SeriesSizes,
         NEW deadlineOf \in OptionalDate, Schedule!CreateSeries(n, deadlineOf)
  PROVE  LET rs == NewSeriesRows(n, deadlineOf)
         IN  /\ rs \in Table
             /\ \A i \in Schedule!Rows : \/ rs[i].kind = "event" /\ rs[i].inSeries /\ rs[i].live
                                         \/ rs[i].kind = "free" /\ ~ rs[i].live
             /\ \E k \in Schedule!Rows : rs[k].kind = "free"
             /\ Schedule!SeriesEvents(rs) = 1 .. n
             /\ n \in Nat /\ n <= MaxRows
             /\ rows' \in Schedule!Synced(rs, Schedule!None, deadlineOf)
  <1> DEFINE N(i) == NewSeriesEvent(i, deadlineOf)
             rs == NewSeriesRows(n, deadlineOf)
  <1>1. /\ MaxRows \in Nat /\ MaxDate \in Nat /\ n \in Nat /\ 2 <= n /\ n <= MaxRows
        /\ Schedule!Rows = 1 .. MaxRows
    BY DEF Schedule!ConstantsAssumption, Schedule!Rows
  <1>2. ASSUME NEW i \in Schedule!Rows
        PROVE  N(i) \in Schedule!Row /\ N(i).kind = "event" /\ N(i).inSeries /\ N(i).live
    <2>1. Schedule!Min({i, MaxDate}) \in OptionalDate
      <3>1. \E x \in {i, MaxDate} : \A y \in {i, MaxDate} : x <= y
        BY <1>1
      <3>2. Schedule!Min({i, MaxDate}) \in {i, MaxDate} /\ Schedule!Min({i, MaxDate}) <= MaxDate
        BY <3>1 DEF Schedule!Min
      <3> QED BY <3>2, <1>1 DEF OptionalDate, Schedule!Dates, Schedule!None
    <2>2. i \in 0 .. MaxRows
      BY <1>1
    <2> DEFINE r == Schedule!NewEvent(Schedule!Min({i, MaxDate}), deadlineOf)
    <2>3. r \in Schedule!Row /\ r.kind = "event" /\ r.live
      BY <2>1, NewEventFits
    <2> HIDE DEF r
    <2>4. LET new == [r EXCEPT !.inSeries = TRUE, !.position = i]
          IN  new \in Schedule!Row /\ new.kind = "event" /\ new.inSeries /\ new.live
      BY <2>2, <2>3 DEF Schedule!Row
    <2> QED BY <2>4 DEF r, NewSeriesEvent
  <1>3. rs \in Table
    BY <1>2, NoRowFits DEF Table, NewSeriesRows
  <1>4. \E k \in Schedule!Rows : rs[k].kind = "free"
    <2>1. Cardinality(Schedule!Free) >= n + 1 /\ Schedule!Free = Schedule!Rows
      BY ScheduleCardinality DEF Schedule!CreateSeries, Schedule!HasRoom
    <2>2. n + 1 \in Schedule!Rows
      BY <2>1, <1>1, RowsFinite
    <2>3. rs[n + 1] = Schedule!NoRow
      BY <2>2, <1>1 DEF NewSeriesRows
    <2> QED BY <2>2, <2>3, NoRowFits
  <1>5. rows' \in Schedule!Synced(rs, Schedule!None, deadlineOf)
    BY Zenon DEF Schedule!CreateSeries, NewSeriesRows, NewSeriesEvent
  <1>6. \A i \in Schedule!Rows : rs[i] = IF i <= n THEN N(i) ELSE Schedule!NoRow
    BY DEF NewSeriesRows
  <1>7. Schedule!SeriesEvents(rs) = 1 .. n
    <2> HIDE DEF rs, N
    <2> QED BY <1>1, <1>2, <1>6, NoRowFits DEF Schedule!SeriesEvents, Schedule!SeriesRows
  <1>8. \A i \in Schedule!Rows : \/ rs[i].kind = "event" /\ rs[i].inSeries /\ rs[i].live
                                 \/ rs[i].kind = "free" /\ ~ rs[i].live
    <2> HIDE DEF rs, N
    <2> QED BY <1>2, <1>6, NoRowFits
  <1> HIDE DEF rs
  <1> QED BY <1>1, <1>3, <1>4, <1>5, <1>7, <1>8 DEF rs

LEMMA CreateSeriesEffect ==
  ASSUME Schedule!ConstantsAssumption, Schedule!TypeOK, NEW n \in SeriesSizes,
         NEW deadlineOf \in OptionalDate, Schedule!CreateSeries(n, deadlineOf)
  PROVE  /\ Schedule!TypeOK'
         /\ n \in Nat
         /\ Schedule!SeriesEvents(rows)' = 1 .. n
         /\ series'.total = n
  <1> DEFINE rs == NewSeriesRows(n, deadlineOf)
  <1>1. /\ rs \in Table /\ \E k \in Schedule!Rows : rs[k].kind = "free"
        /\ Schedule!SeriesEvents(rs) = 1 .. n /\ n \in Nat /\ n <= MaxRows
        /\ rows' \in Schedule!Synced(rs, Schedule!None, deadlineOf)
    BY SeriesRowsFit
  <1> HIDE DEF rs
  <1>2. /\ rows' \in Table
        /\ \A k \in Schedule!Rows : rs[k].kind = "event" \/ rows'[k].kind = "event" => rows'[k] = rs[k]
    BY <1>1, SyncedEvents DEF Owners
  <1>3. series' = [stored |-> TRUE, deadline |-> deadlineOf, total |-> n] /\ deletion' = deletion
    BY DEF Schedule!CreateSeries
  <1>4. series' \in Schedule!Series /\ series'.total = n
    <2>1. n \in 0 .. MaxRows
      BY <1>1 DEF Schedule!ConstantsAssumption
    <2> QED BY <2>1, <1>3 DEF Schedule!Series, OptionalDate
  <1>5. Schedule!TypeOK'
    BY <1>2, <1>3, <1>4 DEF Schedule!TypeOK, Table
  <1>6. Schedule!SeriesEvents(rows') = 1 .. n
    BY <1>1, <1>2, SameSeriesEvents
  <1> QED BY <1>1, <1>4, <1>5, <1>6 DEF Schedule!SeriesEvents, Schedule!SeriesRows

LEMMA UpdateSeriesEffect ==
  ASSUME Schedule!ConstantsAssumption, Schedule!TypeOK, NEW d \in OptionalDate,
         Schedule!UpdateSeries(d)
  PROVE  /\ Schedule!TypeOK'
         /\ Schedule!SeriesEvents(rows)' = Schedule!SeriesEvents(rows)
         /\ series'.total = series.total
  <1> DEFINE rs == Schedule!WithDeadline(rows, Schedule!SeriesEvents(rows), d)
  <1>1. /\ rs \in Table
        /\ \A i \in Schedule!Rows : rs[i].kind = rows[i].kind /\ rs[i].inSeries = rows[i].inSeries
                                    /\ rs[i].live = rows[i].live
    <2>1. ASSUME NEW r \in Schedule!Row
          PROVE  LET new == [r EXCEPT !.deadline = d]
                 IN  new \in Schedule!Row /\ new.kind = r.kind /\ new.inSeries = r.inSeries
                     /\ new.live = r.live
      BY DEF Schedule!Row, OptionalDate
    <2> QED BY <2>1 DEF Schedule!WithDeadline, Schedule!TypeOK, Table
  <1>2. \E k \in Schedule!Rows : rs[k].kind = "free"
    BY <1>1, RoomIsFree DEF Schedule!UpdateSeries
  <1>3. rows' \in Schedule!Synced(rs, Schedule!None, d)
    BY DEF Schedule!UpdateSeries
  <1> HIDE DEF rs
  <1>4. /\ rows' \in Table
        /\ \A k \in Schedule!Rows : rs[k].kind = "event" \/ rows'[k].kind = "event" => rows'[k] = rs[k]
    BY <1>1, <1>2, <1>3, SyncedEvents DEF Owners
  <1>5. Schedule!SeriesEvents(rows') = Schedule!SeriesEvents(rows)
    BY <1>1, <1>4, SameSeriesEvents
  <1>6. series' \in Schedule!Series /\ series'.total = series.total /\ deletion' = deletion
    BY DEF Schedule!UpdateSeries, Schedule!TypeOK, Schedule!Series, OptionalDate
  <1> QED BY <1>4, <1>5, <1>6 DEF Schedule!TypeOK, Table, Schedule!SeriesEvents, Schedule!SeriesRows

(* An update writes no event but its own, and those of its series.         *)
LEMMA UpdateEffect ==
  ASSUME Schedule!ConstantsAssumption, Schedule!TypeOK, NEW e \in Schedule!Rows, NEW u \in Updates,
         Schedule!UpdateEvent(e, u)
  PROVE  /\ Schedule!TypeOK'
         /\ Schedule!SeriesEvents(rows)' = Schedule!SeriesEvents(rows)
         /\ series'.total = series.total
         /\ \A k \in Schedule!Rows :
              rows[k].kind = "event" \/ rows'[k].kind = "event" => rows'[k] = Schedule!Updated(e, u)[k]
  <1> DEFINE rs == Schedule!Updated(e, u)
  <1>1. /\ rs \in Table
        /\ \A i \in Schedule!Rows : rs[i].kind = rows[i].kind /\ rs[i].inSeries = rows[i].inSeries
                                    /\ rs[i].live = rows[i].live
    BY UpdatedEffect
  <1>2. \E k \in Schedule!Rows : rs[k].kind = "free"
    BY <1>1, RoomIsFree DEF Schedule!UpdateEvent
  <1>3. u \in Schedule!Update /\ (u.deadline # Schedule!Kept => u.deadline \in OptionalDate)
    BY DEF Schedule!ConstantsAssumption, Schedule!Update, OptionalDate
  <1>4. \/ rows' = rs /\ series' = series
        \/ /\ u.deadline # Schedule!Kept
           /\ rows' \in Schedule!Synced(rs, Schedule!None, u.deadline)
           /\ series' = [series EXCEPT !.deadline = u.deadline]
        \/ /\ u.deadline # Schedule!Kept
           /\ rows' \in Schedule!Synced(rs, e, u.deadline)
           /\ series' = series
    BY DEF Schedule!UpdateEvent
  <1> HIDE DEF rs
  <1>5. /\ rows' \in Table
        /\ \A k \in Schedule!Rows : rs[k].kind = "event" \/ rows'[k].kind = "event" => rows'[k] = rs[k]
    <2>1. ASSUME NEW owner \in Owners, u.deadline # Schedule!Kept,
                 rows' \in Schedule!Synced(rs, owner, u.deadline)
          PROVE  <1>5
      BY <2>1, <1>1, <1>2, <1>3, SyncedEvents
    <2> QED BY <2>1, <1>4, <1>1 DEF Owners
  <1>6. Schedule!SeriesEvents(rows') = Schedule!SeriesEvents(rows)
    BY <1>1, <1>5, SameSeriesEvents
  <1>7. series' \in Schedule!Series /\ series'.total = series.total /\ deletion' = deletion
    BY <1>3, <1>4 DEF Schedule!UpdateEvent, Schedule!TypeOK, Schedule!Series, OptionalDate
  <1>8. \A k \in Schedule!Rows :
          rows[k].kind = "event" \/ rows'[k].kind = "event" => rows'[k] = rs[k]
    BY <1>1, <1>5
  <1> QED BY <1>5, <1>6, <1>7, <1>8 DEF Schedule!TypeOK, Table, Schedule!SeriesEvents,
          Schedule!SeriesRows, rs

LEMMA ScopeRows ==
  ASSUME NEW e \in Schedule!Rows, NEW scope
  PROVE  Schedule!InScope(e, scope) \in SUBSET Schedule!Rows
  BY DEF Schedule!InScope, Schedule!SeriesRows

(* What a deletion marks and counts.                                       *)
DeletedBy(h, e, scope) ==
  LET S == Schedule!InScope(e, scope)
      left == Schedule!SeriesEvents(rows) \ S
      d == deletion'[h]
  IN /\ deletion' = [deletion EXCEPT ![h] = d]
     /\ d \in Schedule!Deletion
     /\ d.ids = S /\ d.inSeries = rows[e].inSeries
     /\ \/ d.single = Schedule!None /\ d.total = Cardinality(left)
           /\ ~ (rows[e].inSeries /\ Cardinality(left) = 1)
        \/ rows[e].inSeries /\ left = {d.single} /\ d.single # Schedule!None /\ d.total = 0
     /\ \/ d.entry = Schedule!None
        \/ /\ d.entry \in Schedule!Entries(rows, Schedule!None)
           /\ rows[e].inSeries /\ (left = {} \/ left = {d.single})

LEMMA DeleteEffect ==
  ASSUME Schedule!ConstantsAssumption, Schedule!TypeOK, NEW e \in Schedule!Rows,
         NEW h \in Handlers, NEW scope, Schedule!DeleteEvent(h, e, scope)
  PROVE  /\ Schedule!TypeOK' /\ UNCHANGED <<rows, series>>
         /\ e \in Schedule!LiveEvents
         /\ DeletedBy(h, e, scope)
  <1> DEFINE S == Schedule!InScope(e, scope)
             left == Schedule!SeriesEvents(rows) \ S
             entries == Schedule!Entries(rows, Schedule!None) \ S
  <1>1. /\ S \in SUBSET Schedule!Rows /\ left \in SUBSET Schedule!Rows
        /\ entries \in SUBSET Schedule!Rows
    BY ScopeRows DEF Schedule!SeriesEvents, Schedule!SeriesRows, Schedule!Entries
  <1>2. /\ IsFiniteSet(left) /\ Cardinality(left) \in 0 .. MaxRows
        /\ MaxRows \in Nat /\ 0 \notin Schedule!Rows
    <2> HIDE DEF left
    <2> QED BY <1>1, RowsFinite DEF Schedule!ConstantsAssumption
  <1>3. PICK one \in IF rows[e].inSeries /\ Cardinality(left) = 1 THEN left ELSE {Schedule!None},
             gone \in IF rows[e].inSeries /\ Cardinality(left) <= 1 /\ entries # {}
                      THEN entries ELSE {Schedule!None} :
          deletion' = [deletion EXCEPT ![h] =
                         [ids |-> S, inSeries |-> rows[e].inSeries, single |-> one, entry |-> gone,
                          total |-> IF one # Schedule!None THEN 0 ELSE Cardinality(left)]]
    BY ScheduleCardinality, Zenon DEF Schedule!DeleteEvent
  <1> DEFINE d == [ids |-> S, inSeries |-> rows[e].inSeries, single |-> one, entry |-> gone,
                   total |-> IF one # Schedule!None THEN 0 ELSE Cardinality(left)]
  <1>4. rows[e].inSeries \in BOOLEAN
    BY DEF Schedule!TypeOK, Schedule!Row
  <1>5. /\ one \in Schedule!Rows \cup {Schedule!None} /\ gone \in Schedule!Rows \cup {Schedule!None}
        /\ rows[e].inSeries /\ Cardinality(left) = 1 => one \in left
        /\ ~ (rows[e].inSeries /\ Cardinality(left) = 1) => one = Schedule!None
        /\ gone # Schedule!None => /\ gone \in Schedule!Entries(rows, Schedule!None)
                                   /\ rows[e].inSeries /\ Cardinality(left) <= 1
    <2> HIDE DEF left, entries
    <2>1. one \in left \/ one = Schedule!None
      BY <1>3
    <2>2. gone \in entries \/ gone = Schedule!None
      BY <1>3
    <2>3. entries \subseteq Schedule!Entries(rows, Schedule!None)
      BY DEF entries
    <2> QED BY <2>1, <2>2, <2>3, <1>1, <1>3
  <1>6. d \in Schedule!Deletion
    <2> HIDE DEF left, S
    <2>1. (IF one # Schedule!None THEN 0 ELSE Cardinality(left)) \in 0 .. MaxRows
      BY <1>2
    <2> QED BY <2>1, <1>1, <1>4, <1>5 DEF Schedule!Deletion
  <1>7. deletion' = [deletion EXCEPT ![h] = d] /\ deletion'[h] = d
    BY <1>3 DEF Schedule!TypeOK
  <1>8. Cardinality(left) = 1 => \A x \in left : left = {x}
    <2> HIDE DEF left
    <2> QED BY <1>2, FS_Singleton
  <1>9. Cardinality(left) <= 1 => left = {} \/ Cardinality(left) = 1
    <2> HIDE DEF left
    <2> QED BY <1>2, FS_EmptySet
  <1>10. d.ids = S /\ d.inSeries = rows[e].inSeries /\ d.single = one /\ d.entry = gone
    OBVIOUS
  <1>11. d.total = IF one # Schedule!None THEN 0 ELSE Cardinality(left)
    OBVIOUS
  <1>12. DeletedBy(h, e, scope)
    <2> HIDE DEF d
    <2>1. \/ one = Schedule!None /\ ~ (rows[e].inSeries /\ Cardinality(left) = 1)
          \/ rows[e].inSeries /\ left = {one} /\ one # Schedule!None
      <3> HIDE DEF left
      <3> QED BY <1>1, <1>2, <1>5, <1>8 DEF Schedule!None
    <2>2. gone # Schedule!None => left = {} \/ left = {one}
      <3> HIDE DEF left
      <3> QED BY <1>5, <1>8, <1>9
    <2> HIDE DEF left, S
    <2>3. /\ deletion' = [deletion EXCEPT ![h] = deletion'[h]] /\ deletion'[h] \in Schedule!Deletion
          /\ deletion'[h].ids = S /\ deletion'[h].inSeries = rows[e].inSeries
          /\ deletion'[h].single = one /\ deletion'[h].entry = gone
          /\ deletion'[h].total = IF one # Schedule!None THEN 0 ELSE Cardinality(left)
      BY <1>6, <1>7, <1>10, <1>11
    <2> QED BY <2>1, <2>2, <2>3, <1>5 DEF DeletedBy, left, S
  <1>13. UNCHANGED <<rows, series>> /\ e \in Schedule!LiveEvents
    BY DEF Schedule!DeleteEvent
  <1> QED BY <1>6, <1>7, <1>12, <1>13 DEF Schedule!TypeOK, Table

LEMMA PerformerEffect ==
  ASSUME Schedule!TypeOK, NEW e \in Schedule!Rows, NEW present \in BOOLEAN,
         Schedule!SetPerformer(e, present)
  PROVE  /\ Schedule!TypeOK' /\ UNCHANGED <<series, deletion>>
         /\ \A i \in Schedule!Rows :
              /\ rows'[i].kind = rows[i].kind /\ rows'[i].inSeries = rows[i].inSeries
              /\ rows'[i].live = rows[i].live /\ rows'[i].parent = rows[i].parent
              /\ rows'[i].date = rows[i].date /\ rows'[i].deadline = rows[i].deadline
  <1>1. ASSUME NEW r \in Schedule!Row
        PROVE  LET new == [r EXCEPT !.performer = present]
               IN  new \in Schedule!Row /\ new.kind = r.kind /\ new.inSeries = r.inSeries
                   /\ new.live = r.live /\ new.parent = r.parent
                   /\ new.date = r.date /\ new.deadline = r.deadline
    BY DEF Schedule!Row
  <1>2. \A i \in Schedule!Rows : rows[i] \in Schedule!Row
    BY DEF Schedule!TypeOK
  <1>3. /\ rows' = [i \in Schedule!Rows |-> IF i \in Schedule!InScope(e, "all")
                      THEN [rows[i] EXCEPT !.performer = present] ELSE rows[i]]
        /\ UNCHANGED <<series, deletion>>
    BY DEF Schedule!SetPerformer
  <1> QED BY <1>1, <1>2, <1>3 DEF Schedule!TypeOK

(* What is counted is the series before the restoration.                   *)
LEMMA RestoreEffect ==
  ASSUME Schedule!ConstantsAssumption, Schedule!TypeOK, NEW i \in Schedule!Rows,
         Schedule!RestoreEvent(i)
  PROVE  /\ Schedule!TypeOK' /\ UNCHANGED deletion
         /\ IF rows[i].inSeries
            THEN /\ series'.total = Cardinality(Schedule!SeriesEvents(rows))
                 /\ \/ Schedule!SeriesEvents(rows)' = Schedule!SeriesEvents(rows)
                    \/ /\ i \notin Schedule!SeriesEvents(rows)
                       /\ Schedule!SeriesEvents(rows)' = Schedule!SeriesEvents(rows) \cup {i}
            ELSE /\ series' = series
                 /\ Schedule!SeriesEvents(rows)' = Schedule!SeriesEvents(rows)
  <1> DEFINE total == Cardinality(Schedule!SeriesEvents(rows))
  <1>1. rows' = [rows EXCEPT ![i].live = TRUE] /\ UNCHANGED deletion /\ ~ rows[i].live
    BY DEF Schedule!RestoreEvent
  <1>2. /\ rows' \in Table
        /\ \A k \in Schedule!Rows : /\ rows'[k].inSeries = rows[k].inSeries
                                    /\ rows'[k].kind = rows[k].kind
                                    /\ k # i => rows'[k] = rows[k]
    <2>1. rows \in Table /\ rows[i] \in Schedule!Row
      BY DEF Schedule!TypeOK, Table
    <2>2. LET new == [rows[i] EXCEPT !.live = TRUE]
          IN  new \in Schedule!Row /\ new.inSeries = rows[i].inSeries /\ new.kind = rows[i].kind
      BY <2>1 DEF Schedule!Row
    <2>3. rows' = [rows EXCEPT ![i] = [rows[i] EXCEPT !.live = TRUE]]
      BY <1>1
    <2> QED BY <2>1, <2>2, <2>3 DEF Table
  <1>3. total \in 0 .. MaxRows
    <2>1. Schedule!SeriesEvents(rows) \in SUBSET Schedule!Rows
      BY DEF Schedule!SeriesEvents, Schedule!SeriesRows
    <2> QED BY <2>1, RowsFinite
  <1>4. series' = IF rows[i].inSeries THEN [series EXCEPT !.total = total] ELSE series
    BY ScheduleCardinality, Zenon DEF Schedule!RestoreEvent
  <1>5. series' \in Schedule!Series /\ (rows[i].inSeries => series'.total = total)
    <2> HIDE DEF total
    <2> QED BY <1>3, <1>4 DEF Schedule!TypeOK, Schedule!Series
  <1>6. i \notin Schedule!SeriesEvents(rows)
    BY <1>1 DEF Schedule!SeriesEvents, Schedule!SeriesRows
  <1>7. /\ Schedule!SeriesEvents(rows') \subseteq Schedule!SeriesEvents(rows) \cup {i}
        /\ Schedule!SeriesEvents(rows) \subseteq Schedule!SeriesEvents(rows')
        /\ i \in Schedule!SeriesEvents(rows') => rows[i].inSeries
    BY <1>1, <1>2 DEF Schedule!SeriesEvents, Schedule!SeriesRows
  <1>8. Schedule!SeriesEvents(rows)' = Schedule!SeriesEvents(rows')
    BY DEF Schedule!SeriesEvents, Schedule!SeriesRows
  <1>9. /\ \/ Schedule!SeriesEvents(rows)' = Schedule!SeriesEvents(rows)
           \/ Schedule!SeriesEvents(rows)' = Schedule!SeriesEvents(rows) \cup {i}
        /\ ~ rows[i].inSeries => Schedule!SeriesEvents(rows)' = Schedule!SeriesEvents(rows)
    BY <1>7, <1>8
  <1>10. Schedule!TypeOK'
    BY <1>1, <1>2, <1>5 DEF Schedule!TypeOK, Table
  <1> QED BY <1>1, <1>4, <1>5, <1>6, <1>9, <1>10

(* The rows that a deletion leaves, before the event that leaves its       *)
(* series gets an entry of its own.                                        *)
Left(d, alone) ==
  /\ alone \in Table
  /\ \A k \in Schedule!Rows :
       /\ alone[k].kind = rows[k].kind /\ alone[k].parent = rows[k].parent
       /\ alone[k].date = rows[k].date /\ alone[k].deadline = rows[k].deadline
       /\ alone[k].live = IF k \in d.ids \cup {d.entry} THEN FALSE ELSE rows[k].live
       /\ alone[k].inSeries = IF k = d.single THEN FALSE ELSE rows[k].inSeries

LEMMA CommitEffect ==
  ASSUME Schedule!ConstantsAssumption, Schedule!TypeOK, NEW h \in Handlers,
         Schedule!CommitDeletion(h)
  PROVE  LET d == deletion[h]
             deadlineOf == rows[d.single].deadline
         IN  /\ Schedule!TypeOK' /\ Schedule!Pending(h)
             /\ deletion' = [deletion EXCEPT ![h] = Schedule!NoDeletion]
             /\ series'.total = IF d.inSeries THEN d.total ELSE series.total
             /\ series'.deadline = series.deadline
             /\ \E alone :
                  /\ Left(d, alone)
                  /\ \/ d.single = Schedule!None /\ rows' = alone
                     \/ /\ d.single # Schedule!None /\ deadlineOf = Schedule!None
                        /\ rows' = alone
                     \/ /\ d.single # Schedule!None /\ deadlineOf # Schedule!None
                        /\ \E k \in Schedule!Rows :
                             /\ alone[k].kind = "free"
                             /\ rows' = [alone EXCEPT ![k] = rows'[k]]
                             /\ rows'[k] = Schedule!NewEntry(d.single, deadlineOf)
  <1> DEFINE d == deletion[h]
             marked == [i \in Schedule!Rows |->
                          IF i \in d.ids \cup {d.entry} THEN [rows[i] EXCEPT !.live = FALSE]
                          ELSE rows[i]]
  <1>1. d \in Schedule!Deletion /\ rows \in Table
    BY DEF Schedule!TypeOK, Table
  <1>2. /\ marked \in Table
        /\ \A k \in Schedule!Rows :
             /\ marked[k].kind = rows[k].kind /\ marked[k].parent = rows[k].parent
             /\ marked[k].date = rows[k].date /\ marked[k].deadline = rows[k].deadline
             /\ marked[k].live = IF k \in d.ids \cup {d.entry} THEN FALSE ELSE rows[k].live
             /\ marked[k].inSeries = rows[k].inSeries
    <2>1. ASSUME NEW r \in Schedule!Row
          PROVE  LET new == [r EXCEPT !.live = FALSE]
                 IN  new \in Schedule!Row /\ new.kind = r.kind /\ new.inSeries = r.inSeries
                     /\ new.live = FALSE /\ new.parent = r.parent
                     /\ new.date = r.date /\ new.deadline = r.deadline
      BY DEF Schedule!Row
    <2> QED BY <1>1, <2>1 DEF Table
  <1>3. /\ Schedule!Pending(h)
        /\ IF d.single # Schedule!None
           THEN Schedule!HasRoom(1) /\ rows' \in Schedule!Detached(marked, d.single)
           ELSE rows' = marked
        /\ series' = IF d.inSeries THEN [series EXCEPT !.total = d.total] ELSE series
        /\ deletion' = [deletion EXCEPT ![h] = Schedule!NoDeletion]
    BY Zenon DEF Schedule!CommitDeletion, Schedule!CountLeft
  <1>4. /\ series' \in Schedule!Series /\ series'.deadline = series.deadline
        /\ series'.total = IF d.inSeries THEN d.total ELSE series.total
    BY <1>1, <1>3 DEF Schedule!TypeOK, Schedule!Series, Schedule!Deletion
  <1>5. deletion' \in [Handlers -> Schedule!Deletion]
    <2>1. 0 \in 0 .. MaxRows
      BY DEF Schedule!ConstantsAssumption
    <2>2. Schedule!NoDeletion \in Schedule!Deletion
      BY <2>1 DEF Schedule!NoDeletion, Schedule!Deletion, Schedule!None
    <2> QED BY <2>2, <1>3 DEF Schedule!TypeOK
  <1> HIDE DEF marked
  <1>6. CASE d.single = Schedule!None
    <2>1. rows' = marked
      BY <1>3, <1>6
    <2>2. Left(d, marked)
      <3>1. \A k \in Schedule!Rows : k # d.single
        BY <1>6, RowsFinite DEF Schedule!None
      <3> QED BY <1>2, <3>1 DEF Left
    <2> QED BY <2>1, <2>2, <1>2, <1>3, <1>4, <1>5, <1>6 DEF Schedule!TypeOK, Table
  <1>7. CASE d.single # Schedule!None
    <2> DEFINE i == d.single
               alone == [marked EXCEPT ![i].inSeries = FALSE, ![i].position = 0]
    <2>1. i \in Schedule!Rows /\ marked[i] \in Schedule!Row /\ i \in Owners
      BY <1>1, <1>2, <1>7 DEF Schedule!Deletion, Table, Owners
    <2>2. /\ alone \in Table
          /\ \A k \in Schedule!Rows :
               /\ alone[k].kind = marked[k].kind /\ alone[k].parent = marked[k].parent
               /\ alone[k].date = marked[k].date /\ alone[k].deadline = marked[k].deadline
               /\ alone[k].live = marked[k].live
               /\ alone[k].inSeries = IF k = i THEN FALSE ELSE marked[k].inSeries
      <3>1. 0 \in 0 .. MaxRows
        BY DEF Schedule!ConstantsAssumption
      <3> DEFINE r == [marked[i] EXCEPT !.inSeries = FALSE, !.position = 0]
      <3>2. /\ r \in Schedule!Row /\ r.kind = marked[i].kind /\ r.parent = marked[i].parent
            /\ r.date = marked[i].date /\ r.deadline = marked[i].deadline
            /\ r.live = marked[i].live /\ r.inSeries = FALSE
        BY <2>1, <3>1 DEF Schedule!Row
      <3>3. alone = [marked EXCEPT ![i] = r]
        BY <2>1, <1>2 DEF Table
      <3> HIDE DEF r, alone
      <3> QED BY <2>1, <1>2, <3>2, <3>3 DEF Table
    <2>3. Left(d, alone)
      <3> HIDE DEF alone
      <3>1. ASSUME NEW k \in Schedule!Rows
            PROVE  /\ alone[k].kind = rows[k].kind /\ alone[k].parent = rows[k].parent
                   /\ alone[k].date = rows[k].date /\ alone[k].deadline = rows[k].deadline
                   /\ alone[k].live = IF k \in d.ids \cup {d.entry} THEN FALSE ELSE rows[k].live
                   /\ alone[k].inSeries = IF k = i THEN FALSE ELSE rows[k].inSeries
        <4>1. /\ alone[k].kind = marked[k].kind /\ alone[k].parent = marked[k].parent
              /\ alone[k].date = marked[k].date /\ alone[k].deadline = marked[k].deadline
              /\ alone[k].live = marked[k].live
              /\ alone[k].inSeries = IF k = i THEN FALSE ELSE marked[k].inSeries
          BY <2>2, Zenon
        <4>2. /\ marked[k].kind = rows[k].kind /\ marked[k].parent = rows[k].parent
              /\ marked[k].date = rows[k].date /\ marked[k].deadline = rows[k].deadline
              /\ marked[k].live = IF k \in d.ids \cup {d.entry} THEN FALSE ELSE rows[k].live
              /\ marked[k].inSeries = rows[k].inSeries
          BY <1>2, Zenon
        <4> HIDE DEF i, d
        <4>3. alone[k].live = IF k \in d.ids \cup {d.entry} THEN FALSE ELSE rows[k].live
          BY <4>1, <4>2, Zenon
        <4>4. alone[k].inSeries = IF k = i THEN FALSE ELSE rows[k].inSeries
          BY <4>1, <4>2, Zenon
        <4> QED BY <4>1, <4>2, <4>3, <4>4, Zenon
      <3>2. alone \in Table
        BY <2>2
      <3> QED BY <3>1, <3>2, Zenon DEF Left
    <2>4. rows' \in IF marked[i].deadline = Schedule!None THEN {alone}
                    ELSE Schedule!CreatedEntry(alone, i, marked[i].deadline)
      BY <1>3, <1>7, Zenon DEF Schedule!Detached
    <2>5. marked[i].deadline = rows[i].deadline /\ rows[i].deadline \in OptionalDate
      BY <2>1, <1>1, <1>2 DEF Table, Schedule!Row, OptionalDate
    <2>6. \E k \in Schedule!Rows : alone[k].kind = "free"
      <3>1. PICK k \in Schedule!Rows : rows[k].kind = "free"
        BY <1>3, <1>7, RoomIsFree
      <3> HIDE DEF alone
      <3>2. alone[k].kind = rows[k].kind
        BY <2>3, Zenon DEF Left
      <3> QED BY <3>1, <3>2
    <2> HIDE DEF alone
    <2>7. CASE rows[i].deadline = Schedule!None
      <3>1. rows' = alone
        BY <2>4, <2>5, <2>7
      <3> QED BY <3>1, <2>2, <2>3, <2>7, <1>3, <1>4, <1>5, <1>7 DEF Schedule!TypeOK, Table
    <2>8. CASE rows[i].deadline # Schedule!None
      <3>1. rows' \in Schedule!CreatedEntry(alone, i, rows[i].deadline)
        BY <2>4, <2>5, <2>8
      <3>2. /\ rows' \in Table
            /\ \E k \in Schedule!Rows : /\ rows' = [alone EXCEPT ![k] = rows'[k]]
                                        /\ alone[k].kind = "free"
                                        /\ rows'[k] = Schedule!NewEntry(i, rows[i].deadline)
        BY <3>1, <2>1, <2>2, <2>5, <2>6, CreatedShape
      <3> QED BY <3>2, <2>3, <2>8, <1>3, <1>4, <1>5, <1>7 DEF Schedule!TypeOK, Table
    <2> QED BY <2>7, <2>8
  <1> QED BY <1>6, <1>7

-----------------------------------------------------------------------------
(* Between its two steps a deletion knows what is left of the series, as   *)
(* long as no other request comes between them.                            *)
Remaining(d) == Schedule!SeriesEvents(rows) \ d.ids
CountsLeft(h) ==
  LET d == deletion[h]
  IN Schedule!Pending(h) =>
       /\ d.entry # Schedule!None => rows[d.entry].kind = "entry"
       /\ d.inSeries => IF d.single # Schedule!None THEN Remaining(d) = {d.single} /\ d.total = 0
                        ELSE d.total = Cardinality(Remaining(d))
       /\ ~ d.inSeries => Remaining(d) = Schedule!SeriesEvents(rows) /\ d.single = Schedule!None
OnePending == \A h, k \in Handlers : Schedule!Pending(h) /\ Schedule!Pending(k) => h = k
(* Only a restoration leaves a total that is one short.                    *)
Sums == /\ Schedule!TotalAtMostOneShort
        /\ "restore" \notin Operations => Schedule!TotalCounted
Counting == /\ Schedule!TypeOK /\ Sums /\ OnePending
            /\ \A h \in Handlers : CountsLeft(h)

LEMMA InitCounting ==
  ASSUME Schedule!ConstantsAssumption, Schedule!Init
  PROVE  Counting
  <1>1. 0 \in 0 .. MaxRows
    BY DEF Schedule!ConstantsAssumption
  <1>2. rows \in Table /\ \A i \in Schedule!Rows : rows[i].kind = "free"
    BY NoRowFits DEF Schedule!Init, Table
  <1>3. series \in Schedule!Series /\ series.total = 0
    BY <1>1 DEF Schedule!Init, Schedule!NoSeries, Schedule!Series, Schedule!None
  <1>4. Schedule!NoDeletion \in Schedule!Deletion
    BY <1>1 DEF Schedule!NoDeletion, Schedule!Deletion, Schedule!None
  <1>5. deletion \in [Handlers -> Schedule!Deletion]
    BY <1>4 DEF Schedule!Init
  <1>6. \A h \in Handlers : ~ Schedule!Pending(h)
    BY DEF Schedule!Init, Schedule!Pending
  <1>7. Cardinality(Schedule!SeriesEvents(rows)) = 0
    <2>1. Schedule!SeriesEvents(rows) = {}
      BY <1>2 DEF Schedule!SeriesEvents, Schedule!SeriesRows
    <2> QED BY <2>1, FS_EmptySet
  <1>8. Sums
    BY <1>3, <1>7, ScheduleCardinality
       DEF Sums, Schedule!TotalCounted, Schedule!TotalAtMostOneShort
  <1> QED BY <1>2, <1>3, <1>5, <1>6, <1>8 DEF Counting, Schedule!TypeOK, Table, OnePending, CountsLeft

LEMMA CountedPrimed ==
  ASSUME series'.total = Cardinality(Schedule!SeriesEvents(rows)')
  PROVE  Sums'
  BY ScheduleCardinality DEF Sums, Schedule!TotalCounted, Schedule!TotalAtMostOneShort

LEMMA SameSums ==
  ASSUME Sums, series'.total = series.total,
         Schedule!SeriesEvents(rows)' = Schedule!SeriesEvents(rows)
  PROVE  Sums'
  BY ScheduleCardinality DEF Sums, Schedule!TotalCounted, Schedule!TotalAtMostOneShort

LEMMA RequestCounting ==
  ASSUME Serial, NEW op, Schedule!Requested(op), UNCHANGED deletion, Schedule!TypeOK', Sums'
  PROVE  Counting'
  <1>1. \A h \in Handlers : ~ Schedule!Pending(h)'
    BY DEF Schedule!Requested, Schedule!Pending
  <1> QED BY <1>1 DEF Counting, OnePending, CountsLeft

LEMMA DeleteCounting ==
  ASSUME Serial, Schedule!ConstantsAssumption, Counting, NEW e \in Schedule!Rows,
         NEW h \in Handlers, NEW scope, Schedule!DeleteEvent(h, e, scope)
  PROVE  Counting'
  <1> DEFINE d == deletion'[h]
  <1>1. /\ Schedule!TypeOK' /\ UNCHANGED <<rows, series>>
        /\ e \in Schedule!LiveEvents /\ DeletedBy(h, e, scope)
    BY DeleteEffect DEF Counting
  <1>2. Sums'
    <2>1. Schedule!SeriesEvents(rows)' = Schedule!SeriesEvents(rows)
      BY <1>1 DEF Schedule!SeriesEvents, Schedule!SeriesRows
    <2> QED BY <1>1, <2>1, SameSums DEF Counting
  <1>3. \A k \in Handlers : k # h => ~ Schedule!Pending(k)'
    <2>1. \A k \in Handlers : ~ Schedule!Pending(k)
      BY DEF Schedule!DeleteEvent, Schedule!Requested
    <2>2. \A k \in Handlers : k # h => deletion'[k] = deletion[k]
      BY <1>1 DEF DeletedBy, Counting, Schedule!TypeOK
    <2> QED BY <2>1, <2>2 DEF Schedule!Pending
  <1>4. ~ d.inSeries => Remaining(d) = Schedule!SeriesEvents(rows)
    <2>1. ASSUME ~ rows[e].inSeries
          PROVE  Schedule!SeriesEvents(rows) \ Schedule!InScope(e, scope) = Schedule!SeriesEvents(rows)
      BY <2>1 DEF Schedule!InScope, Schedule!SeriesEvents, Schedule!SeriesRows
    <2> QED BY <1>1, <2>1 DEF DeletedBy, Remaining
  <1>5. d.entry # Schedule!None => rows[d.entry].kind = "entry"
    BY <1>1 DEF DeletedBy, Schedule!Entries
  <1>6. d.inSeries => IF d.single # Schedule!None THEN Remaining(d) = {d.single} /\ d.total = 0
                      ELSE d.total = Cardinality(Remaining(d))
    BY <1>1 DEF DeletedBy, Remaining
  <1>7. ~ d.inSeries => d.single = Schedule!None
    BY <1>1 DEF DeletedBy
  <1>8. CountsLeft(h)'
    BY <1>1, <1>4, <1>5, <1>6, <1>7 DEF CountsLeft, Remaining, Schedule!SeriesEvents,
          Schedule!SeriesRows
  <1> QED BY <1>1, <1>2, <1>3, <1>8 DEF Counting, OnePending, CountsLeft

(* Committed, the deletion leaves the events that it counted.              *)
LEMMA LeftEvents ==
  ASSUME Schedule!ConstantsAssumption, Counting, NEW h \in Handlers, Schedule!Pending(h),
         NEW alone, Left(deletion[h], alone)
  PROVE  Schedule!SeriesEvents(alone) = Remaining(deletion[h]) \ {deletion[h].single}
  <1> DEFINE d == deletion[h]
  <1>1. d.entry # Schedule!None => rows[d.entry].kind = "entry"
    BY DEF Counting, CountsLeft
  <1>2. ASSUME NEW k \in Schedule!Rows
        PROVE  /\ alone[k].kind = rows[k].kind
               /\ alone[k].live = IF k \in d.ids \cup {d.entry} THEN FALSE ELSE rows[k].live
               /\ alone[k].inSeries = IF k = d.single THEN FALSE ELSE rows[k].inSeries
    BY Zenon DEF Left
  <1>3. \A k \in Schedule!Rows : rows[k].kind = "event" => k # d.entry \/ d.entry = Schedule!None
    BY <1>1
  <1> HIDE DEF d
  <1>4. ASSUME NEW k \in Schedule!SeriesEvents(alone)
        PROVE  k \in Remaining(d) \ {d.single}
    <2>1. k \in Schedule!Rows /\ alone[k].kind = "event" /\ alone[k].live /\ alone[k].inSeries
      BY <1>4 DEF Schedule!SeriesEvents, Schedule!SeriesRows
    <2>2. k \notin d.ids /\ rows[k].live
      BY <2>1, <1>2, Zenon
    <2>3. k # d.single /\ rows[k].inSeries
      BY <2>1, <1>2, Zenon
    <2> QED BY <2>1, <2>2, <2>3, <1>2 DEF Remaining, Schedule!SeriesEvents, Schedule!SeriesRows
  <1>5. ASSUME NEW k \in Remaining(d) \ {d.single}
        PROVE  k \in Schedule!SeriesEvents(alone)
    <2>1. /\ k \in Schedule!Rows /\ rows[k].kind = "event" /\ rows[k].live /\ rows[k].inSeries
          /\ k \notin d.ids /\ k # d.single
      BY <1>5 DEF Remaining, Schedule!SeriesEvents, Schedule!SeriesRows
    <2>2. k # d.entry
      BY <2>1, <1>1, <1>3, RowsFinite DEF Schedule!None
    <2>3. alone[k].live /\ alone[k].inSeries /\ alone[k].kind = "event"
      BY <2>1, <2>2, <1>2, Zenon
    <2> QED BY <2>1, <2>3 DEF Schedule!SeriesEvents, Schedule!SeriesRows
  <1> QED BY <1>4, <1>5 DEF d

LEMMA CommitCounting ==
  ASSUME Schedule!ConstantsAssumption, Counting, NEW h \in Handlers, Schedule!CommitDeletion(h)
  PROVE  Counting'
  <1> DEFINE d == deletion[h]
  <1>1. /\ Schedule!TypeOK' /\ Schedule!Pending(h)
        /\ deletion' = [deletion EXCEPT ![h] = Schedule!NoDeletion]
        /\ series'.total = IF d.inSeries THEN d.total ELSE series.total
    BY CommitEffect DEF Counting
  <1>2. PICK alone :
          /\ Left(d, alone)
          /\ \/ rows' = alone
             \/ \E k \in Schedule!Rows : \E deadlineOf :
                  /\ alone[k].kind = "free" /\ d.single # Schedule!None
                  /\ rows' = [alone EXCEPT ![k] = rows'[k]]
                  /\ rows'[k] = Schedule!NewEntry(d.single, deadlineOf)
    BY CommitEffect DEF Counting
  <1>3. Schedule!SeriesEvents(rows') = Schedule!SeriesEvents(alone)
    <2>1. ASSUME NEW k \in Schedule!Rows, NEW deadlineOf,
                 alone[k].kind = "free", rows' = [alone EXCEPT ![k] = rows'[k]],
                 rows'[k] = Schedule!NewEntry(d.single, deadlineOf)
          PROVE  <1>3
      <3>1. rows'[k].kind = "entry"
        BY <2>1 DEF Schedule!NewEntry, Schedule!NoRow
      <3>2. \A i \in Schedule!Rows : i # k => rows'[i] = alone[i]
        BY <2>1, <1>2 DEF Left, Table
      <3> QED BY <2>1, <3>1, <3>2, SameSeriesEvents
    <2> QED BY <2>1, <1>2
  <1>4. Schedule!SeriesEvents(rows') = Remaining(d) \ {d.single}
    BY <1>1, <1>2, <1>3, LeftEvents
  <1>5. CountsLeft(h) /\ OnePending /\ Sums
    BY DEF Counting
  <1>6. Schedule!SeriesEvents(rows') = Schedule!SeriesEvents(rows)'
    BY DEF Schedule!SeriesEvents, Schedule!SeriesRows
  <1>7. Sums'
    <2>1. d.single = Schedule!None => Schedule!SeriesEvents(rows') = Remaining(d)
      <3>1. Remaining(d) \subseteq Schedule!Rows /\ 0 \notin Schedule!Rows
        BY RowsFinite DEF Remaining, Schedule!SeriesEvents, Schedule!SeriesRows
      <3> QED BY <3>1, <1>4 DEF Schedule!None
    <2>2. CASE d.inSeries /\ d.single # Schedule!None
      <3>1. Schedule!SeriesEvents(rows') = {} /\ d.total = 0
        BY <2>2, <1>1, <1>4, <1>5 DEF CountsLeft
      <3> QED BY <2>2, <3>1, <1>1, <1>6, FS_EmptySet, CountedPrimed
    <2>3. CASE d.inSeries /\ d.single = Schedule!None
      <3>1. d.total = Cardinality(Remaining(d))
        BY <2>3, <1>1, <1>5 DEF CountsLeft
      <3> QED BY <2>1, <2>3, <3>1, <1>1, <1>6, CountedPrimed
    <2>4. CASE ~ d.inSeries
      <3>1. d.single = Schedule!None /\ Remaining(d) = Schedule!SeriesEvents(rows)
        BY <2>4, <1>1, <1>5 DEF CountsLeft
      <3> QED BY <2>1, <2>4, <3>1, <1>1, <1>5, <1>6, SameSums
    <2> QED BY <2>2, <2>3, <2>4
  <1>8. \A k \in Handlers : ~ Schedule!Pending(k)'
    <2>1. ~ Schedule!Pending(h)'
      BY <1>1 DEF Schedule!Pending, Counting, Schedule!TypeOK
    <2>2. \A k \in Handlers : k # h => ~ Schedule!Pending(k) /\ deletion'[k] = deletion[k]
      BY <1>1, <1>5 DEF OnePending, Counting, Schedule!TypeOK
    <2> QED BY <2>1, <2>2 DEF Schedule!Pending
  <1> QED BY <1>1, <1>7, <1>8 DEF Counting, OnePending, CountsLeft

LEMMA NextCounting ==
  ASSUME Serial, Schedule!ConstantsAssumption, Counting, [Schedule!Next]_(Schedule!vars)
  PROVE  Counting'
  <1>1. Schedule!TypeOK /\ Sums
    BY DEF Counting
  <1>2. ASSUME NEW d \in Schedule!Dates, NEW deadlineOf \in OptionalDate,
               Schedule!CreateEvent(d, deadlineOf)
        PROVE  Counting'
    <2>1. Schedule!Requested("create") /\ UNCHANGED <<series, deletion>>
      BY <1>2 DEF Schedule!CreateEvent
    <2> QED BY <1>1, <1>2, <2>1, CreateEffect, SameSums, RequestCounting
  <1>3. ASSUME NEW n \in SeriesSizes, NEW deadlineOf \in OptionalDate,
               Schedule!CreateSeries(n, deadlineOf)
        PROVE  Counting'
    <2>1. Schedule!Requested("create") /\ UNCHANGED deletion
      BY <1>3, Zenon DEF Schedule!CreateSeries
    <2>2. Schedule!TypeOK' /\ n \in Nat /\ Schedule!SeriesEvents(rows)' = 1 .. n /\ series'.total = n
      BY <1>1, <1>3, CreateSeriesEffect
    <2>3. n = Cardinality(1 .. n)
      BY <2>2, FS_Interval
    <2> QED BY <2>1, <2>2, <2>3, CountedPrimed, RequestCounting
  <1>4. ASSUME NEW d \in OptionalDate, Schedule!UpdateSeries(d) PROVE Counting'
    <2>1. Schedule!Requested("update_series") /\ UNCHANGED deletion
      BY <1>4 DEF Schedule!UpdateSeries
    <2> QED BY <1>1, <1>4, <2>1, UpdateSeriesEffect, SameSums, RequestCounting
  <1>5. ASSUME NEW e \in Schedule!Rows, NEW u \in Updates, Schedule!UpdateEvent(e, u) PROVE Counting'
    <2>1. Schedule!Requested("update") /\ UNCHANGED deletion
      BY <1>5 DEF Schedule!UpdateEvent
    <2> QED BY <1>1, <1>5, <2>1, UpdateEffect, SameSums, RequestCounting
  <1>6. ASSUME NEW i \in Schedule!Rows, Schedule!RestoreEvent(i) PROVE Counting'
    <2>1. Schedule!Requested("restore") /\ "restore" \in Operations
      BY <1>6 DEF Schedule!RestoreEvent, Schedule!Requested
    <2>2. CASE rows[i].inSeries
      <3> DEFINE S == Schedule!SeriesEvents(rows)
                 after == Schedule!SeriesEvents(rows)'
      <3>1. /\ series'.total = Cardinality(S)
            /\ after = S \/ (i \notin S /\ after = S \cup {i})
        BY <2>2, <1>1, <1>6, RestoreEffect
      <3>2. IsFiniteSet(S) /\ Cardinality(S) \in Nat
        BY RowsFinite, FS_CardinalityType DEF Schedule!SeriesEvents, Schedule!SeriesRows
      <3> HIDE DEF S
      <3>3. Cardinality(after) \in {Cardinality(S), Cardinality(S) + 1}
        BY <3>1, <3>2, FS_AddElement
      <3>4. Schedule!TotalAtMostOneShort'
        BY <3>1, <3>2, <3>3, ScheduleCardinality DEF Schedule!TotalAtMostOneShort
      <3> QED BY <3>4, <2>1, <1>1, <1>6, RestoreEffect, RequestCounting DEF Sums
    <2>3. CASE ~ rows[i].inSeries
      BY <2>1, <2>3, <1>1, <1>6, RestoreEffect, SameSums, RequestCounting
    <2> QED BY <2>2, <2>3
  <1>7. ASSUME NEW e \in Schedule!Rows, NEW present \in BOOLEAN, Schedule!SetPerformer(e, present)
        PROVE  Counting'
    <2>1. Schedule!Requested("performers")
      BY <1>7 DEF Schedule!SetPerformer
    <2>2. Schedule!SeriesEvents(rows') = Schedule!SeriesEvents(rows)
      BY <1>1, <1>7, PerformerEffect, SameSeriesEvents
    <2>3. Schedule!SeriesEvents(rows)' = Schedule!SeriesEvents(rows)
      BY <2>2 DEF Schedule!SeriesEvents, Schedule!SeriesRows
    <2> QED BY <1>1, <1>7, <2>1, <2>3, PerformerEffect, SameSums, RequestCounting
  <1>8. ASSUME UNCHANGED Schedule!vars PROVE Counting'
    BY <1>8 DEF Schedule!vars, Counting, Sums, Schedule!TypeOK, Schedule!TotalCounted,
                Schedule!TotalAtMostOneShort, OnePending, CountsLeft, Remaining, Schedule!Pending, Schedule!SeriesEvents, Schedule!SeriesRows
  <1> QED BY <1>2, <1>3, <1>4, <1>5, <1>6, <1>7, <1>8, DeleteCounting, CommitCounting
          DEF Schedule!Next, OptionalDate

LEMMA AlwaysCounting ==
  ASSUME Serial, Schedule!ConstantsAssumption
  PROVE  Schedule!Spec => []Counting
  <1>1. Schedule!Init => Counting
    BY InitCounting
  <1>2. Counting /\ [Schedule!Next]_(Schedule!vars) => Counting'
    BY NextCounting
  <1> QED BY <1>1, <1>2, PTL DEF Schedule!Spec

(* When requests are handled one after the other and nothing is restored,  *)
(* total_events, of which "x/n" is shown, is the number of events left in  *)
(* the series, whatever is created, moved and deleted with any scope.      *)
THEOREM TotalAlwaysCounted ==
  Schedule!ConstantsAssumption /\ Serial /\ "restore" \notin Operations /\ Schedule!Spec
    => []Schedule!TotalCounted
  <1> SUFFICES ASSUME Schedule!ConstantsAssumption, Serial, "restore" \notin Operations
               PROVE  Schedule!Spec => []Schedule!TotalCounted
    OBVIOUS
  <1>1. Counting => Schedule!TotalCounted
    BY DEF Counting, Sums
  <1> QED BY <1>1, AlwaysCounting, PTL

(* With restorations too, which write the number that was counted before   *)
(* the event came back, the total is never more than one short, however    *)
(* many events are restored.                                               *)
THEOREM TotalNeverMoreThanOneShort ==
  Schedule!ConstantsAssumption /\ Serial /\ Schedule!Spec => []Schedule!TotalAtMostOneShort
  <1> SUFFICES ASSUME Schedule!ConstantsAssumption, Serial
               PROVE  Schedule!Spec => []Schedule!TotalAtMostOneShort
    OBVIOUS
  <1>1. Counting => Schedule!TotalAtMostOneShort
    BY DEF Counting, Sums
  <1> QED BY <1>1, AlwaysCounting, PTL

-----------------------------------------------------------------------------
(* The deadline of owner is shown by one live entry on its day.            *)
Shown(rs, owner, d) ==
  IF d = Schedule!None THEN Schedule!Entries(rs, owner) = {}
  ELSE \E i \in Schedule!Rows : Schedule!Entries(rs, owner) = {i} /\ rs[i].date = d
AtMostOne(S) == S = {} \/ \E i \in S : S = {i}

(* An entry that is not of the series is that of an event outside it.      *)
EntriesSound(rs) ==
  /\ \A i \in Schedule!Rows : rs[i].kind = "free" => ~ rs[i].live
  /\ \A i \in Schedule!Rows : rs[i].kind = "entry" /\ rs[i].live /\ rs[i].parent # Schedule!None =>
       rs[rs[i].parent].kind = "event" /\ ~ rs[rs[i].parent].inSeries
StandAlone(rs, e) == rs[e].kind = "event" /\ rs[e].live /\ ~ rs[e].inSeries
AllShown(rs, d) ==
  /\ Schedule!SeriesEvents(rs) # {} => Shown(rs, Schedule!None, d)
  /\ \A e \in Schedule!Rows : StandAlone(rs, e) => Shown(rs, e, rs[e].deadline)

(* A deletion takes an entry only along with the last events of the        *)
(* series.                                                                 *)
TakesEntries(h) ==
  LET d == deletion[h]
  IN Schedule!Pending(h) =>
       \A i \in (d.ids \cup {d.entry}) \cap Schedule!Rows : rows[i].kind = "entry" =>
         rows[i].inSeries /\ (Remaining(d) = {} \/ Remaining(d) = {d.single})
Showing == /\ Counting /\ EntriesSound(rows) /\ AllShown(rows, series.deadline)
           /\ \A h \in Handlers : TakesEntries(h)

LEMMA AllShownMeans ==
  AllShown(rows, series.deadline) => Schedule!DeadlinesShown
  BY DEF AllShown, Shown, StandAlone, Schedule!DeadlinesShown, Schedule!SeriesDeadlineShown,
         Schedule!EventDeadlineShown, Schedule!ShownOnce, Schedule!LiveEvents

(* Rows of the same kinds and owners have the same entries.                *)
LEMMA SameEntries ==
  ASSUME NEW rs, NEW new, NEW owner,
         \A k \in Schedule!Rows :
           (rs[k].kind = "entry" \/ new[k].kind = "entry") =>
             /\ new[k].kind = rs[k].kind /\ new[k].live = rs[k].live
             /\ new[k].parent = rs[k].parent /\ new[k].inSeries = rs[k].inSeries
             /\ new[k].date = rs[k].date
  PROVE  /\ Schedule!Entries(new, owner) = Schedule!Entries(rs, owner)
         /\ \A d : Shown(new, owner, d) <=> Shown(rs, owner, d)
  <1>1. Schedule!Entries(new, owner) = Schedule!Entries(rs, owner)
    BY DEF Schedule!Entries
  <1>2. \A k \in Schedule!Entries(rs, owner) : new[k].date = rs[k].date
    BY DEF Schedule!Entries
  <1> QED BY <1>1, <1>2 DEF Shown

(* What synchronising, and a series that dissolves, do to the rows.        *)
Resynced(rs, owner, d, new) ==
  /\ rs \in Table /\ new \in Table /\ owner \in Owners /\ d \in OptionalDate
  /\ \/ Schedule!Entries(rs, owner) = {} /\ d = Schedule!None /\ new = rs
     \/ \E k \in Schedule!Rows : SyncedRow(rs, owner, d, new, k)

(* One row is written: the fields of it that matter.                       *)
LEMMA WrittenRow ==
  ASSUME Schedule!ConstantsAssumption, NEW rs, NEW owner, NEW d, NEW new,
         Resynced(rs, owner, d, new), NEW k \in Schedule!Rows, SyncedRow(rs, owner, d, new, k)
  PROVE  /\ \A i \in Schedule!Rows : i # k => new[i] = rs[i]
         /\ rs[k].kind # "event" /\ new[k].kind # "event"
         /\ new[k].kind = "free" => ~ new[k].live
         /\ \/ /\ Schedule!Entries(rs, owner) = {} /\ d # Schedule!None /\ rs[k].kind = "free"
               /\ new[k].kind = "entry" /\ new[k].live /\ new[k].parent = owner
               /\ new[k].inSeries = (owner = Schedule!None) /\ new[k].date = d
            \/ /\ k \in Schedule!Entries(rs, owner) /\ d = Schedule!None
               /\ new[k].kind = "free" /\ ~ new[k].live
            \/ /\ k \in Schedule!Entries(rs, owner) /\ d # Schedule!None
               /\ new[k].kind = "entry" /\ new[k].live /\ new[k].parent = owner
               /\ new[k].inSeries = rs[k].inSeries /\ new[k].date = d
  <1>1. \A i \in Schedule!Rows : i # k => new[i] = rs[i]
    BY DEF SyncedRow, Resynced, Table
  <1>2. rs[k] \in Schedule!Row /\ owner \in Owners /\ d \in OptionalDate
    BY DEF Resynced, Table
  <1>3. CASE /\ Schedule!Entries(rs, owner) = {} /\ d # Schedule!None
             /\ rs[k].kind = "free" /\ new[k] = Schedule!NewEntry(owner, d)
    BY <1>1, <1>2, <1>3, EntryFits
  <1>4. CASE /\ k \in Schedule!Entries(rs, owner) /\ d = Schedule!None
             /\ new[k] = Schedule!NoRow
    BY <1>1, <1>4, NoRowFits DEF Schedule!Entries
  <1>5. CASE /\ k \in Schedule!Entries(rs, owner) /\ d # Schedule!None
             /\ new[k] = [rs[k] EXCEPT !.date = d, !.location = FALSE]
    <2>1. /\ new[k].kind = rs[k].kind /\ new[k].live = rs[k].live /\ new[k].parent = rs[k].parent
          /\ new[k].inSeries = rs[k].inSeries /\ new[k].date = d
      BY <1>2, <1>5 DEF Schedule!Row
    <2>2. rs[k].kind = "entry" /\ rs[k].live /\ rs[k].parent = owner
      BY <1>5 DEF Schedule!Entries
    <2> QED BY <1>1, <1>5, <2>1, <2>2
  <1> QED BY <1>3, <1>4, <1>5 DEF SyncedRow

LEMMA ResyncedSound ==
  ASSUME Schedule!ConstantsAssumption, NEW rs, NEW owner, NEW d, NEW new,
         Resynced(rs, owner, d, new), EntriesSound(rs),
         owner # Schedule!None => rs[owner].kind = "event" /\ ~ rs[owner].inSeries
  PROVE  EntriesSound(new)
  <1>1. ASSUME NEW k \in Schedule!Rows, SyncedRow(rs, owner, d, new, k)
        PROVE  EntriesSound(new)
    <2>1. /\ \A i \in Schedule!Rows : i # k => new[i] = rs[i]
          /\ rs[k].kind # "event"
          /\ new[k].kind = "free" => ~ new[k].live
          /\ new[k].kind = "entry" => new[k].parent = owner
      BY <1>1, WrittenRow
    <2>2. ASSUME NEW i \in Schedule!Rows, new[i].kind = "free" PROVE ~ new[i].live
      BY <2>1, <2>2 DEF EntriesSound
    <2>3. ASSUME NEW i \in Schedule!Rows, new[i].kind = "entry", new[i].live,
                 new[i].parent # Schedule!None
          PROVE  new[new[i].parent].kind = "event" /\ ~ new[new[i].parent].inSeries
      <3> DEFINE p == new[i].parent
      <3>1. p \in Schedule!Rows
        <4>1. new[i] \in Schedule!Row
          BY DEF Resynced, Table
        <4> QED BY <4>1, <2>3 DEF Schedule!Row
      <3>2. rs[p].kind = "event" /\ ~ rs[p].inSeries
        <4>1. CASE i = k
          BY <4>1, <2>1, <2>3
        <4>2. CASE i # k
          BY <4>2, <2>1, <2>3 DEF EntriesSound
        <4> QED BY <4>1, <4>2
      <3>3. p # k
        BY <3>2, <2>1
      <3> QED BY <3>1, <3>2, <3>3, <2>1
    <2> QED BY <2>2, <2>3 DEF EntriesSound
  <1> QED BY <1>1 DEF Resynced

(* The owner is shown, where it did not have several entries before, and   *)
(* others as they were.                                                    *)
LEMMA ResyncedShown ==
  ASSUME Schedule!ConstantsAssumption, NEW rs, NEW owner, NEW d, NEW new,
         Resynced(rs, owner, d, new)
  PROVE  /\ AtMostOne(Schedule!Entries(rs, owner)) => Shown(new, owner, d)
         /\ \A o, dd : o # owner => (Shown(new, o, dd) <=> Shown(rs, o, dd))
  <1>1. ASSUME NEW k \in Schedule!Rows, SyncedRow(rs, owner, d, new, k)
        PROVE  /\ AtMostOne(Schedule!Entries(rs, owner)) => Shown(new, owner, d)
               /\ \A o, dd : o # owner => (Shown(new, o, dd) <=> Shown(rs, o, dd))
    <2>1. \A i \in Schedule!Rows : i # k => new[i] = rs[i]
      BY <1>1, WrittenRow
    <2>2. ASSUME NEW o, o # owner
          PROVE  \A dd : Shown(new, o, dd) <=> Shown(rs, o, dd)
      <3>1. k \notin Schedule!Entries(new, o) /\ k \notin Schedule!Entries(rs, o)
        <4>1. new[k].kind = "entry" => new[k].parent = owner
          BY <1>1, WrittenRow
        <4>2. rs[k].kind = "entry" => rs[k].parent = owner
          BY <1>1, WrittenRow DEF Schedule!Entries
        <4> QED BY <4>1, <4>2, <2>2 DEF Schedule!Entries
      <3>2. Schedule!Entries(new, o) = Schedule!Entries(rs, o)
        BY <3>1, <2>1 DEF Schedule!Entries
      <3>3. \A i \in Schedule!Entries(rs, o) : new[i] = rs[i]
        BY <3>1, <2>1 DEF Schedule!Entries
      <3> QED BY <3>2, <3>3 DEF Shown
    <2>3. ASSUME AtMostOne(Schedule!Entries(rs, owner)) PROVE Shown(new, owner, d)
      <3>1. ASSUME NEW i \in Schedule!Rows, i # k
            PROVE  i \in Schedule!Entries(new, owner) <=> i \in Schedule!Entries(rs, owner)
        BY <3>1, <2>1 DEF Schedule!Entries
      <3>2. \A i \in Schedule!Entries(rs, owner) : i \in Schedule!Rows
        BY DEF Schedule!Entries
      <3>3. \A i \in Schedule!Entries(new, owner) : i \in Schedule!Rows
        BY DEF Schedule!Entries
      <3>4. \A i \in Schedule!Entries(rs, owner) : i = k
        BY <1>1, <2>3 DEF SyncedRow, AtMostOne
      <3>5. Schedule!Entries(new, owner) \subseteq {k}
        BY <3>1, <3>3, <3>4
      <3>6. CASE d = Schedule!None
        <4>1. new[k].kind = "free"
          BY <1>1, <3>6, WrittenRow
        <4>2. k \notin Schedule!Entries(new, owner)
          BY <4>1 DEF Schedule!Entries
        <4> QED BY <4>2, <3>5, <3>6 DEF Shown
      <3>7. CASE d # Schedule!None
        <4>1. /\ new[k].kind = "entry" /\ new[k].live /\ new[k].parent = owner /\ new[k].date = d
              /\ \/ new[k].inSeries = (owner = Schedule!None)
                 \/ k \in Schedule!Entries(rs, owner) /\ new[k].inSeries = rs[k].inSeries
          BY <1>1, <3>7, WrittenRow
        <4>2. new[k].inSeries = (owner = Schedule!None)
          BY <4>1, Zenon DEF Schedule!Entries
        <4>3. k \in Schedule!Entries(new, owner)
          BY <4>1, <4>2 DEF Schedule!Entries
        <4> QED BY <4>1, <4>3, <3>5, <3>7 DEF Shown
      <3> QED BY <3>6, <3>7
    <2> QED BY <2>2, <2>3
  <1>2. CASE Schedule!Entries(rs, owner) = {} /\ d = Schedule!None /\ new = rs
    BY <1>2 DEF Shown
  <1> QED BY <1>1, <1>2 DEF Resynced

LEMMA ResyncedEvents ==
  ASSUME Schedule!ConstantsAssumption, NEW rs, NEW owner, NEW d, NEW new,
         Resynced(rs, owner, d, new)
  PROVE  /\ \A i \in Schedule!Rows :
              rs[i].kind = "event" \/ new[i].kind = "event" => new[i] = rs[i]
         /\ Schedule!SeriesEvents(new) = Schedule!SeriesEvents(rs)
  <1>1. \A i \in Schedule!Rows :
          rs[i].kind = "event" \/ new[i].kind = "event" => new[i] = rs[i]
    <2>1. ASSUME NEW k \in Schedule!Rows, SyncedRow(rs, owner, d, new, k)
          PROVE  <1>1
      <3>1. /\ \A i \in Schedule!Rows : i # k => new[i] = rs[i]
            /\ rs[k].kind # "event" /\ new[k].kind # "event"
        BY <2>1, WrittenRow
      <3> QED BY <3>1
    <2> QED BY <2>1 DEF Resynced
  <1> QED BY <1>1, SameSeriesEvents

LEMMA ShownAtMostOnce ==
  ASSUME NEW rs, NEW owner, NEW d, Shown(rs, owner, d)
  PROVE  AtMostOne(Schedule!Entries(rs, owner))
  BY DEF Shown, AtMostOne

LEMMA SyncedIsResynced ==
  ASSUME Schedule!ConstantsAssumption, NEW rs \in Table, NEW owner \in Owners,
         NEW d \in OptionalDate, NEW new \in Schedule!Synced(rs, owner, d),
         \E k \in Schedule!Rows : rs[k].kind = "free"
  PROVE  Resynced(rs, owner, d, new)
  BY SyncedShape DEF Resynced

(* Rows that differ in what no entry and no owner is about.                *)
Alike(rs) ==
  /\ rs \in Table
  /\ \A k \in Schedule!Rows :
       /\ rs[k].kind = rows[k].kind /\ rs[k].inSeries = rows[k].inSeries
       /\ rs[k].parent = rows[k].parent /\ rs[k].live = rows[k].live
       /\ rows[k].kind = "entry" => rs[k].date = rows[k].date

LEMMA AlikeShows ==
  ASSUME NEW rs, Alike(rs), EntriesSound(rows), Schedule!TypeOK
  PROVE  /\ EntriesSound(rs) /\ Schedule!SeriesEvents(rs) = Schedule!SeriesEvents(rows)
         /\ \A o, d : Shown(rs, o, d) <=> Shown(rows, o, d)
         /\ \A e \in Schedule!Rows : StandAlone(rs, e) <=> StandAlone(rows, e)
  <1>1. EntriesSound(rs)
    <2>1. ASSUME NEW i \in Schedule!Rows, rs[i].kind = "entry", rs[i].live,
                 rs[i].parent # Schedule!None
          PROVE  rs[rs[i].parent].kind = "event" /\ ~ rs[rs[i].parent].inSeries
      <3>1. rows[i].parent = rs[i].parent /\ rs[i].parent \in Schedule!Rows
        <4>1. rs[i] \in Schedule!Row /\ rows[i].parent = rs[i].parent
          BY DEF Alike, Table
        <4> QED BY <4>1, <2>1 DEF Schedule!Row
      <3>2. rows[rows[i].parent].kind = "event" /\ ~ rows[rows[i].parent].inSeries
        BY <3>1, <2>1 DEF EntriesSound, Alike
      <3> QED BY <3>1, <3>2 DEF Alike
    <2>2. \A i \in Schedule!Rows : rs[i].kind = "free" => ~ rs[i].live
      BY DEF EntriesSound, Alike
    <2> QED BY <2>1, <2>2 DEF EntriesSound
  <1>2. Schedule!SeriesEvents(rs) = Schedule!SeriesEvents(rows)
    BY SameSeriesEvents DEF Alike
  <1>3. \A o, d : Shown(rs, o, d) <=> Shown(rows, o, d)
    BY SameEntries DEF Alike
  <1>4. \A e \in Schedule!Rows : StandAlone(rs, e) <=> StandAlone(rows, e)
    BY DEF StandAlone, Alike
  <1> QED BY <1>1, <1>2, <1>3, <1>4

(* Under the hypotheses of the theorem a request leaves nothing pending.   *)
LEMMA RequestShows ==
  ASSUME Serial, NEW op, Schedule!Requested(op), UNCHANGED deletion,
         Counting', EntriesSound(rows'), AllShown(rows', series'.deadline)
  PROVE  Showing'
  <1>1. \A h \in Handlers : ~ Schedule!Pending(h)'
    BY DEF Schedule!Requested, Schedule!Pending
  <1>2. EntriesSound(rows)' /\ AllShown(rows, series.deadline)'
    BY DEF EntriesSound, AllShown, Shown, StandAlone, Schedule!Entries, Schedule!SeriesEvents,
           Schedule!SeriesRows
  <1> QED BY <1>1, <1>2 DEF Showing, TakesEntries

LEMMA CreateShows ==
  ASSUME Serial, Schedule!ConstantsAssumption, Showing, Counting', NEW d \in Schedule!Dates,
         NEW deadlineOf \in OptionalDate, Schedule!CreateEvent(d, deadlineOf)
  PROVE  Showing'
  <1> DEFINE i == Schedule!Fresh(rows)
             rs == [rows EXCEPT ![i] = Schedule!NewEvent(d, deadlineOf)]
  <1>1. Schedule!HasRoom(2) /\ Schedule!Requested("create") /\ UNCHANGED <<series, deletion>>
    BY DEF Schedule!CreateEvent
  <1>2. i \in Schedule!Rows /\ rows[i].kind = "free" /\ rows \in Table
    <2>1. \E k \in Schedule!Rows : rows[k].kind = "free"
      BY <1>1, RoomIsFree
    <2> QED BY <2>1, FreshIsFree DEF Showing, Counting, Schedule!TypeOK, Table
  <1>3. /\ rs \in Table /\ \A k \in Schedule!Rows : k # i => rs[k] = rows[k]
        /\ rs[i].kind = "event" /\ ~ rs[i].inSeries /\ rs[i].live /\ rs[i].deadline = deadlineOf
    BY <1>2, NewEventFits DEF Table, OptionalDate
  <1>4. \E k \in Schedule!Rows : rs[k].kind = "free"
    BY <1>1, <1>2, <1>3, RoomIsFree
  <1>5. rows' \in Schedule!Synced(rs, i, deadlineOf)
    BY DEF Schedule!CreateEvent
  <1> HIDE DEF i, rs
  <1>6. Resynced(rs, i, deadlineOf, rows')
    BY <1>2, <1>3, <1>4, <1>5, SyncedIsResynced DEF Owners
  <1>7. \A o : Schedule!Entries(rs, o) = Schedule!Entries(rows, o)
    BY <1>2, <1>3 DEF Schedule!Entries
  <1>8. \A o, dd : Shown(rs, o, dd) <=> Shown(rows, o, dd)
    <2>1. \A o : \A k \in Schedule!Entries(rows, o) : rs[k] = rows[k]
      BY <1>2, <1>3 DEF Schedule!Entries
    <2> QED BY <2>1, <1>7 DEF Shown
  <1>9. i # Schedule!None
    BY <1>2, RowsFinite DEF Schedule!None
  <1>10. Schedule!Entries(rs, i) = {}
    BY <1>2, <1>7, <1>9 DEF Schedule!Entries, Showing, EntriesSound
  <1>11. EntriesSound(rs)
    <2>1. ASSUME NEW k \in Schedule!Rows, rs[k].kind = "entry", rs[k].live,
                 rs[k].parent # Schedule!None
          PROVE  rs[rs[k].parent].kind = "event" /\ ~ rs[rs[k].parent].inSeries
      <3>1. k # i /\ rs[k] = rows[k] /\ rows[k] \in Schedule!Row
        BY <2>1, <1>2, <1>3 DEF Table
      <3>2. rows[rows[k].parent].kind = "event" /\ ~ rows[rows[k].parent].inSeries
        BY <2>1, <3>1 DEF Showing, EntriesSound
      <3>3. rows[k].parent \in Schedule!Rows /\ rows[k].parent # i
        BY <2>1, <3>1, <3>2, <1>2 DEF Schedule!Row
      <3> QED BY <3>1, <3>2, <3>3, <1>3
    <2>2. \A k \in Schedule!Rows : rs[k].kind = "free" => ~ rs[k].live
      BY <1>3 DEF Showing, EntriesSound
    <2> QED BY <2>1, <2>2 DEF EntriesSound
  <1>12. EntriesSound(rows')
    BY <1>3, <1>6, <1>11, ResyncedSound
  <1>13. /\ Shown(rows', i, deadlineOf)
         /\ \A o, dd : o # i => (Shown(rows', o, dd) <=> Shown(rows, o, dd))
    BY <1>6, <1>8, <1>10, ResyncedShown DEF AtMostOne
  <1>14. /\ \A k \in Schedule!Rows : rows'[k].kind = "event" => rows'[k] = rs[k]
         /\ Schedule!SeriesEvents(rows') = Schedule!SeriesEvents(rs)
    BY <1>6, ResyncedEvents
  <1>15. Schedule!SeriesEvents(rs) = Schedule!SeriesEvents(rows)
    BY <1>2, <1>3 DEF Schedule!SeriesEvents, Schedule!SeriesRows
  <1>16. rs[i].kind = "event" /\ rows'[i] = rs[i]
    BY <1>2, <1>3, <1>6, ResyncedEvents
  <1>17. ASSUME NEW e \in Schedule!Rows, StandAlone(rows', e)
         PROVE  Shown(rows', e, rows'[e].deadline)
    <2>1. CASE e = i
      BY <2>1, <1>3, <1>13, <1>16
    <2>2. CASE e # i
      <3>1. rows'[e] = rows[e]
        BY <2>2, <1>3, <1>14, <1>17 DEF StandAlone
      <3>2. Shown(rows, e, rows[e].deadline)
        BY <3>1, <1>17 DEF Showing, AllShown, StandAlone
      <3> QED BY <2>2, <3>1, <3>2, <1>13
    <2> QED BY <2>1, <2>2
  <1>18. AllShown(rows', series'.deadline)
    <2>1. Schedule!SeriesEvents(rows') # {} => Shown(rows', Schedule!None, series'.deadline)
      BY <1>1, <1>9, <1>13, <1>14, <1>15 DEF Showing, AllShown
    <2> QED BY <2>1, <1>17 DEF AllShown
  <1> QED BY <1>1, <1>12, <1>18, RequestShows

LEMMA CreateSeriesShows ==
  ASSUME Serial, Schedule!ConstantsAssumption, Showing, Counting', NEW n \in SeriesSizes,
         NEW deadlineOf \in OptionalDate, Schedule!CreateSeries(n, deadlineOf)
  PROVE  Showing'
  <1> DEFINE rs == NewSeriesRows(n, deadlineOf)
  <1>1. /\ rs \in Table
        /\ \A i \in Schedule!Rows : \/ rs[i].kind = "event" /\ rs[i].inSeries
                                    \/ rs[i].kind = "free" /\ ~ rs[i].live
        /\ \E k \in Schedule!Rows : rs[k].kind = "free"
    BY SeriesRowsFit
  <1>2. rows' \in Schedule!Synced(rs, Schedule!None, deadlineOf)
    BY SeriesRowsFit
  <1>3. /\ series'.deadline = deadlineOf
        /\ Schedule!Requested("create") /\ UNCHANGED deletion
    BY DEF Schedule!CreateSeries
  <1> HIDE DEF rs
  <1>4. Resynced(rs, Schedule!None, deadlineOf, rows')
    BY <1>1, <1>2, SyncedIsResynced DEF Owners
  <1>5. Schedule!Entries(rs, Schedule!None) = {}
    BY <1>1 DEF Schedule!Entries
  <1>6. EntriesSound(rs)
    BY <1>1 DEF EntriesSound
  <1>7. EntriesSound(rows') /\ Shown(rows', Schedule!None, deadlineOf)
    BY <1>4, <1>5, <1>6, ResyncedSound, ResyncedShown DEF AtMostOne
  <1>8. \A e \in Schedule!Rows : ~ StandAlone(rows', e)
    BY <1>1, <1>4, ResyncedEvents DEF StandAlone
  <1> QED BY <1>3, <1>7, <1>8, RequestShows DEF AllShown

LEMMA UpdateSeriesShows ==
  ASSUME Serial, Schedule!ConstantsAssumption, Showing, Counting', NEW d \in OptionalDate,
         Schedule!UpdateSeries(d)
  PROVE  Showing'
  <1> DEFINE rs == Schedule!WithDeadline(rows, Schedule!SeriesEvents(rows), d)
  <1>1. /\ rows' \in Schedule!Synced(rs, Schedule!None, d) /\ series'.deadline = d
        /\ Schedule!Requested("update_series") /\ UNCHANGED deletion /\ Schedule!HasRoom(1)
    BY DEF Schedule!UpdateSeries, Showing, Counting, Schedule!TypeOK, Schedule!Series
  <1>2. /\ Alike(rs)
        /\ \A k \in Schedule!Rows : ~ rows[k].inSeries => rs[k].deadline = rows[k].deadline
    <2>1. ASSUME NEW r \in Schedule!Row
          PROVE  LET new == [r EXCEPT !.deadline = d]
                 IN  /\ new \in Schedule!Row /\ new.kind = r.kind /\ new.inSeries = r.inSeries
                     /\ new.live = r.live /\ new.parent = r.parent /\ new.date = r.date
      BY DEF Schedule!Row, OptionalDate
    <2>2. \A k \in Schedule!SeriesEvents(rows) : rows[k].inSeries
      BY DEF Schedule!SeriesEvents, Schedule!SeriesRows
    <2>3. \A k \in Schedule!Rows : rows[k] \in Schedule!Row
      BY DEF Showing, Counting, Schedule!TypeOK
    <2>4. \A k \in Schedule!Rows : rs[k] = IF k \in Schedule!SeriesEvents(rows)
                                           THEN [rows[k] EXCEPT !.deadline = d] ELSE rows[k]
      BY DEF Schedule!WithDeadline
    <2>5. DOMAIN rs = Schedule!Rows /\ rs = [k \in Schedule!Rows |-> rs[k]]
      BY DEF Schedule!WithDeadline
    <2> HIDE DEF rs
    <2>6. ASSUME NEW k \in Schedule!Rows
          PROVE  /\ rs[k] \in Schedule!Row /\ rs[k].kind = rows[k].kind
                 /\ rs[k].inSeries = rows[k].inSeries /\ rs[k].parent = rows[k].parent
                 /\ rs[k].live = rows[k].live /\ rs[k].date = rows[k].date
                 /\ ~ rows[k].inSeries => rs[k].deadline = rows[k].deadline
      <3>1. CASE k \in Schedule!SeriesEvents(rows)
        <4>1. rs[k] = [rows[k] EXCEPT !.deadline = d] /\ rows[k] \in Schedule!Row
          BY <2>3, <2>4, <3>1
        <4>2. rows[k].inSeries
          BY <2>2, <3>1
        <4> QED BY <4>1, <4>2, <2>1
      <3>2. CASE k \notin Schedule!SeriesEvents(rows)
        BY <2>3, <2>4, <3>2
      <3> QED BY <3>1, <3>2
    <2>7. rs \in Table
      BY <2>5, <2>6 DEF Table
    <2> QED BY <2>6, <2>7 DEF Alike
  <1>3. \E k \in Schedule!Rows : rs[k].kind = "free"
    BY <1>1, <1>2, RoomIsFree DEF Alike
  <1> HIDE DEF rs
  <1>4. Resynced(rs, Schedule!None, d, rows')
    BY <1>1, <1>2, <1>3, SyncedIsResynced DEF Owners, Alike
  <1>5. /\ EntriesSound(rs) /\ Schedule!SeriesEvents(rs) = Schedule!SeriesEvents(rows)
        /\ \A o, dd : Shown(rs, o, dd) <=> Shown(rows, o, dd)
    BY <1>2, AlikeShows DEF Showing, Counting
  <1>6. EntriesSound(rows')
    BY <1>4, <1>5, ResyncedSound
  <1>7. Schedule!SeriesEvents(rows') # {} => Shown(rows', Schedule!None, d)
    <2>1. Schedule!SeriesEvents(rows') # {} => Shown(rs, Schedule!None, series.deadline)
      BY <1>4, <1>5, ResyncedEvents DEF Showing, AllShown
    <2> QED BY <2>1, <1>4, ShownAtMostOnce, ResyncedShown
  <1>8. ASSUME NEW e \in Schedule!Rows, StandAlone(rows', e)
        PROVE  Shown(rows', e, rows'[e].deadline)
    <2>1. rows'[e] = rs[e]
      BY <1>4, <1>8, ResyncedEvents DEF StandAlone
    <2>2. StandAlone(rows, e) /\ rs[e].deadline = rows[e].deadline
      BY <2>1, <1>2, <1>8 DEF StandAlone, Alike
    <2>3. Shown(rows, e, rows[e].deadline) /\ e # Schedule!None
      BY <2>2, RowsFinite DEF Showing, AllShown, Schedule!None
    <2> QED BY <2>1, <2>2, <2>3, <1>4, <1>5, ResyncedShown
  <1> QED BY <1>1, <1>6, <1>7, <1>8, RequestShows DEF AllShown

LEMMA UpdateShows ==
  ASSUME Serial, Schedule!ConstantsAssumption, Showing, Counting',
         NEW e \in Schedule!Rows, NEW u \in Updates, Schedule!UpdateEvent(e, u),
         u.date # Schedule!None => u.scope = "single"
  PROVE  Showing'
  <1> DEFINE rs == Schedule!Updated(e, u)
  <1>1. /\ Schedule!Requested("update") /\ UNCHANGED deletion /\ Schedule!HasRoom(1)
        /\ e \in Schedule!LiveEvents
        /\ \/ u.deadline = Schedule!Kept /\ rows' = rs /\ series' = series
           \/ /\ u.deadline # Schedule!Kept /\ rows[e].inSeries
              /\ rows' \in Schedule!Synced(rs, Schedule!None, u.deadline)
              /\ series' = [series EXCEPT !.deadline = u.deadline]
           \/ /\ u.deadline # Schedule!Kept /\ ~ rows[e].inSeries
              /\ rows' \in Schedule!Synced(rs, e, u.deadline)
              /\ series' = series
    BY DEF Schedule!UpdateEvent
  <1>2. /\ rs \in Table
        /\ \A i \in Schedule!Rows :
             /\ rs[i].kind = rows[i].kind /\ rs[i].inSeries = rows[i].inSeries
             /\ rs[i].parent = rows[i].parent /\ rs[i].live = rows[i].live
             /\ rs[i].date = DateUpdated(e, u, i)
             /\ rs[i].deadline = DeadlineUpdated(e, u, i)
    BY UpdatedEffect DEF Showing, Counting
  <1>3. e \in Schedule!Rows /\ rows[e].kind = "event" /\ rows[e].live
    BY <1>1 DEF Schedule!LiveEvents
  <1>4. \A i \in Schedule!Rows : rows[i].kind = "entry" => rs[i].date = rows[i].date
    <2>1. u.date # Schedule!None => Schedule!InScope(e, u.scope) = {e}
      BY DEF Schedule!InScope
    <2> QED BY <2>1, <1>2, <1>3 DEF DateUpdated
  <1>5. Alike(rs)
    BY <1>2, <1>4 DEF Alike
  <1>6. \E k \in Schedule!Rows : rs[k].kind = "free"
    BY <1>1, <1>2, RoomIsFree
  <1>7. u.deadline # Schedule!Kept => u.deadline \in OptionalDate
    BY DEF Schedule!ConstantsAssumption, Schedule!Update, OptionalDate
  <1> HIDE DEF rs
  <1>8. /\ EntriesSound(rs) /\ Schedule!SeriesEvents(rs) = Schedule!SeriesEvents(rows)
        /\ \A o, dd : Shown(rs, o, dd) <=> Shown(rows, o, dd)
        /\ \A k \in Schedule!Rows : StandAlone(rs, k) <=> StandAlone(rows, k)
    BY <1>5, AlikeShows DEF Showing, Counting
  <1>9. ASSUME NEW k \in Schedule!Rows, StandAlone(rs, k)
        PROVE  /\ Shown(rs, k, rows[k].deadline) /\ k # Schedule!None
               /\ rows[e].inSeries \/ k # e \/ u.deadline = Schedule!Kept
                    => rs[k].deadline = rows[k].deadline
               /\ k = e /\ u.deadline # Schedule!Kept => rs[k].deadline = u.deadline
    <2>1. StandAlone(rows, k)
      BY <1>8, <1>9
    <2>2. Shown(rows, k, rows[k].deadline) /\ k # Schedule!None
      BY <2>1, RowsFinite DEF Showing, AllShown, Schedule!None
    <2>3. rows[e].inSeries \/ k # e => k \notin Owned(e) \/ u.deadline = Schedule!Kept
      BY <2>1 DEF Owned, StandAlone, Schedule!SeriesRows
    <2>4. k = e => k \in Owned(e)
      BY <2>1 DEF Owned, StandAlone
    <2> QED BY <2>1, <2>2, <2>3, <2>4, <1>2, <1>8 DEF DeadlineUpdated, StandAlone
  <1>10. CASE u.deadline = Schedule!Kept /\ rows' = rs /\ series' = series
    <2>1. AllShown(rs, series.deadline)
      BY <1>8, <1>9, <1>10 DEF AllShown, Showing
    <2> QED BY <2>1, <1>1, <1>8, <1>10, RequestShows
  <1>11. CASE /\ u.deadline # Schedule!Kept /\ rows[e].inSeries
              /\ rows' \in Schedule!Synced(rs, Schedule!None, u.deadline)
              /\ series' = [series EXCEPT !.deadline = u.deadline]
    <2>1. Resynced(rs, Schedule!None, u.deadline, rows')
      BY <1>2, <1>6, <1>7, <1>11, SyncedIsResynced DEF Owners
    <2>2. series'.deadline = u.deadline
      BY <1>11 DEF Showing, Counting, Schedule!TypeOK, Schedule!Series
    <2>3. EntriesSound(rows')
      BY <2>1, <1>8, ResyncedSound
    <2>4. Schedule!SeriesEvents(rows') # {} => Shown(rows', Schedule!None, u.deadline)
      <3>1. Schedule!SeriesEvents(rows') # {} => Shown(rs, Schedule!None, series.deadline)
        BY <2>1, <1>8, ResyncedEvents DEF Showing, AllShown
      <3> QED BY <3>1, <2>1, ShownAtMostOnce, ResyncedShown
    <2>5. ASSUME NEW k \in Schedule!Rows, StandAlone(rows', k)
          PROVE  Shown(rows', k, rows'[k].deadline)
      <3>1. rows'[k] = rs[k] /\ StandAlone(rs, k)
        BY <2>1, <2>5, ResyncedEvents DEF StandAlone
      <3> QED BY <3>1, <2>1, <1>9, <1>11, ResyncedShown
    <2> QED BY <2>2, <2>3, <2>4, <2>5, <1>1, RequestShows DEF AllShown
  <1>12. CASE /\ u.deadline # Schedule!Kept /\ ~ rows[e].inSeries
              /\ rows' \in Schedule!Synced(rs, e, u.deadline)
              /\ series' = series
    <2>1. Resynced(rs, e, u.deadline, rows')
      BY <1>2, <1>6, <1>7, <1>12, SyncedIsResynced DEF Owners
    <2>2. StandAlone(rs, e)
      BY <1>2, <1>3, <1>12 DEF StandAlone
    <2>3. EntriesSound(rows')
      BY <2>1, <2>2, <1>8, ResyncedSound DEF StandAlone
    <2>4. Schedule!SeriesEvents(rows') # {} => Shown(rows', Schedule!None, series.deadline)
      <3>1. e # Schedule!None
        BY RowsFinite DEF Schedule!None
      <3>2. Schedule!SeriesEvents(rows') # {} => Shown(rs, Schedule!None, series.deadline)
        BY <2>1, <1>8, ResyncedEvents DEF Showing, AllShown
      <3> QED BY <3>1, <3>2, <2>1, ResyncedShown
    <2>5. Shown(rows', e, u.deadline)
      BY <2>1, <2>2, <1>9, ShownAtMostOnce, ResyncedShown
    <2>6. ASSUME NEW k \in Schedule!Rows, StandAlone(rows', k)
          PROVE  Shown(rows', k, rows'[k].deadline)
      <3>1. rows'[k] = rs[k] /\ StandAlone(rs, k)
        BY <2>1, <2>6, ResyncedEvents DEF StandAlone
      <3>2. CASE k = e
        BY <3>1, <3>2, <2>5, <1>9, <1>12
      <3>3. CASE k # e
        BY <3>1, <3>3, <2>1, <1>9, ResyncedShown
      <3> QED BY <3>2, <3>3
    <2> QED BY <2>3, <2>4, <2>6, <1>1, <1>12, RequestShows DEF AllShown
  <1> QED BY <1>1, <1>10, <1>11, <1>12

LEMMA PerformerShows ==
  ASSUME Serial, Schedule!ConstantsAssumption, Showing, Counting', NEW e \in Schedule!Rows,
         NEW present \in BOOLEAN, Schedule!SetPerformer(e, present)
  PROVE  Showing'
  <1>1. Schedule!Requested("performers")
    BY DEF Schedule!SetPerformer
  <1>2. /\ Alike(rows') /\ UNCHANGED <<series, deletion>>
        /\ \A i \in Schedule!Rows : rows'[i].deadline = rows[i].deadline
    BY PerformerEffect DEF Showing, Counting, Alike, Schedule!TypeOK, Table
  <1>3. /\ EntriesSound(rows') /\ Schedule!SeriesEvents(rows') = Schedule!SeriesEvents(rows)
        /\ \A o, dd : Shown(rows', o, dd) <=> Shown(rows, o, dd)
        /\ \A k \in Schedule!Rows : StandAlone(rows', k) <=> StandAlone(rows, k)
    BY <1>2, AlikeShows DEF Showing, Counting
  <1>4. AllShown(rows', series'.deadline)
    BY <1>2, <1>3 DEF Showing, AllShown
  <1> QED BY <1>1, <1>2, <1>3, <1>4, RequestShows

LEMMA DeleteShows ==
  ASSUME Schedule!ConstantsAssumption, "this_and_future" \notin Scopes, Showing, Counting',
         NEW e \in Schedule!Rows, NEW h \in Handlers, NEW scope \in Scopes,
         Schedule!DeleteEvent(h, e, scope), Serial
  PROVE  Showing'
  <1> DEFINE d == deletion'[h]
  <1>1. /\ UNCHANGED <<rows, series>> /\ e \in Schedule!LiveEvents /\ DeletedBy(h, e, scope)
    BY DeleteEffect DEF Showing, Counting
  <1>2. /\ d.ids = Schedule!InScope(e, scope)
        /\ Remaining(d) = Schedule!SeriesEvents(rows) \ Schedule!InScope(e, scope)
        /\ \/ d.entry = Schedule!None
           \/ /\ d.entry \in Schedule!Entries(rows, Schedule!None)
              /\ Remaining(d) = {} \/ Remaining(d) = {d.single}
    BY <1>1 DEF DeletedBy, Remaining
  <1>3. \A k \in Handlers : k # h => ~ Schedule!Pending(k)'
    <2>1. \A k \in Handlers : ~ Schedule!Pending(k)
      BY DEF Schedule!DeleteEvent, Schedule!Requested
    <2>2. \A k \in Handlers : k # h => deletion'[k] = deletion[k]
      BY <1>1 DEF DeletedBy, Showing, Counting, Schedule!TypeOK
    <2> QED BY <2>1, <2>2 DEF Schedule!Pending
  <1>4. ASSUME NEW i \in Schedule!InScope(e, scope), rows[i].kind = "entry"
        PROVE  rows[i].inSeries /\ Remaining(d) = {}
    <2>1. rows[e].kind = "event" /\ i # e
      BY <1>1, <1>4 DEF Schedule!LiveEvents
    <2>2. rows[e].inSeries /\ scope # "single"
      BY <2>1, <1>4 DEF Schedule!InScope
    <2>3. scope = "all"
      BY <2>2 DEF Schedule!ConstantsAssumption, Schedule!AllScopes
    <2>4. Schedule!InScope(e, scope) = Schedule!SeriesRows(rows)
      BY <2>2, <2>3 DEF Schedule!InScope, Schedule!SeriesRows
    <2> QED BY <2>4, <1>2, <1>4 DEF Schedule!SeriesEvents, Schedule!SeriesRows
  <1>5. ASSUME NEW i \in Schedule!Rows, i = d.entry
        PROVE  rows[i].inSeries /\ (Remaining(d) = {} \/ Remaining(d) = {d.single})
    <2>1. i # Schedule!None
      BY RowsFinite DEF Schedule!None
    <2> QED BY <2>1, <1>2, <1>5 DEF Schedule!Entries
  <1>6. \A i \in (d.ids \cup {d.entry}) \cap Schedule!Rows : rows[i].kind = "entry" =>
          rows[i].inSeries /\ (Remaining(d) = {} \/ Remaining(d) = {d.single})
    BY <1>2, <1>4, <1>5
  <1>7. \A k \in Handlers : TakesEntries(k)'
    BY <1>1, <1>3, <1>6 DEF TakesEntries, Remaining, Schedule!SeriesEvents, Schedule!SeriesRows
  <1>8. EntriesSound(rows)' /\ AllShown(rows, series.deadline)'
    BY <1>1 DEF Showing, EntriesSound, AllShown, Shown, StandAlone, Schedule!Entries,
           Schedule!SeriesEvents, Schedule!SeriesRows
  <1> QED BY <1>7, <1>8 DEF Showing

LEMMA CommitShows ==
  ASSUME Schedule!ConstantsAssumption, Showing, Counting', NEW h \in Handlers,
         Schedule!CommitDeletion(h)
  PROVE  Showing'
  <1> DEFINE d == deletion[h]
             deadlineOf == rows[d.single].deadline
  <1>1. /\ Schedule!Pending(h)
        /\ deletion' = [deletion EXCEPT ![h] = Schedule!NoDeletion]
        /\ series'.deadline = series.deadline
    BY CommitEffect DEF Showing, Counting
  <1>2. PICK alone :
          /\ Left(d, alone)
          /\ \/ d.single = Schedule!None /\ rows' = alone
             \/ /\ d.single # Schedule!None /\ deadlineOf = Schedule!None
                /\ rows' = alone
             \/ /\ d.single # Schedule!None /\ deadlineOf # Schedule!None
                /\ \E k \in Schedule!Rows :
                     /\ alone[k].kind = "free"
                     /\ rows' = [alone EXCEPT ![k] = rows'[k]]
                     /\ rows'[k] = Schedule!NewEntry(d.single, deadlineOf)
    BY CommitEffect DEF Showing, Counting
  <1>3. /\ rows \in Table /\ d \in Schedule!Deletion /\ alone \in Table
        /\ OnePending /\ CountsLeft(h) /\ TakesEntries(h) /\ EntriesSound(rows)
        /\ AllShown(rows, series.deadline)
    BY <1>2 DEF Showing, Counting, Schedule!TypeOK, Table, Left
  <1>4. ASSUME NEW k \in Schedule!Rows
        PROVE  /\ alone[k].kind = rows[k].kind /\ alone[k].parent = rows[k].parent
               /\ alone[k].date = rows[k].date /\ alone[k].deadline = rows[k].deadline
               /\ k \in d.ids \cup {d.entry} => ~ alone[k].live
               /\ k \notin d.ids \cup {d.entry} => alone[k].live = rows[k].live
               /\ k = d.single => ~ alone[k].inSeries
               /\ k # d.single => alone[k].inSeries = rows[k].inSeries
               /\ alone[k].live => rows[k].live
    BY <1>2, Zenon DEF Left
  <1>5. d.single # Schedule!None =>
          /\ d.single \in Schedule!Rows /\ Remaining(d) = {d.single}
          /\ rows[d.single].kind = "event" /\ rows[d.single].inSeries
          /\ deadlineOf \in OptionalDate
    <2>1. d.single # Schedule!None => d.single \in Schedule!Rows
      BY <1>3 DEF Schedule!Deletion
    <2>2. d.single # Schedule!None => Remaining(d) = {d.single}
      BY <1>1, <1>3 DEF CountsLeft
    <2>3. d.single # Schedule!None => d.single \in Schedule!SeriesEvents(rows)
      BY <2>2 DEF Remaining
    <2>4. d.single # Schedule!None => deadlineOf \in OptionalDate
      BY <2>1, <1>3 DEF Table, Schedule!Row, OptionalDate
    <2> QED BY <2>1, <2>2, <2>3, <2>4 DEF Schedule!SeriesEvents, Schedule!SeriesRows
  <1>6. EntriesSound(alone)
    <2>1. ASSUME NEW k \in Schedule!Rows, alone[k].kind = "entry", alone[k].live,
                 alone[k].parent # Schedule!None
          PROVE  alone[alone[k].parent].kind = "event" /\ ~ alone[alone[k].parent].inSeries
      <3>1. /\ rows[k].kind = "entry" /\ rows[k].live /\ rows[k].parent # Schedule!None
            /\ rows[k].parent = alone[k].parent /\ rows[k] \in Schedule!Row
        BY <2>1, <1>3, <1>4 DEF Table
      <3>2. rows[rows[k].parent].kind = "event" /\ ~ rows[rows[k].parent].inSeries
        BY <3>1, <1>3 DEF EntriesSound
      <3>3. rows[k].parent \in Schedule!Rows
        BY <3>1 DEF Schedule!Row
      <3> QED BY <3>1, <3>2, <3>3, <1>4
    <2>2. ASSUME NEW k \in Schedule!Rows, alone[k].kind = "free" PROVE ~ alone[k].live
      BY <2>2, <1>3, <1>4 DEF EntriesSound
    <2> QED BY <2>1, <2>2 DEF EntriesSound
  <1>7. ASSUME NEW k \in Schedule!Rows, rows[k].kind = "entry" PROVE k # d.single
    BY <1>5, <1>7, RowsFinite DEF Schedule!None
  <1>8. ASSUME NEW o \in Schedule!Rows
        PROVE  \A dd : Shown(alone, o, dd) <=> Shown(rows, o, dd)
    <2>1. ASSUME NEW k \in Schedule!Entries(rows, o) PROVE k \in Schedule!Entries(alone, o)
      <3>1. /\ k \in Schedule!Rows /\ rows[k].kind = "entry" /\ rows[k].live /\ rows[k].parent = o
            /\ rows[k].inSeries = (o = Schedule!None)
        BY <2>1, Zenon DEF Schedule!Entries
      <3>2. o # Schedule!None
        BY RowsFinite DEF Schedule!None
      <3>3. ~ rows[k].inSeries
        BY <3>1, <3>2
      <3>4. k \notin d.ids \cup {d.entry}
        BY <3>1, <3>3, <1>1, <1>3 DEF TakesEntries
      <3>5. alone[k].inSeries = rows[k].inSeries /\ alone[k].live = rows[k].live
        BY <3>1, <3>4, <1>4, <1>7
      <3> QED BY <3>1, <3>2, <3>3, <3>5, <1>4 DEF Schedule!Entries
    <2>2. ASSUME NEW k \in Schedule!Entries(alone, o) PROVE k \in Schedule!Entries(rows, o)
      <3>1. k \in Schedule!Rows /\ rows[k].kind = "entry" /\ rows[k].live /\ rows[k].parent = o
        BY <2>2, <1>4 DEF Schedule!Entries
      <3>2. alone[k].inSeries = rows[k].inSeries
        BY <3>1, <1>4, <1>7
      <3> QED BY <3>1, <3>2, <2>2 DEF Schedule!Entries
    <2>3. Schedule!Entries(alone, o) = Schedule!Entries(rows, o)
      BY <2>1, <2>2
    <2>4. \A k \in Schedule!Entries(rows, o) : alone[k].date = rows[k].date
      BY <1>4 DEF Schedule!Entries
    <2> QED BY <2>3, <2>4 DEF Shown
  <1>9. Schedule!SeriesEvents(alone) = Remaining(d) \ {d.single}
    BY <1>1, <1>2, LeftEvents DEF Showing
  <1>10. Schedule!SeriesEvents(alone) # {} => Shown(alone, Schedule!None, series.deadline)
    <2> SUFFICES ASSUME Schedule!SeriesEvents(alone) # {}
                 PROVE  Shown(alone, Schedule!None, series.deadline)
      OBVIOUS
    <2>1. Remaining(d) # {} /\ Remaining(d) # {d.single}
      BY <1>9
    <2>2. Shown(rows, Schedule!None, series.deadline)
      BY <2>1, <1>3 DEF AllShown, Remaining
    <2>3. ASSUME NEW k \in Schedule!Rows, rows[k].kind = "entry"
          PROVE  k \notin d.ids \cup {d.entry}
      BY <2>1, <2>3, <1>1, <1>3 DEF TakesEntries
    <2>4. ASSUME NEW k \in Schedule!Rows, rows[k].kind = "entry" \/ alone[k].kind = "entry"
          PROVE  /\ alone[k].kind = rows[k].kind /\ alone[k].live = rows[k].live
                 /\ alone[k].parent = rows[k].parent /\ alone[k].inSeries = rows[k].inSeries
                 /\ alone[k].date = rows[k].date
      BY <2>3, <2>4, <1>4, <1>7
    <2> QED BY <2>2, <2>4, SameEntries
  <1>11. ASSUME NEW e \in Schedule!Rows, StandAlone(alone, e)
         PROVE  e = d.single \/ Shown(alone, e, alone[e].deadline)
    <2>1. e # d.single => StandAlone(rows, e)
      BY <1>4, <1>11 DEF StandAlone
    <2> QED BY <2>1, <1>3, <1>4, <1>8 DEF AllShown
  <1>12. EntriesSound(rows') /\ AllShown(rows', series'.deadline)
    <2>1. CASE d.single = Schedule!None
      <3>1. rows' = alone /\ \A e \in Schedule!Rows : e # d.single
        BY <2>1, <1>2, RowsFinite DEF Schedule!None
      <3> QED BY <3>1, <1>1, <1>6, <1>10, <1>11 DEF AllShown
    <2>2. CASE d.single # Schedule!None
      <3>1. Schedule!Entries(alone, d.single) = {}
        <4>1. Schedule!Entries(rows, d.single) = {}
          BY <2>2, <1>3, <1>5 DEF Schedule!Entries, EntriesSound
        <4>2. Shown(rows, d.single, Schedule!None)
          BY <4>1 DEF Shown
        <4> QED BY <4>2, <2>2, <1>5, <1>8 DEF Shown
      <3>2. rows' \in Table
        BY DEF Counting, Schedule!TypeOK, Table
      <3>3. d.single \in Owners /\ deadlineOf \in OptionalDate
        BY <2>2, <1>5 DEF Owners
      <3>4. Resynced(alone, d.single, deadlineOf, rows')
        <4>1. CASE deadlineOf = Schedule!None
          BY <4>1, <2>2, <3>1, <3>2, <3>3, <1>2, <1>3 DEF Resynced
        <4>2. CASE deadlineOf # Schedule!None
          BY <4>2, <2>2, <3>1, <3>2, <3>3, <1>2, <1>3 DEF Resynced, SyncedRow
        <4> QED BY <4>1, <4>2
      <3>5. alone[d.single].kind = "event" /\ ~ alone[d.single].inSeries
            /\ alone[d.single].deadline = deadlineOf
        BY <2>2, <1>4, <1>5
      <3>6. EntriesSound(rows')
        BY <3>4, <3>5, <1>6, ResyncedSound
      <3>7. Shown(rows', d.single, deadlineOf)
        BY <3>1, <3>4, ResyncedShown DEF AtMostOne
      <3>8. Schedule!SeriesEvents(rows') = {}
        BY <2>2, <3>4, <1>5, <1>9, ResyncedEvents
      <3>9. ASSUME NEW e \in Schedule!Rows, StandAlone(rows', e)
            PROVE  Shown(rows', e, rows'[e].deadline)
        <4>1. rows'[e] = alone[e] /\ StandAlone(alone, e)
          BY <3>4, <3>9, ResyncedEvents DEF StandAlone
        <4>2. CASE e = d.single
          BY <4>1, <4>2, <3>5, <3>7
        <4>3. CASE e # d.single
          BY <4>1, <4>3, <3>4, <1>11, ResyncedShown
        <4> QED BY <4>2, <4>3
      <3> QED BY <3>6, <3>8, <3>9 DEF AllShown
    <2> QED BY <2>1, <2>2
  <1>13. \A k \in Handlers : ~ Schedule!Pending(k)'
    <2>1. ~ Schedule!Pending(h)'
      BY <1>1 DEF Schedule!Pending, Showing, Counting, Schedule!TypeOK
    <2>2. \A k \in Handlers : k # h => ~ Schedule!Pending(k) /\ deletion'[k] = deletion[k]
      BY <1>1, <1>3 DEF OnePending, Showing, Counting, Schedule!TypeOK
    <2> QED BY <2>1, <2>2 DEF Schedule!Pending
  <1>14. EntriesSound(rows)' /\ AllShown(rows, series.deadline)'
    BY <1>12 DEF EntriesSound, AllShown, Shown, StandAlone, Schedule!Entries, Schedule!SeriesEvents,
           Schedule!SeriesRows
  <1> QED BY <1>13, <1>14 DEF Showing, TakesEntries

LEMMA InitShowing ==
  ASSUME Schedule!ConstantsAssumption, Schedule!Init
  PROVE  Showing
  <1>1. Counting
    BY InitCounting
  <1>2. \A i \in Schedule!Rows : rows[i].kind = "free" /\ ~ rows[i].live
    BY NoRowFits DEF Schedule!Init
  <1>3. EntriesSound(rows) /\ AllShown(rows, series.deadline)
    BY <1>2 DEF EntriesSound, AllShown, StandAlone, Schedule!SeriesEvents, Schedule!SeriesRows
  <1>4. \A h \in Handlers : ~ Schedule!Pending(h)
    BY DEF Schedule!Init, Schedule!Pending
  <1> QED BY <1>1, <1>3, <1>4 DEF Showing, TakesEntries

(* Requests that do not leave entries behind on their own: nothing is      *)
(* restored, deletions and updates of dates do not reach part of a series. *)
EntriesFollow ==
  /\ "restore" \notin Operations /\ "this_and_future" \notin Scopes
  /\ \A u \in Updates : u.date # Schedule!None => u.scope = "single"

LEMMA NextShowing ==
  ASSUME Serial, EntriesFollow, Schedule!ConstantsAssumption, Showing,
         [Schedule!Next]_(Schedule!vars)
  PROVE  Showing'
  <1>1. Counting'
    BY NextCounting DEF Showing
  <1>2. \A i \in Schedule!Rows : ~ Schedule!RestoreEvent(i)
    BY DEF EntriesFollow, Schedule!RestoreEvent, Schedule!Requested
  <1>3. ASSUME NEW e \in Schedule!Rows, NEW u \in Updates, Schedule!UpdateEvent(e, u)
        PROVE  Showing'
    BY <1>1, <1>3, UpdateShows DEF EntriesFollow
  <1>4. ASSUME UNCHANGED Schedule!vars PROVE Showing'
    BY <1>1, <1>4 DEF Schedule!vars, Showing, EntriesSound, AllShown, Shown, StandAlone, Schedule!Entries,
          TakesEntries, Remaining, Schedule!Pending, Schedule!SeriesEvents, Schedule!SeriesRows
  <1>5. ASSUME NEW e \in Schedule!Rows, NEW h \in Handlers, NEW scope \in Scopes,
               Schedule!DeleteEvent(h, e, scope)
        PROVE  Showing'
    BY <1>1, <1>5, DeleteShows DEF EntriesFollow
  <1> QED BY <1>1, <1>2, <1>3, <1>4, <1>5, CreateShows, CreateSeriesShows, UpdateSeriesShows,
             PerformerShows, CommitShows
          DEF Schedule!Next, OptionalDate

(* When requests are handled one after the other, every deadline, of a     *)
(* series or of an event of its own, is shown by one entry on its day, as  *)
(* long as nothing is restored, no deletion reaches only the later events  *)
(* of a series, and a date is moved for one event at a time.               *)
THEOREM DeadlinesAlwaysShown ==
  Schedule!ConstantsAssumption /\ Serial /\ EntriesFollow /\ Schedule!Spec
    => []Schedule!DeadlinesShown
  <1> SUFFICES ASSUME Schedule!ConstantsAssumption, Serial, EntriesFollow
               PROVE  Schedule!Spec => []Schedule!DeadlinesShown
    OBVIOUS
  <1>1. Schedule!Init => Showing
    BY InitShowing
  <1>2. Showing /\ [Schedule!Next]_(Schedule!vars) => Showing'
    BY NextShowing
  <1>3. Showing => Schedule!DeadlinesShown
    BY AllShownMeans DEF Showing
  <1> QED BY <1>1, <1>2, <1>3, PTL DEF Schedule!Spec

-----------------------------------------------------------------------------
(* What is stored of the calendar is well-formed, however many deletions   *)
(* are under way.                                                          *)
LEMMA NextFits ==
  ASSUME Schedule!ConstantsAssumption, Schedule!TypeOK, [Schedule!Next]_(Schedule!vars)
  PROVE  Schedule!TypeOK'
  <1>1. ASSUME UNCHANGED Schedule!vars PROVE Schedule!TypeOK'
    BY <1>1 DEF Schedule!vars, Schedule!TypeOK
  <1> QED BY <1>1, CreateEffect, CreateSeriesEffect, UpdateSeriesEffect, UpdateEffect, DeleteEffect,
             CommitEffect, PerformerEffect, RestoreEffect
          DEF Schedule!Next, OptionalDate

(* Rows, series and the deletion under way keep their types, for any       *)
(* number of rows and dates, and however requests overlap.                 *)
THEOREM EventsTypeCorrect ==
  Schedule!ConstantsAssumption /\ Schedule!Spec => []Schedule!TypeOK
  <1> SUFFICES ASSUME Schedule!ConstantsAssumption
               PROVE  Schedule!Spec => []Schedule!TypeOK
    OBVIOUS
  <1>1. Schedule!Init => Schedule!TypeOK
    BY InitCounting DEF Counting
  <1>2. Schedule!TypeOK /\ [Schedule!Next]_(Schedule!vars) => Schedule!TypeOK'
    BY NextFits
  <1> QED BY <1>1, <1>2, PTL DEF Schedule!Spec

(* An update whose status changes nothing about an event leaves what is    *)
(* recorded of its attendance.                                             *)
OneStatusAtATime == \A u \in Updates : u.status = Schedule!Unset \/ u.scope = "single"

LEMMA UpdateKeepsAttendance ==
  ASSUME Schedule!ConstantsAssumption, OneStatusAtATime, Schedule!TypeOK
  PROVE  Schedule!KeepsAttendance
  <1> SUFFICES ASSUME NEW u \in Updates, NEW e \in Schedule!Rows, NEW i \in Schedule!LiveEvents,
                      u.attendance = Schedule!Unset, Schedule!UpdateEvent(e, u),
                      rows'[i].status = rows[i].status
               PROVE  rows'[i].attendance = rows[i].attendance
    BY DEF Schedule!KeepsAttendance
  <1>1. i \in Schedule!Rows /\ rows[i].kind = "event"
    BY DEF Schedule!LiveEvents
  <1>2. rows'[i] = Schedule!Updated(e, u)[i]
    BY <1>1, UpdateEffect
  <1>3. /\ rows'[i].attendance = AttendanceUpdated(e, u, i)
        /\ rows'[i].status = StatusUpdated(e, u, i)
    BY <1>1, <1>2, UpdatedEffect
  <1>4. CASE i \notin Schedule!InScope(e, u.scope)
    BY <1>3, <1>4 DEF AttendanceUpdated
  <1>5. CASE i \in Schedule!InScope(e, u.scope)
    <2> DEFINE S == Schedule!InScope(e, u.scope)
    <2>1. \A k \in S : ~ Schedule!Switches(k, u)
      <3>1. CASE u.status = Schedule!Unset
        BY <3>1 DEF Schedule!Switches
      <3>2. CASE u.status # Schedule!Unset
        <4>1. S = {e}
          BY <3>2 DEF OneStatusAtATime, Schedule!InScope
        <4>2. i = e /\ u.status = rows[e].status
          BY <4>1, <3>2, <1>3, <1>5 DEF StatusUpdated
        <4> QED BY <4>1, <4>2 DEF Schedule!Switches
      <3> QED BY <3>1, <3>2
    <2>2. Schedule!AttendanceAfter(i, S, u) = rows[i].attendance
      BY <2>1, Zenon DEF Schedule!AttendanceAfter
    <2> QED BY <2>2, <1>3, <1>5 DEF AttendanceUpdated
  <1> QED BY <1>4, <1>5

(* What a user recorded as attended stays so while the status of the event *)
(* does not change, as long as a status is set for one event at a time.    *)
THEOREM AttendanceAlwaysKept ==
  Schedule!ConstantsAssumption /\ OneStatusAtATime /\ Schedule!Spec => Schedule!AttendanceKept
  <1> SUFFICES ASSUME Schedule!ConstantsAssumption, OneStatusAtATime
               PROVE  Schedule!Spec => Schedule!AttendanceKept
    OBVIOUS
  <1>1. Schedule!Spec => []Schedule!TypeOK
    BY EventsTypeCorrect
  <1>2. Schedule!TypeOK => Schedule!KeepsAttendance
    BY UpdateKeepsAttendance
  <1>3. Schedule!TypeOK => [Schedule!KeepsAttendance]_(Schedule!vars)
    BY <1>2
  <1> QED BY <1>1, <1>3, PTL DEF Schedule!Spec, Schedule!AttendanceKept

-----------------------------------------------------------------------------
(* Conflicts: the groups of events that clash, and what is told of them.   *)
CONSTANTS Places, NoPlace, Miles, Plans, Rules, Margin
VARIABLES event, told, notices

Clashes == INSTANCE Conflicts

(* A function on the subsets of a finite set is defined by taking an       *)
(* element away: the least relation closed under the steps is a function.  *)
Peels(S, V, base, pick, step, g) ==
  /\ g \in [SUBSET S -> V]
  /\ \A N \in SUBSET S : g[N] = IF N = {} THEN base ELSE step[N][g[N \ {pick[N]}]]

LEMMA Peeling ==
  ASSUME NEW S, IsFiniteSet(S), NEW V, NEW base \in V, NEW pick, NEW step,
         \A N \in SUBSET S : N # {} => pick[N] \in N,
         \A N \in SUBSET S, v \in V : N # {} => step[N][v] \in V
  PROVE  \E g : Peels(S, V, base, pick, step, g)
  <1> DEFINE All == (SUBSET S) \X V
             Closed(R) == /\ <<{}, base>> \in R
                          /\ \A N \in SUBSET S, v \in V :
                               N # {} /\ <<N \ {pick[N]}, v>> \in R => <<N, step[N][v]>> \in R
             M == {x \in All : \A R \in SUBSET All : Closed(R) => x \in R}
  <1>1. M \in SUBSET All /\ Closed(M)
    <2>1. <<{}, base>> \in M
      OBVIOUS
    <2>2. ASSUME NEW N \in SUBSET S, NEW v \in V, N # {}, <<N \ {pick[N]}, v>> \in M
          PROVE  <<N, step[N][v]>> \in M
      <3>1. <<N, step[N][v]>> \in All
        BY <2>2
      <3>2. ASSUME NEW R \in SUBSET All, Closed(R) PROVE <<N, step[N][v]>> \in R
        BY <2>2, <3>2
      <3>3. QED
        BY <3>1, <3>2
    <2>3. QED
      BY <2>1, <2>2
  <1>2. \A R \in SUBSET All : Closed(R) => M \subseteq R
    OBVIOUS
  <1> HIDE DEF M
  <1>3. ASSUME NEW w \in V, <<{}, w>> \in M PROVE w = base
    <2> SUFFICES ASSUME w # base PROVE FALSE
      OBVIOUS
    <2> DEFINE R == M \ {<<{}, w>>}
    <2>1. Closed(R) /\ R \in SUBSET All
      BY <1>1
    <2>2. QED
      BY <1>2, <1>3, <2>1
  <1>4. ASSUME NEW N \in SUBSET S, N # {}, NEW w \in V, <<N, w>> \in M
        PROVE  \E v \in V : <<N \ {pick[N]}, v>> \in M /\ w = step[N][v]
    <2> SUFFICES ASSUME \A v \in V : <<N \ {pick[N]}, v>> \in M => w # step[N][v] PROVE FALSE
      OBVIOUS
    <2> DEFINE R == M \ {<<N, w>>}
    <2>1. ASSUME NEW N2 \in SUBSET S, NEW v \in V, N2 # {}, <<N2 \ {pick[N2]}, v>> \in R
          PROVE  <<N2, step[N2][v]>> \in R
      <3>1. <<N2, step[N2][v]>> \in M
        BY <1>1, <2>1
      <3>2. <<N2, step[N2][v]>> # <<N, w>>
        BY <2>1
      <3>3. QED
        BY <3>1, <3>2
    <2>2. Closed(R) /\ R \in SUBSET All
      BY <1>1, <1>4, <2>1
    <2>3. QED
      BY <1>2, <1>4, <2>2
  <1> HIDE DEF Closed, All
  <1>5. ASSUME NEW N \in SUBSET S PROVE \E v \in V : \A w \in V : <<N, w>> \in M <=> w = v
    <2> DEFINE Bad == {B \in SUBSET S : ~ \E v \in V : \A w \in V : <<B, w>> \in M <=> w = v}
    <2> SUFFICES ASSUME Bad # {} PROVE FALSE
      OBVIOUS
    <2>1. /\ IsWellFoundedOn(StrictSubsetOrdering(S), FiniteSubsetsOf(S))
          /\ FiniteSubsetsOf(S) = SUBSET S
      BY FS_StrictSubsetOrderingWellFounded, FS_FiniteSubsetsOfFinite
    <2>2. PICK B \in Bad : \A A \in Bad : ~ (<<A, B>> \in StrictSubsetOrdering(S))
      <3>1. Bad \subseteq SUBSET S
        OBVIOUS
      <3> HIDE DEF Bad
      <3>2. QED
        BY <2>1, <3>1, WFMin
    <2>3. CASE B = {}
      BY <1>1, <1>3, <2>3 DEF Closed
    <2>4. CASE B # {}
      <3>1. B \in SUBSET S /\ pick[B] \in B
        BY <2>4
      <3>2. <<B \ {pick[B]}, B>> \in StrictSubsetOrdering(S)
        BY <3>1 DEF StrictSubsetOrdering
      <3>3. B \ {pick[B]} \in SUBSET S /\ B \ {pick[B]} \notin Bad
        BY <2>2, <3>1, <3>2
      <3>4. PICK v \in V : \A w \in V : <<B \ {pick[B]}, w>> \in M <=> w = v
        BY <3>3
      <3>5. <<B, step[B][v]>> \in M
        BY <1>1, <2>4, <3>1, <3>4 DEF Closed
      <3>6. \A w \in V : <<B, w>> \in M <=> w = step[B][v]
        <4>1. ASSUME NEW w \in V, <<B, w>> \in M PROVE w = step[B][v]
          <5>1. PICK u \in V : <<B \ {pick[B]}, u>> \in M /\ w = step[B][u]
            BY <1>4, <2>4, <3>1, <4>1
          <5>2. QED
            BY <3>4, <5>1
        <4>2. QED
          BY <3>5, <4>1
      <3>7. step[B][v] \in V
        BY <2>4, <3>1
      <3>8. QED
        BY <3>6, <3>7
    <2>5. QED
      BY <2>3, <2>4
  <1> DEFINE g == [N \in SUBSET S |-> CHOOSE v \in V : <<N, v>> \in M]
  <1>6. \A N \in SUBSET S : g[N] \in V /\ \A w \in V : <<N, w>> \in M <=> w = g[N]
    BY <1>5
  <1>7. g \in [SUBSET S -> V]
    BY <1>6
  <1> HIDE DEF g
  <1>8. ASSUME NEW N \in SUBSET S
        PROVE  g[N] = IF N = {} THEN base ELSE step[N][g[N \ {pick[N]}]]
    <2>1. CASE N = {}
      BY <1>1, <1>6, <2>1 DEF Closed
    <2>2. CASE N # {}
      <3>1. N \ {pick[N]} \in SUBSET S
        OBVIOUS
      <3>2. <<N \ {pick[N]}, g[N \ {pick[N]}]>> \in M /\ g[N \ {pick[N]}] \in V
        BY <1>6, <3>1
      <3>3. <<N, step[N][g[N \ {pick[N]}]]>> \in M
        BY <1>1, <2>2, <3>2 DEF Closed
      <3>4. QED
        BY <1>6, <2>2, <3>2, <3>3
    <2>3. QED
      BY <2>1, <2>2
  <1>9. Peels(S, V, base, pick, step, g)
    BY <1>7, <1>8 DEF Peels
  <1>10. QED
    BY <1>9

(* A function is defined by walking on until a stop; where the walk has no *)
(* end, any value will do.                                                 *)
WalksTo(D, Stop, next, g) ==
  g \in [D -> D] /\ \A s \in D : g[s] = IF s \in Stop THEN s ELSE g[next[s]]

LEMMA Walking ==
  ASSUME NEW D, NEW Stop, NEW next, Stop \in SUBSET D, next \in [D -> D]
  PROVE  \E g : WalksTo(D, Stop, next, g)
  <1> DEFINE All == D \X D
             Closed(R) == /\ \A s \in Stop : <<s, s>> \in R
                          /\ \A s \in D \ Stop, v \in D : <<next[s], v>> \in R => <<s, v>> \in R
             M == {x \in All : \A R \in SUBSET All : Closed(R) => x \in R}
  <1>1. M \in SUBSET All /\ Closed(M)
    <2>1. ASSUME NEW s \in Stop PROVE <<s, s>> \in M
      OBVIOUS
    <2>2. ASSUME NEW s \in D \ Stop, NEW v \in D, <<next[s], v>> \in M PROVE <<s, v>> \in M
      BY <2>2
    <2>3. QED
      BY <2>1, <2>2
  <1>2. \A R \in SUBSET All : Closed(R) => M \subseteq R
    OBVIOUS
  <1> HIDE DEF M
  <1>3. ASSUME NEW s \in D, NEW v \in D, <<s, v>> \in M
        PROVE  IF s \in Stop THEN v = s ELSE <<next[s], v>> \in M
    <2> SUFFICES ASSUME ~ (IF s \in Stop THEN v = s ELSE <<next[s], v>> \in M) PROVE FALSE
      OBVIOUS
    <2> DEFINE R == M \ {<<s, v>>}
    <2>1. ASSUME NEW t \in Stop PROVE <<t, t>> \in R
      BY <1>1, <2>1
    <2>2. ASSUME NEW t \in D \ Stop, NEW w \in D, <<next[t], w>> \in R PROVE <<t, w>> \in R
      BY <1>1, <2>2
    <2>3. Closed(R) /\ R \in SUBSET All
      BY <1>1, <2>1, <2>2
    <2>4. QED
      BY <1>2, <1>3, <2>3
  <1>4. ASSUME NEW s \in D, NEW v \in D, NEW w \in D, <<s, v>> \in M, <<s, w>> \in M
        PROVE  v = w
    <2> DEFINE R == {x \in M : \A u \in D : <<x[1], u>> \in M => u = x[2]}
    <2>1. ASSUME NEW t \in Stop PROVE <<t, t>> \in R
      BY <1>1, <1>3, <2>1
    <2>2. ASSUME NEW t \in D \ Stop, NEW u \in D, <<next[t], u>> \in R PROVE <<t, u>> \in R
      BY <1>1, <1>3, <2>2
    <2>3. Closed(R) /\ R \in SUBSET All
      BY <1>1, <2>1, <2>2
    <2>4. M \subseteq R
      BY <1>2, <2>3
    <2>5. <<s, v>> \in R
      BY <1>4, <2>4
    <2>6. QED
      BY <1>4, <2>5
  <1> HIDE DEF All
  <1> DEFINE g == [s \in D |-> IF \E v \in D : <<s, v>> \in M THEN CHOOSE v \in D : <<s, v>> \in M
                                                             ELSE CHOOSE v \in D : TRUE]
  <1>5. g \in [D -> D]
    OBVIOUS
  <1>6. ASSUME NEW s \in D PROVE g[s] = IF s \in Stop THEN s ELSE g[next[s]]
    <2>1. CASE s \in Stop
      <3>1. <<s, s>> \in M
        BY <1>1, <2>1
      <3>2. QED
        BY <1>4, <2>1, <3>1
    <2>2. CASE s \notin Stop
      <3>1. next[s] \in D
        OBVIOUS
      <3>2. \A v \in D : <<s, v>> \in M <=> <<next[s], v>> \in M
        BY <1>1, <1>3, <2>2
      <3> HIDE DEF Closed
      <3>3. CASE \E v \in D : <<s, v>> \in M
        <4>1. PICK v \in D : <<s, v>> \in M
          BY <3>3
        <4>2. g[s] = v /\ g[next[s]] = v
          BY <1>4, <3>1, <3>2, <4>1
        <4>3. QED
          BY <2>2, <4>2
      <3>4. CASE ~ \E v \in D : <<s, v>> \in M
        <4>1. g[s] = (CHOOSE v \in D : TRUE) /\ g[next[s]] = (CHOOSE v \in D : TRUE)
          BY <3>1, <3>2, <3>4
        <4>2. QED
          BY <2>2, <4>1
      <3>5. QED
        BY <3>3, <3>4
    <2>3. QED
      BY <2>1, <2>2
  <1> HIDE DEF g
  <1>7. WalksTo(D, Stop, next, g)
    BY <1>5, <1>6 DEF WalksTo
  <1>8. QED
    BY <1>7

(* What find() does in a state of the forest.                              *)
Seeks == [parent: [Events -> Events], at: Events]
Up(s) == s.parent[s.parent[s.at]]
Shorter(s) == [parent |-> [s.parent EXCEPT ![s.at] = Up(s)], at |-> Up(s)]

LEMMA FindStep ==
  \A s \in Seeks : Clashes!Find[s] = IF s.parent[s.at] = s.at THEN s ELSE Clashes!Find[Shorter(s)]
  <1> DEFINE Eq(F) == F = [s \in [parent: [Events -> Events], at: Events] |->
                             IF s.parent[s.at] = s.at THEN s
                             ELSE LET up == s.parent[s.parent[s.at]]
                                  IN F[[parent |-> [s.parent EXCEPT ![s.at] = up], at |-> up]]]
  <1>1. Clashes!Find = CHOOSE F : Eq(F)
    BY Zenon DEF Clashes!Find
  <1>2. \E F : Eq(F)
    <2> DEFINE Stop == {s \in Seeks : s.parent[s.at] = s.at}
               next == [s \in Seeks |-> Shorter(s)]
    <2>1. \A s \in Seeks : Shorter(s) \in Seeks
      BY DEF Seeks, Shorter, Up
    <2>2. next \in [Seeks -> Seeks] /\ Stop \in SUBSET Seeks
      BY <2>1
    <2>3. PICK g : WalksTo(Seeks, Stop, next, g)
      <3> HIDE DEF next, Stop
      <3>1. QED
        BY <2>2, Walking
    <2>4. /\ g \in [Seeks -> Seeks]
          /\ \A s \in Seeks : g[s] = IF s.parent[s.at] = s.at THEN s ELSE g[Shorter(s)]
      BY <2>3 DEF WalksTo
    <2>5. g = [s \in Seeks |-> IF s.parent[s.at] = s.at THEN s ELSE g[Shorter(s)]]
      BY <2>4
    <2>6. Eq(g)
      BY <2>5 DEF Seeks, Shorter, Up
    <2>7. QED
      BY <2>6
  <1>3. Eq(Clashes!Find)
    <2> HIDE DEF Eq
    <2>1. QED
      BY <1>1, <1>2
  <1>4. Clashes!Find = [s \in Seeks |-> IF s.parent[s.at] = s.at THEN s
                                      ELSE Clashes!Find[Shorter(s)]]
    BY <1>3 DEF Seeks, Shorter, Up
  <1>5. QED
    BY <1>4

(* A forest whose trees are labelled by their roots, with ranks that grow  *)
(* on the way up.                                                          *)
Rooted(parent, label, rank, top) ==
  /\ parent \in [Events -> Events] /\ label \in [Events -> Events]
  /\ rank \in [Events -> 0 .. top]
  /\ \A x \in Events : /\ label[parent[x]] = label[x]
                       /\ parent[x] = x => label[x] = x
                       /\ parent[label[x]] = label[x]
                       /\ parent[x] # x => rank[x] < rank[parent[x]]

LEMMA OneShorter ==
  ASSUME NEW label, NEW rank, NEW top \in Nat, NEW s \in Seeks,
         Rooted(s.parent, label, rank, top), s.parent[s.at] # s.at
  PROVE  /\ Shorter(s) \in Seeks
         /\ Rooted(Shorter(s).parent, label, rank, top)
         /\ label[Shorter(s).at] = label[s.at]
         /\ rank[s.at] < rank[Shorter(s).at]
  <1>1. s.parent \in [Events -> Events] /\ s.at \in Events /\ Up(s) \in Events
    BY DEF Seeks, Up
  <1> DEFINE parent == s.parent
             at == s.at
             up == Up(s)
             mid == parent[at]
  <1>2. mid \in Events /\ up = parent[mid] /\ mid # at
    BY <1>1 DEF Up
  <1>3. \A x \in Events : rank[x] \in 0 .. top
    BY DEF Rooted
  <1>4. label[up] = label[at]
    BY <1>1, <1>2 DEF Rooted
  <1>5. rank[at] < rank[up]
    <2>1. rank[at] < rank[mid] /\ (up = mid \/ rank[mid] < rank[up])
      BY <1>1, <1>2 DEF Rooted
    <2>2. QED
      BY <1>1, <1>2, <1>3, <2>1
  <1>6. up # at
    BY <1>1, <1>3, <1>5
  <1> DEFINE new == [parent EXCEPT ![at] = up]
  <1>7. /\ new \in [Events -> Events]
        /\ \A x \in Events : new[x] = IF x = at THEN up ELSE parent[x]
    BY <1>1
  <1>8. Rooted(new, label, rank, top)
    <2> HIDE DEF new, up, at, parent, mid
    <2>1. /\ \A x \in Events : /\ label[new[x]] = label[x]
                               /\ new[x] = x => label[x] = x
                               /\ new[label[x]] = label[x]
                               /\ new[x] # x => rank[x] < rank[new[x]]
      BY <1>2, <1>4, <1>5, <1>6, <1>7 DEF Rooted, parent, mid
    <2>2. QED
      BY <1>7, <2>1 DEF Rooted
  <1>9. Shorter(s) = [parent |-> new, at |-> up]
    BY DEF Shorter
  <1>10. QED
    BY <1>1, <1>4, <1>5, <1>7, <1>8, <1>9 DEF Seeks

(* find() ends at the root, and shortens the way without moving anything   *)
(* to another tree.                                                        *)
LEMMA FindFinds ==
  ASSUME NEW label, NEW rank, NEW top \in Nat, NEW s \in Seeks,
         Rooted(s.parent, label, rank, top)
  PROVE  /\ Clashes!Find[s] \in Seeks
         /\ Rooted(Clashes!Find[s].parent, label, rank, top)
         /\ Clashes!Find[s].at = label[s.at]
         /\ Clashes!Find[s].parent[Clashes!Find[s].at] = Clashes!Find[s].at
  <1> DEFINE Found(t) == /\ Clashes!Find[t] \in Seeks
                         /\ Rooted(Clashes!Find[t].parent, label, rank, top)
                         /\ Clashes!Find[t].at = label[t.at]
                         /\ Clashes!Find[t].parent[Clashes!Find[t].at] = Clashes!Find[t].at
             Lost == {t \in Seeks : Rooted(t.parent, label, rank, top) /\ ~ Found(t)}
             Height(t) == top + 1 - rank[t.at]
             Heights == {Height(t) : t \in Lost}
  <1> SUFFICES ASSUME Lost # {} PROVE FALSE
    OBVIOUS
  <1>1. \A t \in Seeks : Rooted(t.parent, label, rank, top) =>
          /\ t.at \in Events /\ rank[t.at] \in 0 .. top /\ Height(t) \in 1 .. (top + 1)
    <2> SUFFICES ASSUME NEW t \in Seeks, Rooted(t.parent, label, rank, top)
                 PROVE  t.at \in Events /\ rank[t.at] \in 0 .. top /\ Height(t) \in 1 .. (top + 1)
      OBVIOUS
    <2>1. t.at \in Events /\ rank \in [Events -> 0 .. top]
      BY DEF Seeks, Rooted
    <2>2. QED
      BY <2>1
  <1>2. Heights \in SUBSET (1 .. (top + 1)) /\ Heights # {}
    BY <1>1
  <1>3. PICK n \in Heights : \A m \in Heights : n <= m
    <2> HIDE DEF Heights
    <2>1. top + 1 \in Nat
      OBVIOUS
    <2>2. QED
      BY <1>2, <2>1, Least
  <1>4. PICK t \in Lost : n = Height(t)
    OBVIOUS
  <1>5. CASE t.parent[t.at] = t.at
    <2>1. Clashes!Find[t] = t
      BY <1>5, FindStep
    <2>2. label[t.at] = t.at
      BY <1>1, <1>5 DEF Rooted
    <2>3. QED
      BY <1>5, <2>1, <2>2
  <1>6. CASE t.parent[t.at] # t.at
    <2>1. Clashes!Find[t] = Clashes!Find[Shorter(t)]
      BY <1>6, FindStep
    <2>2. /\ Shorter(t) \in Seeks
          /\ Rooted(Shorter(t).parent, label, rank, top)
          /\ label[Shorter(t).at] = label[t.at]
          /\ rank[t.at] < rank[Shorter(t).at]
      BY <1>6, OneShorter
    <2>3. Shorter(t) \in Lost
      <3>1. ~ Found(t)
        BY <1>4
      <3>2. ~ Found(Shorter(t))
        BY <2>1, <2>2, <3>1
      <3> HIDE DEF Found
      <3>3. QED
        BY <2>2, <3>2
    <2>4. Height(Shorter(t)) \in Heights /\ Height(Shorter(t)) < Height(t)
      <3>1. rank[t.at] \in 0 .. top /\ rank[Shorter(t).at] \in 0 .. top
        BY <1>1, <2>2
      <3>2. QED
        BY <2>2, <2>3, <3>1
    <2>5. n <= Height(Shorter(t)) /\ n \in 1 .. (top + 1) /\ Height(Shorter(t)) \in 1 .. (top + 1)
      BY <1>2, <1>3, <2>4
    <2>6. QED
      BY <1>4, <2>4, <2>5
  <1>7. QED
    BY <1>5, <1>6

Labelled(parent, label) == \E top \in Nat : \E rank : Rooted(parent, label, rank, top)

(* The labels tell the components of the edges apart: the ends of an edge  *)
(* have one label, and no cut comes between two events of one label.       *)
Cut(C, edges) == \A p \in edges : p[1] \in C <=> p[2] \in C
Parts(label, edges) ==
  /\ \A p \in edges : label[p[1]] = label[p[2]]
  /\ \A C \in SUBSET Events : Cut(C, edges) =>
       \A x, y \in Events : label[x] = label[y] => (x \in C <=> y \in C)
Splits(parent, edges) == \E label : Labelled(parent, label) /\ Parts(label, edges)
Forests == {parent \in [Events -> Events] : \E label : Labelled(parent, label)}

LEMMA LabelledRoots ==
  ASSUME NEW parent, NEW label, Labelled(parent, label), NEW at \in Events
  PROVE  LET s == Clashes!Find[[parent |-> parent, at |-> at]]
         IN /\ s.parent \in [Events -> Events] /\ s.at \in Events
            /\ Labelled(s.parent, label) /\ s.at = label[at]
            /\ s.parent[s.at] = s.at
  <1>1. PICK top \in Nat : \E rank : Rooted(parent, label, rank, top)
    BY DEF Labelled
  <1>2. PICK rank : Rooted(parent, label, rank, top)
    BY <1>1
  <1> DEFINE t == [parent |-> parent, at |-> at]
  <1>3. t \in Seeks /\ t.parent = parent /\ t.at = at
    BY <1>2 DEF Seeks, Rooted
  <1> HIDE DEF t
  <1>4. /\ Clashes!Find[t] \in Seeks
        /\ Rooted(Clashes!Find[t].parent, label, rank, top)
        /\ Clashes!Find[t].at = label[at]
        /\ Clashes!Find[t].parent[Clashes!Find[t].at] = Clashes!Find[t].at
    BY <1>2, <1>3, FindFinds
  <1>5. Labelled(Clashes!Find[t].parent, label)
    BY <1>4 DEF Labelled
  <1>6. QED
    BY <1>4, <1>5 DEF Seeks, t

(* One tree becomes a branch of another: ranks outside it grow.            *)
LEMMA RootsJoin ==
  ASSUME NEW parent, NEW label, Labelled(parent, label), NEW a \in Events, NEW b \in Events,
         parent[a] = a, parent[b] = b, a # b
  PROVE  Labelled([parent EXCEPT ![a] = b],
                  [x \in Events |-> IF label[x] = a THEN b ELSE label[x]])
  <1>1. PICK top \in Nat : \E rank : Rooted(parent, label, rank, top)
    BY DEF Labelled
  <1>2. PICK rank : Rooted(parent, label, rank, top)
    BY <1>1
  <1> DEFINE new == [parent EXCEPT ![a] = b]
             label2 == [x \in Events |-> IF label[x] = a THEN b ELSE label[x]]
             top2 == top + top + 1
             rank2 == [x \in Events |-> IF label[x] = a THEN rank[x] ELSE rank[x] + top + 1]
  <1>3. /\ parent \in [Events -> Events] /\ label \in [Events -> Events]
        /\ rank \in [Events -> 0 .. top]
        /\ \A x \in Events : /\ parent[x] \in Events /\ label[x] \in Events
                             /\ rank[x] \in 0 .. top
                             /\ label[parent[x]] = label[x]
                             /\ parent[x] = x => label[x] = x
                             /\ parent[label[x]] = label[x]
                             /\ parent[x] # x => rank[x] < rank[parent[x]]
    BY <1>2 DEF Rooted
  <1>4. label[a] = a /\ label[b] = b
    BY <1>3
  <1>5. /\ new \in [Events -> Events] /\ label2 \in [Events -> Events]
        /\ \A x \in Events : /\ new[x] = IF x = a THEN b ELSE parent[x]
                             /\ label2[x] = IF label[x] = a THEN b ELSE label[x]
                             /\ rank2[x] = IF label[x] = a THEN rank[x] ELSE rank[x] + top + 1
    BY <1>3
  <1>6. rank2 \in [Events -> 0 .. top2]
    BY <1>3
  <1> HIDE DEF new, label2, rank2
  <1>7. ASSUME NEW x \in Events
        PROVE  /\ label2[new[x]] = label2[x]
               /\ new[x] = x => label2[x] = x
               /\ new[label2[x]] = label2[x]
               /\ new[x] # x => rank2[x] < rank2[new[x]]
    <2>1. CASE x = a
      BY <1>3, <1>4, <1>5, <2>1
    <2>2. CASE x # a
      BY <1>3, <1>4, <1>5, <2>2
    <2>3. QED
      BY <2>1, <2>2
  <1>8. Rooted(new, label2, rank2, top2) /\ top2 \in Nat
    BY <1>5, <1>6, <1>7 DEF Rooted
  <1> HIDE DEF top2
  <1>9. QED
    BY <1>8 DEF Labelled, new, label2

(* Joining an edge gives the tree of its first end the label of the other. *)
LEMMA JoinLabels ==
  ASSUME NEW parent, NEW label, Labelled(parent, label), NEW p,
         p[1] \in Events, p[2] \in Events
  PROVE  \E label2 : /\ Labelled(Clashes!Join(parent, p), label2)
                     /\ label \in [Events -> Events] /\ label2 \in [Events -> Events]
                     /\ Clashes!Join(parent, p) \in [Events -> Events]
                     /\ \A x \in Events :
                          label2[x] = IF label[x] = label[p[1]] THEN label[p[2]] ELSE label[x]
  <1> DEFINE a == Clashes!Find[[parent |-> parent, at |-> p[1]]]
             b == Clashes!Find[[parent |-> a.parent, at |-> p[2]]]
  <1>1. /\ a.parent \in [Events -> Events] /\ a.at \in Events
        /\ Labelled(a.parent, label) /\ a.at = label[p[1]]
        /\ a.parent[a.at] = a.at
    BY LabelledRoots
  <1>2. /\ b.parent \in [Events -> Events] /\ b.at \in Events
        /\ Labelled(b.parent, label) /\ b.at = label[p[2]]
        /\ b.parent[b.at] = b.at
    <2> HIDE DEF a
    <2>1. QED
      BY <1>1, LabelledRoots
  <1>3. Clashes!Join(parent, p) = IF a.at = b.at THEN b.parent ELSE [b.parent EXCEPT ![a.at] = b.at]
    BY DEF Clashes!Join
  <1> HIDE DEF a, b
  <1>4. label \in [Events -> Events]
    BY DEF Labelled, Rooted
  <1>5. CASE a.at = b.at
    <2>1. \A x \in Events : label[x] = IF label[x] = label[p[1]] THEN label[p[2]] ELSE label[x]
      BY <1>1, <1>2, <1>5
    <2>2. QED
      BY <1>2, <1>3, <1>4, <1>5, <2>1
  <1>6. CASE a.at # b.at
    <2> DEFINE label2 == [x \in Events |-> IF label[x] = a.at THEN b.at ELSE label[x]]
               new == [b.parent EXCEPT ![a.at] = b.at]
    (* The root of the first end is a root still.                          *)
    <2>1. b.parent[a.at] = a.at
      <3>1. \A x \in Events : b.parent[label[x]] = label[x]
        BY <1>2 DEF Labelled, Rooted
      <3>2. QED
        BY <1>1, <3>1
    <2>2. Labelled(new, label2)
      BY <1>1, <1>2, <1>6, <2>1, RootsJoin
    <2>3. \A x \in Events : label2[x] = IF label[x] = label[p[1]] THEN label[p[2]] ELSE label[x]
      BY <1>1, <1>2
    <2>4. label2 \in [Events -> Events] /\ new \in [Events -> Events]
      BY <1>1, <1>2, <1>4
    <2> HIDE DEF label2
    <2>5. QED
      BY <1>3, <1>4, <1>6, <2>2, <2>3, <2>4
  <1>7. QED
    BY <1>5, <1>6

LEMMA JoinSplits ==
  ASSUME NEW parent, NEW edges, NEW p, Splits(parent, edges),
         \A q \in edges \cup {p} : q[1] \in Events /\ q[2] \in Events
  PROVE  /\ Splits(Clashes!Join(parent, p), edges \cup {p})
         /\ Clashes!Join(parent, p) \in [Events -> Events]
  <1>1. PICK label : Labelled(parent, label) /\ Parts(label, edges)
    BY DEF Splits
  <1>2. p[1] \in Events /\ p[2] \in Events
    OBVIOUS
  <1>3. PICK label2 : /\ Labelled(Clashes!Join(parent, p), label2)
                      /\ label \in [Events -> Events] /\ label2 \in [Events -> Events]
                      /\ Clashes!Join(parent, p) \in [Events -> Events]
                      /\ \A x \in Events :
                           label2[x] = IF label[x] = label[p[1]] THEN label[p[2]] ELSE label[x]
    BY <1>1, <1>2, JoinLabels
  <1>4. ASSUME NEW q \in edges \cup {p} PROVE label2[q[1]] = label2[q[2]]
    BY <1>1, <1>2, <1>3, <1>4 DEF Parts
  <1>5. ASSUME NEW C \in SUBSET Events, Cut(C, edges \cup {p}), NEW x \in Events,
               NEW y \in Events, label2[x] = label2[y]
        PROVE  x \in C <=> y \in C
    <2>1. \A u, v \in Events : label[u] = label[v] => (u \in C <=> v \in C)
      BY <1>1, <1>5 DEF Parts, Cut
    <2>2. p[1] \in C <=> p[2] \in C
      BY <1>5 DEF Cut
    <2>3. \A u \in Events : /\ label[u] = label[p[1]] => (u \in C <=> p[1] \in C)
                            /\ label[u] = label[p[2]] => (u \in C <=> p[2] \in C)
      BY <1>2, <2>1
    <2>4. QED
      BY <1>3, <1>5, <2>1, <2>2, <2>3
  <1>6. Parts(label2, edges \cup {p})
    BY <1>4, <1>5 DEF Parts
  <1>7. QED
    BY <1>3, <1>6 DEF Splits

LEMMA ClashesCardinality == \A S : Clashes!Cardinality(S) = Cardinality(S)
  BY DEF Clashes!Cardinality, Cardinality

LEMMA EdgesListed ==
  ASSUME NEW edges, IsFiniteSet(edges)
  PROVE  \E n \in Nat : /\ Clashes!SetToSeq(edges) \in [1 .. n -> edges]
                        /\ \A p \in edges : \E i \in 1 .. n : Clashes!SetToSeq(edges)[i] = p
  <1> DEFINE n == Cardinality(edges)
             seq == Clashes!SetToSeq(edges)
  <1>1. n \in Nat /\ ExistsBijection(1 .. n, edges)
    BY FS_CardinalityType
  <1>2. Clashes!Cardinality(edges) = n
    BY ClashesCardinality
  <1> HIDE DEF n
  <1>3. PICK f : f \in Bijection(1 .. n, edges)
    BY <1>1 DEF ExistsBijection
  <1>4. f \in [1 .. n -> edges] /\ Clashes!IsInjective(f)
    BY <1>3 DEF Bijection, Injection, IsInjective, Clashes!IsInjective
  <1>5. seq \in [1 .. n -> edges] /\ Clashes!IsInjective(seq)
    BY <1>2, <1>4 DEF Clashes!SetToSeq
  <1>6. seq \in Injection(1 .. n, edges)
    <2> HIDE DEF seq
    <2>1. QED
      BY <1>5 DEF Injection, IsInjective, Clashes!IsInjective
  <1>7. IsFiniteSet(1 .. n) /\ Cardinality(1 .. n) = n
    BY <1>1, FS_Interval
  <1>8. seq \in Surjection(1 .. n, edges)
    <2> HIDE DEF seq
    <2>1. QED
      BY <1>6, <1>7, FS_Injection DEF n
  <1> HIDE DEF seq
  <1>9. \A p \in edges : \E i \in 1 .. n : seq[i] = p
    BY <1>8 DEF Surjection
  <1>10. QED
    BY <1>1, <1>5, <1>9 DEF seq

LEMMA GreatestIndex ==
  ASSUME NEW n \in Nat, NEW S \in SUBSET (1 .. n), S # {}
  PROVE  Clashes!Max(S) \in S
  <1> DEFINE T == {n + 1 - x : x \in S}
  <1>1. T \in SUBSET (1 .. n) /\ T # {}
    <2>1. \A x \in S : x \in 1 .. n /\ n + 1 - x \in 1 .. n
      OBVIOUS
    <2>2. QED
      BY <2>1
  <1>2. PICK t \in T : \A u \in T : t <= u
    <2> HIDE DEF T
    <2>1. QED
      BY <1>1, Least
  <1>3. PICK x \in S : t = n + 1 - x
    OBVIOUS
  <1>4. \A y \in S : x >= y
    <2> TAKE y \in S
    <2>1. n + 1 - y \in T /\ x \in 1 .. n /\ y \in 1 .. n
      OBVIOUS
    <2>2. QED
      BY <1>2, <1>3, <2>1
  <1>5. QED
    BY <1>4 DEF Clashes!Max

LEMMA IdentitySplits == Splits([e \in Events |-> e], {})
  <1> DEFINE id == [e \in Events |-> e]
             rank == [e \in Events |-> 0]
  <1>1. Rooted(id, id, rank, 0)
    BY DEF Rooted
  <1>2. Labelled(id, id)
    <2> HIDE DEF id, rank
    <2>1. QED
      BY <1>1 DEF Labelled
  <1>3. Parts(id, {})
    BY DEF Parts, Cut
  <1> HIDE DEF id
  <1>4. Splits(id, {})
    BY <1>2, <1>3 DEF Splits
  <1>5. QED
    BY <1>4 DEF id

(* The forest of a set of edges has their components for its trees.        *)
LEMMA ForestSplits ==
  ASSUME NEW edges, IsFiniteSet(edges), \A p \in edges : p[1] \in Events /\ p[2] \in Events
  PROVE  /\ Clashes!Forest(edges) \in [Events -> Events]
         /\ Splits(Clashes!Forest(edges), edges)
  <1> DEFINE seq == Clashes!SetToSeq(edges)
             base == [e \in Events |-> e]
             Eq(F, I) == F = [s \in SUBSET I |->
                                IF s = {} THEN base
                                ELSE Clashes!Join(F[s \ {Clashes!Max(s)}], seq[Clashes!Max(s)])]
  <1>1. PICK n \in Nat : /\ seq \in [1 .. n -> edges]
                         /\ \A p \in edges : \E i \in 1 .. n : seq[i] = p
    BY EdgesListed
  <1> HIDE DEF seq
  <1>2. DOMAIN seq = 1 .. n
    BY <1>1
  <1>3. Clashes!Forest(edges) = (CHOOSE F : Eq(F, DOMAIN seq))[DOMAIN seq]
    BY DEF Clashes!Forest, Clashes!FoldLeft, Clashes!MapThenFoldSet, seq
  <1> DEFINE I == 1 .. n
             pick == [N \in SUBSET I |-> Clashes!Max(N)]
             step == [N \in SUBSET I |-> [v \in Forests |-> Clashes!Join(v, seq[Clashes!Max(N)])]]
  <1>4. \A N \in SUBSET I : N # {} => Clashes!Max(N) \in N
    BY GreatestIndex
  <1>5. ASSUME NEW N \in SUBSET I, NEW v \in Forests, N # {}
        PROVE  Clashes!Join(v, seq[Clashes!Max(N)]) \in Forests
    <2>1. PICK label : Labelled(v, label)
      BY DEF Forests
    <2> DEFINE p == seq[Clashes!Max(N)]
    <2>2. p[1] \in Events /\ p[2] \in Events
      BY <1>1, <1>4, <1>5
    <2> HIDE DEF p
    <2>3. QED
      BY <2>1, <2>2, JoinLabels DEF Forests, p
  <1>6. base \in Forests
    BY IdentitySplits DEF Forests, Splits
  <1>7. \E F : Eq(F, I)
    <2>1. \A N \in SUBSET I : N # {} => pick[N] \in N
      BY <1>4
    <2>2. \A N \in SUBSET I, v \in Forests : N # {} => step[N][v] \in Forests
      BY <1>5
    <2>3. IsFiniteSet(I)
      BY FS_Interval
    <2>4. PICK g : Peels(I, Forests, base, pick, step, g)
      <3> HIDE DEF I, pick, step, base
      <3>1. QED
        BY <1>6, <2>1, <2>2, <2>3, Peeling
    <2> HIDE DEF base
    <2>5. \A N \in SUBSET I : N # {} => g[N \ {Clashes!Max(N)}] \in Forests
      BY <2>4 DEF Peels
    <2>6. \A N \in SUBSET I :
            g[N] = IF N = {} THEN base
                   ELSE Clashes!Join(g[N \ {Clashes!Max(N)}], seq[Clashes!Max(N)])
      BY <2>4, <2>5 DEF Peels
    <2>7. g \in [SUBSET I -> Forests]
      BY <2>4 DEF Peels
    <2>8. Eq(g, I)
      <3> HIDE DEF I
      <3>1. QED
        BY <2>6, <2>7
    <2>9. QED
      BY <2>8
  <1> DEFINE iter == CHOOSE F : Eq(F, I)
  <1>8. Eq(iter, I)
    <2> HIDE DEF Eq
    <2>1. QED
      BY <1>7
  <1> HIDE DEF iter
  <1>9. \A N \in SUBSET I :
          iter[N] = IF N = {} THEN base
                    ELSE Clashes!Join(iter[N \ {Clashes!Max(N)}], seq[Clashes!Max(N)])
    <2> HIDE DEF I, base
    <2>1. QED
      BY <1>8
  <1> DEFINE Listed(N) == {seq[i] : i \in N}
             Good(N) == iter[N] \in [Events -> Events] /\ Splits(iter[N], Listed(N))
             Bad == {N \in SUBSET I : ~ Good(N)}
  <1>10. ASSUME Bad # {} PROVE FALSE
    <2>1. /\ IsWellFoundedOn(StrictSubsetOrdering(I), FiniteSubsetsOf(I))
          /\ FiniteSubsetsOf(I) = SUBSET I
      <3>1. IsFiniteSet(I)
        BY FS_Interval
      <3> HIDE DEF I
      <3>2. QED
        BY <3>1, FS_StrictSubsetOrderingWellFounded, FS_FiniteSubsetsOfFinite
    <2>2. PICK B \in Bad : \A A \in Bad : ~ (<<A, B>> \in StrictSubsetOrdering(I))
      <3>1. Bad \subseteq SUBSET I
        OBVIOUS
      <3> HIDE DEF Bad, I
      <3>2. QED
        BY <1>10, <2>1, <3>1, WFMin
    <2>3. CASE B = {}
      <3>1. iter[B] = base /\ Listed(B) = {}
        BY <1>9, <2>3
      <3>2. base \in [Events -> Events]
        OBVIOUS
      <3>3. Good(B)
        <4> HIDE DEF base
        <4>1. QED
          BY <3>1, <3>2, IdentitySplits DEF base
      <3>4. QED
        BY <3>3
    <2>4. CASE B # {}
      <3> DEFINE m == Clashes!Max(B)
                 A == B \ {m}
      <3>1. B \in SUBSET I /\ m \in B /\ m \in I /\ seq[m] \in edges
        BY <1>1, <1>4, <2>4
      <3>2. <<A, B>> \in StrictSubsetOrdering(I)
        <4> HIDE DEF I
        <4>1. QED
          BY <3>1 DEF StrictSubsetOrdering
      <3>3. A \in SUBSET I /\ A \notin Bad
        BY <2>2, <3>1, <3>2
      <3>4. iter[A] \in [Events -> Events] /\ Splits(iter[A], Listed(A))
        BY <3>3
      <3>5. iter[B] = Clashes!Join(iter[A], seq[m])
        BY <1>9, <2>4, <3>1
      <3>6. Listed(A) \cup {seq[m]} = Listed(B)
        BY <3>1
      <3>7. \A q \in Listed(A) \cup {seq[m]} : q[1] \in Events /\ q[2] \in Events
        BY <1>1, <3>1, <3>3
      <3> HIDE DEF m, A, Listed
      <3>8. Good(B)
        <4>1. /\ Splits(Clashes!Join(iter[A], seq[m]), Listed(A) \cup {seq[m]})
              /\ Clashes!Join(iter[A], seq[m]) \in [Events -> Events]
          <5> HIDE DEF Good, Bad
          <5>1. QED
            BY <3>4, <3>7, JoinSplits
        <4>2. QED
          BY <3>5, <3>6, <4>1
      <3>9. QED
        BY <3>8
    <2>5. QED
      BY <2>3, <2>4
  <1>11. Good(I)
    BY <1>10
  <1>12. Listed(I) = edges
    BY <1>1
  <1>13. Clashes!Forest(edges) = iter[I]
    <2> HIDE DEF Eq
    <2>1. QED
      BY <1>2, <1>3 DEF iter
  <1>14. QED
    BY <1>11, <1>12, <1>13

Ends(edges) == UNION {{p[1], p[2]} : p \in edges}
Sharing(label, edges, e) == {f \in Ends(edges) : label[f] = label[e]}

(* The groups that _build_groups returns are the components.               *)
LEMMA GroupsLabelled ==
  ASSUME NEW edges, IsFiniteSet(edges), \A p \in edges : p[1] \in Events /\ p[2] \in Events
  PROVE  \E label : /\ label \in [Events -> Events] /\ Parts(label, edges)
                    /\ Clashes!Groups(edges) = {Sharing(label, edges, e) : e \in Ends(edges)}
  <1> DEFINE forest == Clashes!Forest(edges)
             Root(e) == Clashes!Find[[parent |-> forest, at |-> e]].at
  <1>1. PICK label : Labelled(forest, label) /\ Parts(label, edges)
    BY ForestSplits DEF Splits
  <1>2. label \in [Events -> Events]
    BY <1>1 DEF Labelled, Rooted
  <1>3. \A e \in Ends(edges) : e \in Events
    BY DEF Ends
  <1>4. \A e \in Ends(edges) : Root(e) = label[e]
    <2> HIDE DEF forest
    <2>1. QED
      BY <1>1, <1>3, LabelledRoots
  <1> DEFINE Class(r) == {e \in Ends(edges) : Root(e) = r}
  <1>5. Clashes!Groups(edges) = {Class(r) : r \in {Root(e) : e \in Ends(edges)}}
    BY DEF Clashes!Groups, Ends
  <1> HIDE DEF Root, forest
  <1>6. \A e \in Ends(edges) : Sharing(label, edges, e) = Class(Root(e))
    BY <1>4 DEF Sharing
  <1> HIDE DEF Class
  <1>7. Clashes!Groups(edges) = {Sharing(label, edges, e) : e \in Ends(edges)}
    BY <1>5, <1>6
  <1>8. QED
    BY <1>1, <1>2, <1>7

LEMMA EdgesFinite ==
  ASSUME IsFiniteSet(Events), NEW ev, NEW S
  PROVE  /\ IsFiniteSet(Clashes!Edges(ev, S)) /\ Clashes!Edges(ev, S) \subseteq Clashes!Pairs
         /\ \A p \in Clashes!Edges(ev, S) : p[1] \in Events /\ p[2] \in Events
  <1>1. IsFiniteSet(Events \X Events)
    BY FS_Product
  <1>2. Clashes!Edges(ev, S) \in SUBSET (Events \X Events)
    BY DEF Clashes!Edges, Clashes!Pairs
  <1>3. IsFiniteSet(Clashes!Edges(ev, S))
    BY <1>1, <1>2, FS_Subset
  <1>4. QED
    BY <1>2, <1>3 DEF Clashes!Edges, Clashes!Pairs

(* For any finite set of events and whatever conflicts between them, the   *)
(* groups are the connected components of the graph of conflicts.          *)
THEOREM GroupsAlwaysComponents ==
  IsFiniteSet(Events) /\ Clashes!Spec => []Clashes!GroupsAreComponents
  <1> SUFFICES ASSUME IsFiniteSet(Events)
               PROVE  Clashes!Spec => []Clashes!GroupsAreComponents
    OBVIOUS
  <1>1. Clashes!GroupsAreComponents
    <2> DEFINE edges == Clashes!Edges(event, Clashes!Live(event))
               inv == UNION {{p[1], p[2]} : p \in edges}
               Cuts == {C \in SUBSET inv : \A p \in edges : p[1] \in C <=> p[2] \in C}
               Component(e) == {f \in inv : \A C \in Cuts : e \in C <=> f \in C}
    <2>1. IsFiniteSet(edges) /\ \A p \in edges : p[1] \in Events /\ p[2] \in Events
      BY EdgesFinite
    <2> SUFFICES Clashes!Groups(edges) = {Component(e) : e \in inv}
      BY DEF Clashes!GroupsAreComponents
    <2> HIDE DEF edges
    <2>2. PICK label : /\ label \in [Events -> Events] /\ Parts(label, edges)
                       /\ Clashes!Groups(edges) = {Sharing(label, edges, e) : e \in Ends(edges)}
      BY <2>1, GroupsLabelled
    <2>3. inv = Ends(edges) /\ \A e \in inv : e \in Events
      BY <2>1 DEF Ends
    <2>4. ASSUME NEW e \in inv, NEW f \in inv
          PROVE  label[f] = label[e] <=> \A C \in Cuts : e \in C <=> f \in C
      <3>1. ASSUME label[f] = label[e], NEW C \in Cuts PROVE e \in C <=> f \in C
        <4>1. C \in SUBSET Events /\ Cut(C, edges)
          BY <2>3 DEF Cut
        <4>2. QED
          BY <2>2, <2>3, <3>1, <4>1 DEF Parts
      <3>2. ASSUME \A C \in Cuts : e \in C <=> f \in C PROVE label[f] = label[e]
        <4> DEFINE C == {x \in inv : label[x] = label[e]}
        <4>1. \A p \in edges : p[1] \in inv /\ p[2] \in inv /\ label[p[1]] = label[p[2]]
          BY <2>2 DEF Parts
        <4>2. C \in Cuts
          BY <4>1
        <4>3. QED
          BY <3>2, <4>2
      <3>3. QED
        BY <3>1, <3>2
    <2> HIDE DEF inv, Cuts
    <2>5. \A e \in inv : Sharing(label, edges, e) = Component(e)
      BY <2>3, <2>4 DEF Sharing
    <2> HIDE DEF Component
    <2>6. QED
      BY <2>2, <2>3, <2>5
  <1>2. QED
    BY <1>1, PTL

(* Windows agree for any events and dates: a group of some of the dates is *)
(* part of one of all dates, and resolved where that is.                   *)
THEOREM WindowsAlwaysAgree ==
  IsFiniteSet(Events) /\ Clashes!Spec => []Clashes!WindowsAgree
  <1> SUFFICES ASSUME IsFiniteSet(Events)
               PROVE  Clashes!Spec => []Clashes!WindowsAgree
    OBVIOUS
  <1>1. Clashes!WindowsAgree
    <2> SUFFICES ASSUME NEW first \in Clashes!Dates, NEW last \in Clashes!Dates
                 PROVE  LET all == Clashes!Edges(event, Clashes!Live(event))
                            some == Clashes!Edges(event, Clashes!InWindow(event, first, last))
                        IN \A g \in Clashes!Groups(some) : \E h \in Clashes!Groups(all) :
                             /\ g \subseteq h
                             /\ Clashes!Resolved(event, all, h) => Clashes!Resolved(event, some, g)
      BY DEF Clashes!WindowsAgree
    <2> DEFINE all == Clashes!Edges(event, Clashes!Live(event))
               some == Clashes!Edges(event, Clashes!InWindow(event, first, last))
    <2>1. /\ IsFiniteSet(all) /\ \A p \in all : p[1] \in Events /\ p[2] \in Events
          /\ IsFiniteSet(some) /\ \A p \in some : p[1] \in Events /\ p[2] \in Events
      BY EdgesFinite
    <2>2. some \subseteq all
      BY DEF Clashes!Edges, Clashes!InWindow
    <2> HIDE DEF some, all
    <2>3. PICK label : /\ label \in [Events -> Events] /\ Parts(label, all)
                       /\ Clashes!Groups(all) = {Sharing(label, all, e) : e \in Ends(all)}
      BY <2>1, GroupsLabelled
    <2>4. PICK mark : /\ mark \in [Events -> Events] /\ Parts(mark, some)
                      /\ Clashes!Groups(some) = {Sharing(mark, some, e) : e \in Ends(some)}
      BY <2>1, GroupsLabelled
    <2>5. ASSUME NEW g \in Clashes!Groups(some)
          PROVE  \E h \in Clashes!Groups(all) :
                   /\ g \subseteq h
                   /\ Clashes!Resolved(event, all, h) => Clashes!Resolved(event, some, g)
      <3>1. PICK e \in Ends(some) : g = Sharing(mark, some, e)
        BY <2>4
      <3> DEFINE h == Sharing(label, all, e)
                 C == {x \in Events : label[x] = label[e]}
      <3>2. Ends(some) \subseteq Ends(all) /\ \A x \in Ends(all) : x \in Events
        BY <2>1, <2>2 DEF Ends
      <3>3. h \in Clashes!Groups(all)
        BY <2>3, <3>2
      <3>4. Cut(C, some)
        BY <2>1, <2>2, <2>3 DEF Cut, Parts
      <3>5. \A x \in Events : mark[x] = mark[e] => label[x] = label[e]
        BY <2>4, <3>2, <3>4 DEF Parts
      <3>6. g \subseteq h
        BY <3>1, <3>2, <3>5 DEF Sharing
      <3> HIDE DEF h
      <3>7. Clashes!GroupEdges(some, g) \subseteq Clashes!GroupEdges(all, h)
        BY <2>2, <3>6 DEF Clashes!GroupEdges
      <3>8. QED
        BY <3>3, <3>6, <3>7 DEF Clashes!Resolved
    <2>6. QED
      BY <2>5 DEF all, some
  <1>2. QED
    BY <1>1, PTL

-----------------------------------------------------------------------------
(* What is told of conflicts.                                              *)
EventsKept == event \in [Events -> Clashes!Row \cup {Clashes!NoEvent}]

LEMMA LiveRows ==
  ASSUME NEW ev \in [Events -> Clashes!Row \cup {Clashes!NoEvent}], NEW e \in Clashes!Live(ev)
  PROVE  e \in Events /\ ev[e] \in Clashes!Row /\ ev[e].plan \in Plans
  BY DEF Clashes!Live, Clashes!Row, Clashes!NoEvent

LEMMA NoticedEdges ==
  ASSUME NEW ev, NEW e
  PROVE  Clashes!Noticed(ev, e) \subseteq Clashes!Pairs
  BY DEF Clashes!Noticed, Clashes!GroupEdges, Clashes!Around, Clashes!Edges

(* A live event with another plan, skipped or not, is an event.            *)
LEMMA RowFits ==
  ASSUME NEW row \in Clashes!Row, NEW plan \in Plans, NEW forced \in BOOLEAN, NEW skipped \in BOOLEAN
  PROVE  /\ [row EXCEPT !.plan = plan, !.forced = forced, !.skipped = skipped] \in Clashes!Row
         /\ [row EXCEPT !.skipped = skipped] \in Clashes!Row
         /\ [row EXCEPT !.state = "deleted"] \in Clashes!Row
         /\ [row EXCEPT !.state = "live"] \in Clashes!Row
         /\ Clashes!NewRow(plan) \in Clashes!Row
  BY DEF Clashes!Row, Clashes!NewRow

LEMMA UpdatedRow ==
  ASSUME EventsKept, NEW e \in Clashes!Live(event), NEW plan \in Plans, NEW forced \in BOOLEAN,
         Clashes!UpdateEvent(e, plan, forced)
  PROVE  \E row \in Clashes!Row :
           LET ev == [event EXCEPT ![e] = row]
           IN Clashes!Store(ev, Clashes!Noticed(ev, e)) /\ row.state = "live"
  <1> DEFINE skipped == IF forced = event[e].forced THEN event[e].skipped ELSE forced
             row == [event[e] EXCEPT !.plan = plan, !.forced = forced, !.skipped = skipped]
             ev == [event EXCEPT ![e].plan = plan, ![e].forced = forced,
                      ![e].skipped = IF forced = event[e].forced THEN @ ELSE forced]
  <1>1. e \in Events /\ event[e] \in Clashes!Row /\ event[e].state = "live"
    BY LiveRows DEF EventsKept, Clashes!Live
  <1>2. skipped \in BOOLEAN
    BY <1>1 DEF Clashes!Row
  <1>3. ev = [event EXCEPT ![e] = row]
    BY <1>1
  <1>4. row \in Clashes!Row /\ row.state = "live"
    <2>1. row \in Clashes!Row
      <3> HIDE DEF skipped
      <3>1. QED
        BY <1>1, <1>2, RowFits
    <2>2. row.state = "live"
      <3> HIDE DEF skipped
      <3>1. QED
        BY <1>1 DEF Clashes!Row
    <2>3. QED
      BY <2>1, <2>2
  <1>5. Clashes!Store(ev, Clashes!Noticed(ev, e))
    BY DEF Clashes!UpdateEvent
  <1> HIDE DEF ev, row
  <1>6. QED
    BY <1>3, <1>4, <1>5

LEMMA NextEvents ==
  ASSUME EventsKept, IsFiniteSet(Events), [Clashes!Next]_(Clashes!vars)
  PROVE  EventsKept'
  <1>1. CASE UNCHANGED Clashes!vars
    BY <1>1 DEF Clashes!vars, EventsKept
  <1>2. ASSUME NEW e \in Events, NEW plan \in Plans, Clashes!CreateEvent(e, plan)
        PROVE  EventsKept'
    <2>1. Clashes!NewRow(plan) \in Clashes!Row
      BY DEF Clashes!Row, Clashes!NewRow
    <2>2. event' = [event EXCEPT ![e] = Clashes!NewRow(plan)]
      BY <1>2 DEF Clashes!CreateEvent, Clashes!Store
    <2>3. QED
      BY <2>1, <2>2 DEF EventsKept
  <1>3. ASSUME NEW e \in Events, NEW plan \in Plans, NEW forced \in BOOLEAN,
               Clashes!UpdateEvent(e, plan, forced)
        PROVE  EventsKept'
    <2>1. e \in Clashes!Live(event)
      BY <1>3 DEF Clashes!UpdateEvent
    <2>2. PICK row \in Clashes!Row :
            LET ev == [event EXCEPT ![e] = row]
            IN Clashes!Store(ev, Clashes!Noticed(ev, e)) /\ row.state = "live"
      BY <1>3, <2>1, UpdatedRow
    <2>3. event' = [event EXCEPT ![e] = row]
      BY <2>2 DEF Clashes!Store
    <2>4. QED
      BY <2>3 DEF EventsKept
  <1>4. ASSUME NEW e \in Events, Clashes!DeleteEvent(e) \/ Clashes!RestoreEvent(e)
        PROVE  EventsKept'
    <2>1. event[e] \in Clashes!Row
      BY <1>4 DEF EventsKept, Clashes!DeleteEvent, Clashes!RestoreEvent, Clashes!Live, Clashes!NoEvent
    <2>2. PICK row \in Clashes!Row : event' = [event EXCEPT ![e] = row]
      <3>1. /\ [event[e] EXCEPT !.state = "deleted"] \in Clashes!Row
            /\ [event[e] EXCEPT !.state = "live"] \in Clashes!Row
        BY <2>1 DEF Clashes!Row
      <3>2. \/ event' = [event EXCEPT ![e] = [event[e] EXCEPT !.state = "deleted"]]
            \/ event' = [event EXCEPT ![e] = [event[e] EXCEPT !.state = "live"]]
        BY <1>4 DEF Clashes!DeleteEvent, Clashes!RestoreEvent, Clashes!Store
      <3>3. QED
        BY <3>1, <3>2
    <2>3. QED
      BY <2>2 DEF EventsKept
  <1>5. ASSUME NEW S \in SUBSET Events, NEW plan \in Plans, Clashes!CreateSeries(S, plan)
        PROVE  EventsKept'
    <2>1. \A e \in S : Clashes!NewRow(Clashes!DayOf(S, plan, e)) \in Clashes!Row
      BY <1>5 DEF Clashes!CreateSeries, Clashes!Row, Clashes!NewRow
    <2>2. event' = [e \in Events |-> IF e \in S THEN Clashes!NewRow(Clashes!DayOf(S, plan, e))
                                              ELSE event[e]]
      BY <1>5 DEF Clashes!CreateSeries, Clashes!Store
    <2>3. QED
      BY <2>1, <2>2 DEF EventsKept
  <1>6. ASSUME NEW S \in SUBSET Events, NEW decisions \in [S -> BOOLEAN], Clashes!Resolve(decisions)
        PROVE  EventsKept'
    <2>1. \A e \in S : [event[e] EXCEPT !.skipped = decisions[e]] \in Clashes!Row
      <3>1. \A e \in S : event[e] \in Clashes!Row /\ decisions[e] \in BOOLEAN
        BY <1>6, LiveRows DEF Clashes!Resolve, EventsKept
      <3>2. QED
        BY <3>1 DEF Clashes!Row
    <2>2. event' = [e \in Events |-> IF e \in S THEN [event[e] EXCEPT !.skipped = decisions[e]]
                                              ELSE event[e]]
      BY <1>6 DEF Clashes!Resolve, Clashes!Store
    <2>3. QED
      BY <2>1, <2>2 DEF EventsKept
  <1>7. QED
    BY <1>1, <1>2, <1>3, <1>4, <1>5, <1>6 DEF Clashes!Next

(* Rows of events keep their type, and what is told are pairs of events.   *)
LEMMA NextTold ==
  ASSUME [Clashes!Next]_(Clashes!vars), told \subseteq Clashes!Pairs, notices \subseteq Clashes!Pairs
  PROVE  told' \subseteq Clashes!Pairs /\ notices' \subseteq Clashes!Pairs
  <1>1. ASSUME NEW ev, NEW sent, sent \subseteq Clashes!Pairs, Clashes!Store(ev, sent)
        PROVE  told' \subseteq Clashes!Pairs /\ notices' \subseteq Clashes!Pairs
    BY <1>1 DEF Clashes!Store
  <1>2. CASE UNCHANGED Clashes!vars
    BY <1>2 DEF Clashes!vars
  <1>3. ASSUME NEW e \in Events, NEW plan \in Plans, NEW forced \in BOOLEAN,
               Clashes!CreateEvent(e, plan) \/ Clashes!UpdateEvent(e, plan, forced)
        PROVE  told' \subseteq Clashes!Pairs /\ notices' \subseteq Clashes!Pairs
    BY <1>1, <1>3, NoticedEdges DEF Clashes!CreateEvent, Clashes!UpdateEvent
  <1>4. ASSUME NEW ev, Clashes!Store(ev, {})
        PROVE  told' \subseteq Clashes!Pairs /\ notices' \subseteq Clashes!Pairs
    BY <1>1, <1>4
  <1>5. CASE Clashes!Next
    BY <1>3, <1>4, <1>5
    DEF Clashes!Next, Clashes!DeleteEvent, Clashes!RestoreEvent, Clashes!CreateSeries, Clashes!Resolve
  <1>6. QED
    BY <1>2, <1>5

(* Rules that reach no further than the days in which conflicts are looked *)
(* for, and events that are created one by one, updated and deleted.       *)
WithinReach ==
  /\ Rules.window <= Margin /\ Rules.buffer <= Margin + 1
  /\ Operations \subseteq {"create", "update", "delete"}

LEMMA ClashesNear ==
  ASSUME Clashes!ConstantsAssumption, WithinReach, NEW p \in Plans, NEW q \in Plans,
         Clashes!Clash(p, q)
  PROVE  /\ p.date \in Nat /\ q.date \in Nat /\ Margin \in Nat
         /\ p.date <= q.date + Margin /\ q.date <= p.date + Margin
  <1>1. /\ p.date \in Nat /\ q.date \in Nat /\ Margin \in Nat
        /\ Rules.window \in Nat /\ Rules.buffer \in Nat
    <2>1. Rules.window \in Nat /\ Rules.buffer \in Nat
      BY DEF Clashes!ConstantsAssumption
    <2>2. MaxDate \in Nat /\ Margin \in Nat /\ p.date \in 1 .. MaxDate /\ q.date \in 1 .. MaxDate
      BY DEF Clashes!ConstantsAssumption
    <2>3. QED
      BY <2>1, <2>2
  <1>2. Clashes!Apart(p, q) <= Margin
    <2>1. Clashes!Apart(p, q) \in Nat
      BY <1>1 DEF Clashes!Apart
    <2>2. CASE Clashes!TimeOverlap(p, q)
      BY <1>1, <2>2 DEF Clashes!TimeOverlap, Clashes!Apart
    <2>3. CASE Clashes!Distance(p, q)
      BY <1>1, <2>1, <2>3 DEF Clashes!Distance, WithinReach
    <2>4. CASE Clashes!TravelBuffer(p, q)
      BY <1>1, <2>1, <2>4 DEF Clashes!TravelBuffer, WithinReach
    <2>5. QED
      BY <2>2, <2>3, <2>4 DEF Clashes!Clash
  <1>3. QED
    BY <1>1, <1>2 DEF Clashes!Apart

(* An open edge around an event is noticed: its group is not resolved.     *)
LEMMA OpenNoticed ==
  ASSUME IsFiniteSet(Events), NEW ev, NEW e, NEW p \in Clashes!Around(ev, e), Clashes!Open(ev, p)
  PROVE  p \in Clashes!Noticed(ev, e)
  <1> DEFINE edges == Clashes!Around(ev, e)
  <1>1. IsFiniteSet(edges) /\ \A q \in edges : q[1] \in Events /\ q[2] \in Events
    BY EdgesFinite DEF Clashes!Around
  <1>2. Clashes!Noticed(ev, e) =
          UNION {Clashes!GroupEdges(edges, g) :
                   g \in {h \in Clashes!Groups(edges) : ~ Clashes!Resolved(ev, edges, h)}}
    BY DEF Clashes!Noticed
  <1> HIDE DEF edges
  <1>3. p \in edges
    BY DEF edges
  <1>4. PICK label : /\ label \in [Events -> Events] /\ Parts(label, edges)
                     /\ Clashes!Groups(edges) = {Sharing(label, edges, x) : x \in Ends(edges)}
    BY <1>1, GroupsLabelled
  <1> DEFINE g == Sharing(label, edges, p[1])
  <1>5. p[1] \in Ends(edges) /\ p[2] \in Ends(edges)
    BY <1>3 DEF Ends
  <1>6. g \in Clashes!Groups(edges)
    BY <1>4, <1>5
  <1>7. {p[1], p[2]} \subseteq g
    BY <1>3, <1>4, <1>5 DEF Sharing, Parts
  <1> HIDE DEF g
  <1>8. p \in Clashes!GroupEdges(edges, g)
    BY <1>3, <1>7 DEF Clashes!GroupEdges
  <1>9. ~ Clashes!Resolved(ev, edges, g)
    BY <1>8 DEF Clashes!Resolved
  <1>10. QED
    BY <1>2, <1>6, <1>8, <1>9

(* A commit that changes one event, and tells the conflicts around it.     *)
LEMMA OneEventTold ==
  ASSUME Clashes!ConstantsAssumption, IsFiniteSet(Events), WithinReach, EventsKept,
         Clashes!ConflictsTold, NEW e \in Events, NEW row \in Clashes!Row, row.state = "live",
         Clashes!Store([event EXCEPT ![e] = row],
                       Clashes!Noticed([event EXCEPT ![e] = row], e))
  PROVE  Clashes!ConflictsTold'
  <1> DEFINE ev == [event EXCEPT ![e] = row]
  <1>1. /\ ev \in [Events -> Clashes!Row \cup {Clashes!NoEvent}] /\ ev[e] = row
        /\ \A f \in Events : f # e => ev[f] = event[f]
    BY DEF EventsKept
  <1>2. /\ event' = ev
        /\ told' = (told \cup Clashes!Noticed(ev, e)) \cap Clashes!Edges(ev, Clashes!Live(ev))
    BY DEF Clashes!Store
  <1> HIDE DEF ev
  <1>3. SUFFICES ASSUME NEW p \in Clashes!Edges(ev, Clashes!Live(ev)), Clashes!Open(ev, p)
                 PROVE  p \in told \cup Clashes!Noticed(ev, e)
    BY <1>2 DEF Clashes!ConflictsTold
  <1>4. /\ p \in Clashes!Pairs /\ p[1] \in Clashes!Live(ev) /\ p[2] \in Clashes!Live(ev)
        /\ Clashes!Clash(ev[p[1]].plan, ev[p[2]].plan)
    BY DEF Clashes!Edges
  <1>5. /\ p[1] \in Events /\ ev[p[1]].plan \in Plans
        /\ p[2] \in Events /\ ev[p[2]].plan \in Plans
    BY <1>1, <1>4, LiveRows
  <1>6. CASE p[1] # e /\ p[2] # e
    <2>1. ev[p[1]] = event[p[1]] /\ ev[p[2]] = event[p[2]]
      BY <1>1, <1>5, <1>6
    <2>2. p \in Clashes!Edges(event, Clashes!Live(event)) /\ Clashes!Open(event, p)
      BY <1>3, <1>4, <2>1 DEF Clashes!Edges, Clashes!Live, Clashes!Open
    <2>3. QED
      BY <2>2 DEF Clashes!ConflictsTold
  <1>7. CASE p[1] = e \/ p[2] = e
    <2> DEFINE d == ev[e].plan.date
               first == IF d > Margin THEN d - Margin ELSE 0
    <2>1. /\ ev[p[1]].plan.date \in Nat /\ ev[p[2]].plan.date \in Nat /\ Margin \in Nat
          /\ ev[p[1]].plan.date <= ev[p[2]].plan.date + Margin
          /\ ev[p[2]].plan.date <= ev[p[1]].plan.date + Margin
      BY <1>4, <1>5, ClashesNear
    <2>2. /\ ev[p[1]].plan.date \in first .. (d + Margin)
          /\ ev[p[2]].plan.date \in first .. (d + Margin)
      BY <1>7, <2>1
    <2>3. Clashes!Around(ev, e) = Clashes!Edges(ev, Clashes!InWindow(ev, first, d + Margin))
      BY DEF Clashes!Around
    <2>4. p[1] \in Clashes!InWindow(ev, first, d + Margin)
            /\ p[2] \in Clashes!InWindow(ev, first, d + Margin)
      BY <1>4, <2>2 DEF Clashes!InWindow
    <2> HIDE DEF first, d
    <2>5. p \in Clashes!Around(ev, e)
      BY <1>4, <2>3, <2>4 DEF Clashes!Edges
    <2>6. QED
      BY <1>3, <2>5, OpenNoticed
  <1>8. QED
    BY <1>6, <1>7

LEMMA NextConflictsTold ==
  ASSUME Clashes!ConstantsAssumption, IsFiniteSet(Events), WithinReach, EventsKept,
         Clashes!ConflictsTold, [Clashes!Next]_(Clashes!vars)
  PROVE  Clashes!ConflictsTold'
  <1>1. CASE UNCHANGED Clashes!vars
    BY <1>1 DEF Clashes!vars, Clashes!ConflictsTold, Clashes!Edges, Clashes!Live, Clashes!Open
  <1>2. ASSUME NEW e \in Events, NEW plan \in Plans, Clashes!CreateEvent(e, plan)
        PROVE  Clashes!ConflictsTold'
    <2>1. Clashes!NewRow(plan) \in Clashes!Row /\ Clashes!NewRow(plan).state = "live"
      BY DEF Clashes!Row, Clashes!NewRow
    <2>2. QED
      BY <1>2, <2>1, OneEventTold DEF Clashes!CreateEvent
  <1>3. ASSUME NEW e \in Events, NEW plan \in Plans, NEW forced \in BOOLEAN,
               Clashes!UpdateEvent(e, plan, forced)
        PROVE  Clashes!ConflictsTold'
    <2>1. e \in Clashes!Live(event)
      BY <1>3 DEF Clashes!UpdateEvent
    <2>2. PICK row \in Clashes!Row :
            LET ev == [event EXCEPT ![e] = row]
            IN Clashes!Store(ev, Clashes!Noticed(ev, e)) /\ row.state = "live"
      BY <1>3, <2>1, UpdatedRow
    <2>3. QED
      BY <2>2, OneEventTold
  <1>4. ASSUME NEW e \in Events, Clashes!DeleteEvent(e)
        PROVE  Clashes!ConflictsTold'
    <2> DEFINE ev == [event EXCEPT ![e].state = "deleted"]
    <2>1. /\ event' = ev /\ told' = told \cap Clashes!Edges(ev, Clashes!Live(ev))
      BY <1>4 DEF Clashes!DeleteEvent, Clashes!Store
    <2>2. /\ \A f \in Events : f # e => ev[f] = event[f]
          /\ e \notin Clashes!Live(ev)
      BY <1>4 DEF EventsKept, Clashes!Live, Clashes!DeleteEvent, Clashes!Row, Clashes!NoEvent
    <2> HIDE DEF ev
    <2>3. ASSUME NEW p \in Clashes!Edges(ev, Clashes!Live(ev)), Clashes!Open(ev, p)
          PROVE  p \in told
      <3>1. /\ p \in Clashes!Pairs /\ p[1] \in Clashes!Live(ev) /\ p[2] \in Clashes!Live(ev)
            /\ Clashes!Clash(ev[p[1]].plan, ev[p[2]].plan)
        BY DEF Clashes!Edges
      <3>2. ev[p[1]] = event[p[1]] /\ ev[p[2]] = event[p[2]]
        BY <2>2, <3>1 DEF Clashes!Live
      <3>3. p \in Clashes!Edges(event, Clashes!Live(event)) /\ Clashes!Open(event, p)
        BY <2>3, <3>1, <3>2 DEF Clashes!Edges, Clashes!Live, Clashes!Open
      <3>4. QED
        BY <3>3 DEF Clashes!ConflictsTold
    <2>4. QED
      BY <2>1, <2>3 DEF Clashes!ConflictsTold
  <1>5. \A op \in {"create_series", "restore", "resolve"} : op \notin Operations
    BY DEF WithinReach
  <1>6. QED
    BY <1>1, <1>2, <1>3, <1>4, <1>5
    DEF Clashes!Next, Clashes!RestoreEvent, Clashes!CreateSeries, Clashes!Resolve

(* Events, and the pairs of them that are told, keep their types.          *)
THEOREM ConflictsTypeCorrect == IsFiniteSet(Events) /\ Clashes!Spec => []Clashes!TypeOK
  <1> SUFFICES ASSUME IsFiniteSet(Events)
               PROVE  Clashes!Spec => []Clashes!TypeOK
    OBVIOUS
  <1>1. Clashes!Init => Clashes!TypeOK
    BY DEF Clashes!Init, Clashes!TypeOK
  <1>2. Clashes!TypeOK /\ [Clashes!Next]_(Clashes!vars) => Clashes!TypeOK'
    BY NextEvents, NextTold DEF Clashes!TypeOK, EventsKept
  <1>3. QED
    BY <1>1, <1>2, PTL DEF Clashes!Spec

(* For any events, rules and places: a conflict that the creation or the   *)
(* update of an event introduces, and that nobody resolved, is told, as    *)
(* long as the rules reach no further than the days looked at and no       *)
(* event comes about or back in another way.                               *)
THEOREM ConflictsAlwaysTold ==
  Clashes!ConstantsAssumption /\ IsFiniteSet(Events) /\ WithinReach /\ Clashes!Spec
    => []Clashes!ConflictsTold
  <1> SUFFICES ASSUME Clashes!ConstantsAssumption, IsFiniteSet(Events), WithinReach
               PROVE  Clashes!Spec => []Clashes!ConflictsTold
    OBVIOUS
  <1>1. Clashes!Init => EventsKept /\ Clashes!ConflictsTold
    BY DEF Clashes!Init, EventsKept, Clashes!ConflictsTold, Clashes!Edges, Clashes!Live,
       Clashes!NoEvent
  <1>2. EventsKept /\ Clashes!ConflictsTold /\ [Clashes!Next]_(Clashes!vars) =>
          EventsKept' /\ Clashes!ConflictsTold'
    BY NextEvents, NextConflictsTold
  <1>3. QED
    BY <1>1, <1>2, PTL DEF Clashes!Spec
=============================================================================
