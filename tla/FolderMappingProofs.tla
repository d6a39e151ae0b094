------------------------- MODULE FolderMappingProofs -------------------------
(* Wherever requests overlap and are cut off: a mapped folder has an owner *)
(* that exists, and no two folders the same.  A collection reaches a       *)
(* folder only from the request that created it, which lets go of it then, *)
(* and a deletion knows every folder of its collection.                    *)
EXTENDS FolderMapping, TLAPS, FiniteSetTheorems

(* The types of the variables, whatever it is that requests have to do.    *)
HandlerOf(Todos) == [phase: {"idle", "create", "map", "commit", "delete", "load", "write"},
                     todo: Todos, collection: Collections \cup {Null}, affected: SUBSET Folders,
                     loaded: [Folders -> BOOLEAN], computed: [Folders -> BOOLEAN]]
Shapes == /\ rows \in [Folders -> Row]
          /\ \E Todos : handler \in [Handlers -> HandlerOf(Todos)]

Creating(h) == handler[h].phase \in {"map", "commit"}

(* What folders and requests hold exists ...                               *)
HeldLive == /\ live \subseteq Collections
            /\ \A f \in Folders : rows[f].collection \in live \cup {Null}
            /\ \A h \in Handlers : Creating(h) => handler[h].collection \in live

(* ... nothing is held twice, and what a request creates by nobody else    *)
(* ...                                                                     *)
HeldOnce ==
  /\ \A f, g \in Folders : rows[f].collection = rows[g].collection
                             => f = g \/ rows[f].collection = Null
  /\ \A h \in Handlers : Creating(h) =>
       /\ \A i \in Handlers : handler[i].collection = handler[h].collection => i = h
       /\ \A f \in Folders : rows[f].collection # handler[h].collection

(* ... and what a deletion has read are all folders of its collection, and *)
(* maybe some that are not so any more.                                    *)
AffectedAll ==
  \A h \in Handlers : handler[h].phase = "delete" =>
    /\ handler[h].collection \in Collections
    /\ \A f \in Folders : rows[f].collection = handler[h].collection => f \in handler[h].affected

IInv == Shapes /\ HeldLive /\ HeldOnce /\ AffectedAll

(* A collection is deleted early by nobody, or by nobody else.             *)
Orderly == EarlyDeletes => \A h, i \in Handlers : h = i

-----------------------------------------------------------------------------
(* A request in state y holds nothing that it did not hold in state x.     *)
LetsGo(x, y) ==
  \/ y.phase \notin {"map", "commit", "delete"} /\ y.collection = Null
  \/ /\ y.collection = x.collection /\ y.affected = x.affected
     /\ y.phase \in {"map", "commit"} => x.phase \in {"map", "commit"}
     /\ y.phase = "delete" => x.phase = "delete"

(* A step after which everything is held by who held it, or by nobody.     *)
LEMMA OnlyLetsGo ==
  ASSUME ConstantsAssumption, IInv, Shapes', live' = live,
         \A f \in Folders : rows'[f].collection \in {rows[f].collection, Null},
         \A h \in Handlers : LetsGo(handler[h], handler'[h])
  PROVE  IInv'
  <1>1. \A h \in Handlers : Creating(h)' => /\ Creating(h) /\ handler[h].collection # Null
                                            /\ handler'[h].collection = handler[h].collection
    BY DEF Creating, LetsGo, IInv, HeldLive, ConstantsAssumption
  <1>2. \A h \in Handlers : handler'[h].collection \in {handler[h].collection, Null}
    BY DEF LetsGo
  <1>3. HeldLive'
    BY <1>1 DEF IInv, HeldLive
  <1>4. HeldOnce'
    BY <1>1, <1>2 DEF IInv, HeldOnce
  <1>5. AffectedAll'
    BY DEF LetsGo, IInv, AffectedAll, ConstantsAssumption
  <1>6. QED
    BY <1>3, <1>4, <1>5 DEF IInv

LEMMA IdleShape ==
  /\ Idle \in HandlerOf({<<>>}) /\ Idle.phase = "idle" /\ Idle.collection = Null
  /\ Idle.affected = {} /\ Idle.todo = <<>>
  BY DEF HandlerOf, Idle, NoFlags

LEMMA TaskShape ==
  ASSUME NEW x \in {"create", "load"}, NEW todo
  PROVE  /\ Task(x, todo) \in HandlerOf({todo}) /\ Task(x, todo).phase = x
         /\ Task(x, todo).collection = Null /\ Task(x, todo).todo = todo
  BY DEF HandlerOf, Task, Idle, NoFlags

LEMMA NoRowShape == NoRow \in Row /\ NoRow.collection = Null
  BY DEF Row, NoRow

(* The state of one request is replaced.                                   *)
LEMMA HandlerStep ==
  ASSUME Shapes, NEW h \in Handlers, NEW Todos, NEW p \in HandlerOf(Todos),
         handler' = [handler EXCEPT ![h] = p]
  PROVE  /\ \E S : handler' \in [Handlers -> HandlerOf(S)]
         /\ handler'[h] = p /\ \A i \in Handlers \ {h} : handler'[i] = handler[i]
  <1>1. PICK S : handler \in [Handlers -> HandlerOf(S)]
    BY DEF Shapes
  <1>2. \A v \in HandlerOf(S) \cup HandlerOf(Todos) : v \in HandlerOf(S \cup Todos)
    BY DEF HandlerOf
  <1>3. handler' \in [Handlers -> HandlerOf(S \cup Todos)]
    BY <1>1, <1>2
  <1>4. handler'[h] = p /\ \A i \in Handlers \ {h} : handler'[i] = handler[i]
    BY <1>1
  <1>5. QED
    BY <1>3, <1>4

LEMMA HandlerAt ==
  ASSUME Shapes, NEW h \in Handlers
  PROVE  \E Todos : handler[h] \in HandlerOf(Todos)
  BY DEF Shapes

-----------------------------------------------------------------------------
(* The steps of the inventory.                                             *)

LEMMA ImportKeepsIInv ==
  ASSUME ConstantsAssumption, IInv, NEW S, StoreFolders(S)
  PROVE  IInv'
  <1> DEFINE new == [NoRow EXCEPT !.stored = TRUE]
  <1>1. rows' = [f \in Folders |-> IF f \in S /\ ~ rows[f].stored THEN new ELSE rows[f]]
    BY DEF StoreFolders
  <1>2. new \in Row /\ new.collection = Null
    BY DEF NoRow, Row
  <1> HIDE DEF new
  <1>3. \A f \in Folders : /\ rows'[f] \in Row
                           /\ rows'[f].collection \in {rows[f].collection, Null}
    BY <1>1, <1>2 DEF IInv, Shapes
  <1>4. Shapes'
    BY <1>1, <1>3 DEF StoreFolders, IInv, Shapes
  <1>5. \A h \in Handlers : LetsGo(handler[h], handler'[h])
    BY DEF StoreFolders, LetsGo
  <1>6. QED
    BY <1>3, <1>4, <1>5, OnlyLetsGo DEF StoreFolders

LEMMA ClearKeepsIInv ==
  ASSUME ConstantsAssumption, IInv, ClearConfig
  PROVE  IInv'
  <1> DEFINE cut == Task("create", <<>>)
  <1>1. rows' = [f \in Folders |-> NoRow] /\ live' = live
    BY DEF ClearConfig
  <1>2. handler' = [h \in Handlers |->
                     IF handler[h].phase \in {"idle", "delete"} /\ handler[h].affected = {}
                     THEN handler[h] ELSE cut]
    BY DEF ClearConfig
  <1>3. cut \in HandlerOf({<<>>}) /\ cut.phase = "create" /\ cut.collection = Null
    BY TaskShape
  <1> HIDE DEF cut
  <1>4. PICK S : handler \in [Handlers -> HandlerOf(S)]
    BY DEF IInv, Shapes
  <1>5. \A v \in HandlerOf(S) \cup HandlerOf({<<>>}) : v \in HandlerOf(S \cup {<<>>})
    BY DEF HandlerOf
  <1>6. handler' \in [Handlers -> HandlerOf(S \cup {<<>>})]
    BY <1>2, <1>3, <1>4, <1>5
  <1>7. Shapes'
    BY <1>1, <1>6, NoRowShape DEF Shapes
  <1>8. \A f \in Folders : rows'[f].collection = Null
    BY <1>1, NoRowShape
  <1>9. \A h \in Handlers : LetsGo(handler[h], handler'[h])
    BY <1>2, <1>3 DEF LetsGo
  <1>10. QED
    BY <1>1, <1>7, <1>8, <1>9, OnlyLetsGo

-----------------------------------------------------------------------------
(* The steps of a request.                                                 *)

(* A request moves on and lets go of what it had or keeps it; the rows     *)
(* keep their owners.                                                      *)
LEMMA RequestStep ==
  ASSUME ConstantsAssumption, IInv, NEW h \in Handlers, NEW Todos, NEW p \in HandlerOf(Todos),
         handler' = [handler EXCEPT ![h] = p], LetsGo(handler[h], p),
         live' = live, rows' \in [Folders -> Row],
         \A f \in Folders : rows'[f].collection = rows[f].collection
  PROVE  IInv'
  <1>1. Shapes'
    BY HandlerStep DEF IInv, Shapes
  <1>2. \A i \in Handlers : LetsGo(handler[i], handler'[i])
    BY HandlerStep DEF IInv, LetsGo
  <1>3. QED
    BY <1>1, <1>2, OnlyLetsGo

LEMMA CreateKeepsIInv ==
  ASSUME ConstantsAssumption, IInv, NEW h \in Handlers, NEW c \in Collections,
         CreateCollection(h, c)
  PROVE  IInv'
  <1> DEFINE p == [[handler[h] EXCEPT !.phase = "map"] EXCEPT !.collection = c]
  <1>1. PICK Todos : handler[h] \in HandlerOf(Todos)
    BY HandlerAt DEF IInv
  <1>2. p \in HandlerOf(Todos) /\ p.collection = c /\ p.phase = "map"
    BY <1>1 DEF HandlerOf
  <1>3. handler' = [handler EXCEPT ![h] = p]
    BY DEF CreateCollection, IInv, Shapes
  <1> HIDE DEF p
  <1>4. Fresh(c) /\ live' = live \cup {c} /\ rows' = rows
    BY DEF CreateCollection
  <1>5. handler'[h] = p /\ \A i \in Handlers \ {h} : handler'[i] = handler[i]
    BY <1>2, <1>3, HandlerStep DEF IInv
  <1>6. Shapes'
    BY <1>2, <1>3, <1>4, HandlerStep DEF IInv, Shapes
  <1>7. HeldLive'
    BY <1>2, <1>4, <1>5 DEF IInv, HeldLive, Creating
  <1>8. HeldOnce'
    BY <1>2, <1>4, <1>5 DEF IInv, HeldLive, HeldOnce, Creating, Fresh
  <1>9. AffectedAll'
    BY <1>2, <1>4, <1>5 DEF IInv, AffectedAll
  <1>10. QED
    BY <1>6, <1>7, <1>8, <1>9 DEF IInv

LEMMA MapStep ==
  ASSUME Shapes, NEW h \in Handlers, MapFolder(h)
  PROVE  \E p \in HandlerOf({handler[h].todo}), q \in HandlerOf({Tail(handler[h].todo)}) :
             /\ p.phase = "commit" /\ p.todo = handler[h].todo
             /\ p.collection = handler[h].collection /\ p.affected = handler[h].affected
             /\ q.phase = "create" /\ q.collection = Null
             /\ \/ /\ MayMap(Head(handler[h].todo), handler[h].collection)
                   /\ handler' = [handler EXCEPT ![h] = p]
                \/ handler' = [handler EXCEPT ![h] = q]
  <1> DEFINE rest == Tail(handler[h].todo)
             p == [handler[h] EXCEPT !.phase = "commit"]
             q == Task("create", rest)
  <1>1. handler[h] \in HandlerOf({handler[h].todo})
    BY HandlerAt DEF HandlerOf
  <1>2. /\ p \in HandlerOf({handler[h].todo}) /\ p.phase = "commit"
        /\ p.collection = handler[h].collection /\ p.affected = handler[h].affected
        /\ p.todo = handler[h].todo
    BY <1>1 DEF HandlerOf
  <1>3. q \in HandlerOf({rest}) /\ q.phase = "create" /\ q.collection = Null
    BY TaskShape
  <1>4. handler' = [handler EXCEPT ![h] =
                      IF MayMap(Head(handler[h].todo), handler[h].collection) THEN p ELSE q]
    BY DEF MapFolder, Shapes
  <1> HIDE DEF p, q
  <1>5. QED
    BY <1>2, <1>3, <1>4

LEMMA MapKeepsIInv ==
  ASSUME ConstantsAssumption, IInv, NEW h \in Handlers, MapFolder(h)
  PROVE  IInv'
  <1>1. rows' = rows /\ live' = live /\ handler[h].phase = "map"
    BY DEF MapFolder
  <1>2. PICK p \in HandlerOf({handler[h].todo}) \cup HandlerOf({Tail(handler[h].todo)}) :
          /\ handler' = [handler EXCEPT ![h] = p]
          /\ \/ p.phase = "commit" /\ p.collection = handler[h].collection
                /\ p.affected = handler[h].affected
             \/ p.phase = "create" /\ p.collection = Null
    BY MapStep DEF IInv
  <1>3. LetsGo(handler[h], p)
    BY <1>1, <1>2 DEF LetsGo
  <1>4. QED
    BY <1>1, <1>2, <1>3, RequestStep DEF IInv, Shapes

(* The folder gets what nobody else holds.                                 *)
LEMMA CommitKeepsIInv ==
  ASSUME ConstantsAssumption, IInv, NEW h \in Handlers, CommitMapping(h)
  PROVE  IInv'
  <1> DEFINE f == Head(handler[h].todo)
             c == handler[h].collection
             rest == Tail(handler[h].todo)
             p == Task("load", rest)
  <1>1. /\ rows' = [rows EXCEPT ![f].collection = c] /\ live' = live
        /\ handler' = [handler EXCEPT ![h] = p] /\ Creating(h)
    BY DEF CommitMapping, Creating
  <1>2. p \in HandlerOf({rest}) /\ p.phase = "load" /\ p.collection = Null
    BY TaskShape
  <1> HIDE DEF f, p, rest
  <1>3. /\ c \in live /\ c # Null /\ c \in Collections
        /\ \A i \in Handlers : handler[i].collection = c => i = h
        /\ \A g \in Folders : rows[g].collection # c
    BY <1>1 DEF IInv, HeldLive, HeldOnce, ConstantsAssumption
  <1> HIDE DEF c
  <1>4. ASSUME NEW g \in Folders
        PROVE  /\ rows'[g] \in Row
               /\ rows'[g].collection = IF g = f THEN c ELSE rows[g].collection
    BY <1>1, <1>3 DEF IInv, Shapes, Row
  <1>5. rows' \in [Folders -> Row]
    BY <1>1, <1>4 DEF IInv, Shapes
  <1>6. handler'[h] = p /\ \A i \in Handlers \ {h} : handler'[i] = handler[i]
    BY <1>1, <1>2, HandlerStep DEF IInv
  <1>7. Shapes'
    BY <1>1, <1>2, <1>5, HandlerStep DEF IInv, Shapes
  <1>8. \A i \in Handlers : Creating(i)' => Creating(i) /\ i # h /\ handler'[i] = handler[i]
    BY <1>2, <1>6 DEF Creating
  <1>9. HeldLive'
    BY <1>1, <1>3, <1>4, <1>8 DEF IInv, HeldLive
  <1>10. HeldOnce'
    <2>1. \A g, k \in Folders : rows'[g].collection = rows'[k].collection
                                  => g = k \/ rows'[g].collection = Null
      BY <1>3, <1>4 DEF IInv, HeldOnce
    <2>2. ASSUME NEW i \in Handlers, Creating(i)'
          PROVE  /\ \A k \in Handlers : handler'[k].collection = handler'[i].collection => k = i
                 /\ \A g \in Folders : rows'[g].collection # handler'[i].collection
      <3>1. Creating(i) /\ i # h /\ handler'[i] = handler[i] /\ handler[i].collection # Null
        BY <1>8, <2>2 DEF IInv, HeldLive, ConstantsAssumption
      <3>2. QED
        BY <1>2, <1>3, <1>4, <1>6, <3>1 DEF IInv, HeldOnce
    <2>3. QED
      BY <2>1, <2>2 DEF HeldOnce
  <1>11. AffectedAll'
    <2>1. ASSUME NEW i \in Handlers, handler'[i].phase = "delete"
          PROVE  i # h /\ handler'[i] = handler[i] /\ handler[i].collection # c
      BY <1>2, <1>3, <1>6, <2>1
    <2>2. QED
      BY <1>4, <2>1 DEF IInv, AffectedAll
  <1>12. QED
    BY <1>7, <1>9, <1>10, <1>11 DEF IInv

LEMMA FlagsKeepIInv ==
  ASSUME ConstantsAssumption, IInv, NEW h \in Handlers, LoadFlags(h) \/ WriteFlags(h)
  PROVE  IInv'
  <1>1. PICK Todos : handler[h] \in HandlerOf(Todos)
    BY HandlerAt DEF IInv
  <1>2. CASE LoadFlags(h)
    <2> DEFINE seen == [g \in Folders |-> rows[g].mappable]
               now == [g \in Folders |-> Computed(g)]
               p == [[[handler[h] EXCEPT !.phase = "write"] EXCEPT !.loaded = seen]
                       EXCEPT !.computed = now]
    <2>1. seen \in [Folders -> BOOLEAN]
      BY DEF IInv, Shapes, Row
    <2>2. now \in [Folders -> BOOLEAN]
      BY DEF Computed, MappableNow
    <2>a. /\ handler' = [handler EXCEPT ![h].phase = "write", ![h].loaded = seen,
                                        ![h].computed = now]
          /\ live' = live /\ rows' = rows
      BY <1>2, Zenon DEF LoadFlags
    <2> HIDE DEF seen, now
    <2>3. handler' = [handler EXCEPT ![h] = p]
      BY <2>a DEF IInv, Shapes
    <2>4. /\ p \in HandlerOf(Todos) /\ p.collection = handler[h].collection
          /\ p.affected = handler[h].affected /\ p.phase = "write"
      BY <1>1, <2>1, <2>2 DEF HandlerOf
    <2> HIDE DEF p
    <2>5. LetsGo(handler[h], p)
      BY <2>4 DEF LetsGo
    <2>6. QED
      BY <2>a, <2>3, <2>4, <2>5, RequestStep DEF IInv, Shapes
  <1>3. CASE WriteFlags(h)
    <2> DEFINE p == [[[handler[h] EXCEPT !.phase = "create"] EXCEPT !.loaded = NoFlags]
                       EXCEPT !.computed = NoFlags]
    <2>1. /\ p \in HandlerOf(Todos) /\ p.collection = handler[h].collection
          /\ p.affected = handler[h].affected /\ p.phase = "create"
      BY <1>1 DEF HandlerOf, NoFlags
    <2>2. handler' = [handler EXCEPT ![h] = p] /\ live' = live
      BY <1>3 DEF WriteFlags, IInv, Shapes
    <2> HIDE DEF p
    <2>3. rows' = [f \in Folders |->
                     IF rows[f].stored /\ handler[h].loaded[f] # handler[h].computed[f]
                     THEN [rows[f] EXCEPT !.mappable = handler[h].computed[f]] ELSE rows[f]]
      BY <1>3 DEF WriteFlags
    <2>4. ASSUME NEW f \in Folders
          PROVE  rows'[f] \in Row /\ rows'[f].collection = rows[f].collection
      <3>1. rows[f] \in Row /\ handler[h].computed[f] \in BOOLEAN
        BY <1>1 DEF IInv, Shapes, HandlerOf
      <3>2. \A x \in BOOLEAN : /\ [rows[f] EXCEPT !.mappable = x] \in Row
                               /\ [rows[f] EXCEPT !.mappable = x].collection = rows[f].collection
        BY <3>1 DEF Row
      <3>3. QED
        BY <2>3, <3>1, <3>2
    <2>5. rows' \in [Folders -> Row]
      BY <2>3, <2>4
    <2>6. LetsGo(handler[h], p)
      BY <2>1 DEF LetsGo
    <2>7. QED
      BY <2>1, <2>2, <2>4, <2>5, <2>6, RequestStep
  <1>4. QED
    BY <1>2, <1>3

(* The state of a request that begins to delete.                           *)
LEMMA DeleteStep ==
  ASSUME Shapes, NEW h \in Handlers, NEW c \in Collections, DeleteCollection(h, c)
  PROVE  \E p \in HandlerOf({<<>>}) :
           /\ handler' = [handler EXCEPT ![h] = p] /\ p.phase = "delete" /\ p.collection = c
           /\ p.affected = {f \in Folders : rows[f].collection = c}
  <1> DEFINE S == {f \in Folders : rows[f].collection = c}
             p == [Idle EXCEPT !.phase = "delete", !.collection = c, !.affected = S]
  <1>1. S \in SUBSET Folders /\ handler' = [handler EXCEPT ![h] = p]
    BY DEF DeleteCollection
  <1> HIDE DEF S
  <1>2. p \in HandlerOf({<<>>}) /\ p.phase = "delete" /\ p.collection = c /\ p.affected = S
    BY <1>1 DEF HandlerOf, Idle, NoFlags
  <1> HIDE DEF p
  <1>3. QED
    BY <1>1, <1>2 DEF S

LEMMA DeleteKeepsIInv ==
  ASSUME ConstantsAssumption, Orderly, IInv, NEW h \in Handlers, NEW c \in Collections,
         DeleteCollection(h, c)
  PROVE  IInv'
  <1>1. PICK p \in HandlerOf({<<>>}) :
          /\ handler' = [handler EXCEPT ![h] = p] /\ p.phase = "delete" /\ p.collection = c
          /\ p.affected = {f \in Folders : rows[f].collection = c}
    BY DeleteStep DEF IInv
  <1>a. live' = live /\ rows' = rows /\ c \in Collections
    BY DEF DeleteCollection
  <1>2. handler'[h] = p /\ \A i \in Handlers \ {h} : handler'[i] = handler[i]
    BY <1>1, HandlerStep DEF IInv
  <1>3. \A i \in Handlers : Creating(i) => handler[i].collection # c
    BY DEF DeleteCollection, Creating, Orderly
  <1>4. Shapes'
    BY <1>a, <1>1, HandlerStep DEF IInv, Shapes
  <1>5. HeldLive'
    BY <1>a, <1>1, <1>2 DEF IInv, HeldLive, Creating
  <1>6. HeldOnce'
    BY <1>a, <1>1, <1>2, <1>3 DEF IInv, HeldOnce, Creating
  <1>7. AffectedAll'
    BY <1>a, <1>1, <1>2 DEF IInv, AffectedAll
  <1>8. QED
    BY <1>4, <1>5, <1>6, <1>7 DEF IInv

(* The rows after a deletion.                                              *)
LEMMA UnmappedRows ==
  ASSUME Shapes, NEW S, rows' = Unmapped(S)
  PROVE  /\ rows' \in [Folders -> Row]
         /\ \A f \in Folders :
              /\ rows'[f].stored = rows[f].stored /\ rows'[f].mappable = rows[f].mappable
              /\ rows'[f].collection = IF f \in S THEN Null ELSE rows[f].collection
              /\ rows[f] = NoRow => rows'[f] = NoRow
  <1>1. ASSUME NEW f \in Folders
        PROVE  /\ rows'[f] \in Row
               /\ rows'[f].stored = rows[f].stored /\ rows'[f].mappable = rows[f].mappable
               /\ rows'[f].collection = IF f \in S THEN Null ELSE rows[f].collection
               /\ rows[f] = NoRow => rows'[f] = NoRow
    <2>1. rows[f] \in Row
      BY DEF Shapes
    <2>2. /\ [rows[f] EXCEPT !.collection = Null] \in Row
          /\ [rows[f] EXCEPT !.collection = Null].collection = Null
          /\ [rows[f] EXCEPT !.collection = Null].stored = rows[f].stored
          /\ [rows[f] EXCEPT !.collection = Null].mappable = rows[f].mappable
          /\ rows[f] = NoRow => [rows[f] EXCEPT !.collection = Null] = NoRow
      BY <2>1 DEF Row, NoRow
    <2>3. rows'[f] = IF f \in S THEN [rows[f] EXCEPT !.collection = Null] ELSE rows[f]
      BY DEF Unmapped
    <2>4. QED
      BY <2>1, <2>2, <2>3
  <1>2. QED
    BY <1>1 DEF Unmapped

LEMMA CommitDeleteKeepsIInv ==
  ASSUME ConstantsAssumption, IInv, NEW h \in Handlers, CommitDelete(h)
  PROVE  IInv'
  <1> DEFINE S == handler[h].affected
             c == handler[h].collection
             x == IF S = {} THEN "create" ELSE "load"
             p == Task(x, <<>>)
  <1>1. /\ handler[h].phase = "delete" /\ live' = live \ {c} /\ rows' = Unmapped(S)
        /\ handler' = [handler EXCEPT ![h] = p]
    BY DEF CommitDelete
  <1>2. p \in HandlerOf({<<>>}) /\ p.phase \in {"create", "load"} /\ p.collection = Null
    BY TaskShape
  <1> HIDE DEF p
  <1>3. handler'[h] = p /\ \A i \in Handlers \ {h} : handler'[i] = handler[i]
    BY <1>1, <1>2, HandlerStep DEF IInv
  <1>4. /\ rows' \in [Folders -> Row]
        /\ \A f \in Folders : rows'[f].collection = IF f \in S THEN Null ELSE rows[f].collection
    BY <1>1, UnmappedRows DEF IInv
  <1>5. \A f \in Folders : rows[f].collection = c => f \in S
    BY <1>1 DEF IInv, AffectedAll
  <1>6. \A i \in Handlers : Creating(i)' => /\ Creating(i) /\ handler'[i] = handler[i]
                                            /\ handler[i].collection \notin {c, Null}
    BY <1>1, <1>2, <1>3 DEF Creating, IInv, HeldOnce, HeldLive, ConstantsAssumption
  <1>7. Shapes'
    BY <1>1, <1>2, <1>4, HandlerStep DEF IInv, Shapes
  <1>8. HeldLive'
    BY <1>1, <1>4, <1>5, <1>6 DEF IInv, HeldLive
  <1>9. HeldOnce'
    BY <1>2, <1>3, <1>4, <1>6 DEF IInv, HeldOnce
  <1>10. AffectedAll'
    BY <1>2, <1>3, <1>4 DEF IInv, AffectedAll, ConstantsAssumption
  <1>11. QED
    BY <1>7, <1>8, <1>9, <1>10 DEF IInv

(* A request that begins, ends or is cut off.                              *)
LEMMA EdgesKeepIInv ==
  ASSUME ConstantsAssumption, IInv, NEW h \in Handlers,
         (\E sel \in Selections : RequestCollections(h, sel)) \/ Done(h) \/ Crash(h)
  PROVE  IInv'
  <1>1. CASE \E sel \in Selections : RequestCollections(h, sel)
    <2>1. PICK sel \in Selections : RequestCollections(h, sel)
      BY <1>1
    <2> DEFINE todo == Kept(sel)
               p == Task("create", todo)
    <2>2. handler' = [handler EXCEPT ![h] = p] /\ live' = live /\ rows' = rows
      BY <2>1 DEF RequestCollections
    <2> HIDE DEF todo
    <2>3. p \in HandlerOf({todo}) /\ p.phase = "create" /\ p.collection = Null
      BY TaskShape
    <2> HIDE DEF p
    <2>4. LetsGo(handler[h], p)
      BY <2>3 DEF LetsGo
    <2>5. QED
      BY <2>2, <2>3, <2>4, RequestStep DEF IInv, Shapes
  <1>2. CASE Done(h) \/ Crash(h)
    <2>1. handler' = [handler EXCEPT ![h] = Idle] /\ live' = live /\ rows' = rows
      BY <1>2 DEF Done, Crash
    <2>2. LetsGo(handler[h], Idle)
      BY IdleShape DEF LetsGo
    <2>3. QED
      BY <2>1, <2>2, IdleShape, RequestStep DEF IInv, Shapes
  <1>3. QED
    BY <1>1, <1>2

-----------------------------------------------------------------------------
LEMMA InitIInv ==
  ASSUME Init
  PROVE  IInv
  <1>1. Shapes
    BY IdleShape, NoRowShape DEF Init, Shapes
  <1>2. /\ \A f \in Folders : rows[f].collection = Null
        /\ \A h \in Handlers : handler[h].phase = "idle"
        /\ live = {}
    BY IdleShape, NoRowShape DEF Init
  <1>3. QED
    BY <1>1, <1>2 DEF IInv, HeldLive, HeldOnce, AffectedAll, Creating

LEMMA NextIInv ==
  ASSUME ConstantsAssumption, Orderly, IInv, [Next]_vars
  PROVE  IInv'
  <1>1. CASE Import
    BY <1>1, ImportKeepsIInv DEF Import
  <1>2. CASE ClearConfig
    BY <1>2, ClearKeepsIInv
  <1>3. CASE \E h \in Handlers : Handle(h)
    <2>1. PICK h \in Handlers : Handle(h)
      BY <1>3
    <2>2. QED
      BY <2>1, EdgesKeepIInv, MapKeepsIInv, CommitKeepsIInv, CommitDeleteKeepsIInv,
         FlagsKeepIInv, CreateKeepsIInv DEF Handle
  <1>4. CASE \E h \in Handlers : \/ \E sel \in Selections : RequestCollections(h, sel)
                                 \/ \E c \in Collections : DeleteCollection(h, c)
                                 \/ Crash(h)
    BY <1>4, EdgesKeepIInv, DeleteKeepsIInv
  <1>5. CASE UNCHANGED vars
    BY <1>5 DEF vars, IInv, Shapes, HeldLive, HeldOnce, AffectedAll, Creating
  <1>6. QED
    BY <1>1, <1>2, <1>3, <1>4, <1>5 DEF Next

(* Unless a collection is deleted before the request that creates it has   *)
(* mapped it: the collection of a mapped folder exists, and is the         *)
(* collection of no other folder, however many requests map, unmap and     *)
(* delete at a time, the same collection included, and wherever one of     *)
(* them is cut off.                                                        *)
THEOREM OwnersAlwaysExist ==
  ConstantsAssumption /\ ~ EarlyDeletes /\ Spec => []OwnersExist
  <1> SUFFICES ASSUME ConstantsAssumption, ~ EarlyDeletes
               PROVE  Spec => []OwnersExist
    OBVIOUS
  <1>1. Init => IInv
    BY InitIInv
  <1>2. IInv /\ [Next]_vars => IInv'
    BY NextIInv DEF Orderly
  <1>3. IInv => OwnersExist
    <2> SUFFICES ASSUME IInv
                 PROVE  OwnersExist
      OBVIOUS
    <2>1. \A f \in Mapped : f \in Folders /\ rows[f].collection # Null
      BY DEF Mapped, Stored
    <2>2. QED
      BY <2>1 DEF OwnersExist, IInv, HeldLive, HeldOnce
  <1>4. QED
    BY <1>1, <1>2, <1>3, PTL DEF Spec
-----------------------------------------------------------------------------
(* One request at a time, none of them cut off: otherwise the flags go     *)
(* stale, and folders of one listing that overlap can be mapped.           *)
OneRequest == (\E h : Handlers = {h}) /\ MaxCrashes = 0

(* The only row without an inventory is the default; the folders of the    *)
(* first inventory are stored together, and then all others.               *)
Listed == /\ \A f \in Folders : ~ rows[f].stored => rows[f] = NoRow
          /\ Stored \in {{}, Folders \ NewFolders, Folders}

(* What a flag may say of a folder: if it denies a mapping then there is a *)
(* reason, and if it allows one then no folder of its listing, nor one     *)
(* listed later, is in the way.                                            *)
MaySay(f, flag) ==
  /\ MappableNow(f) => flag
  /\ flag => f \notin Mapped /\ \A g \in Mapped : Overlap(f, g) => f \in NewFolders /\ g \notin NewFolders
FlagsRight == \A f \in Folders : MaySay(f, rows[f].mappable)

Allowed(p) == Head(p.todo) \in Folders => rows[Head(p.todo)].stored /\ rows[Head(p.todo)].mappable

(* Outside a recalculation the flags are right; what a recalculation has   *)
(* computed is right when it writes, and what a request has looked up when *)
(* it commits.                                                             *)
Recalculating ==
  \A h \in Handlers :
    /\ handler[h].phase \notin {"load", "write"} => FlagsRight
    /\ handler[h].phase = "write" =>
         \A f \in Folders : /\ handler[h].loaded[f] = rows[f].mappable
                            /\ MaySay(f, handler[h].computed[f])
    /\ handler[h].phase = "commit" => Allowed(handler[h])

Disjoint == \A f, g \in Mapped : SameListing(f, g) => ~ Overlap(f, g)

SInv == IInv /\ Listed /\ Disjoint /\ Recalculating /\ crashes = 0

(* A step that maps and unmaps no folder and keeps the flags.              *)
LEMMA MappingsKept ==
  ASSUME \A f \in Folders : /\ rows'[f].mappable = rows[f].mappable
                            /\ rows'[f].stored /\ rows'[f].collection # Null
                                 <=> rows[f].stored /\ rows[f].collection # Null
  PROVE  /\ Mapped' = Mapped
         /\ Disjoint => Disjoint'
         /\ \A f \in Folders, flag \in BOOLEAN : MaySay(f, flag) => MaySay(f, flag)'
         /\ FlagsRight => FlagsRight'
  <1>1. Mapped' = Mapped
    BY DEF Mapped, Stored
  <1>2. \A f \in Folders : MappableNow(f)' <=> MappableNow(f)
    BY <1>1 DEF MappableNow
  <1>3. QED
    BY <1>1, <1>2 DEF Disjoint, FlagsRight, MaySay

(* A folder whose row is not stored is in the way of no mapped folder that *)
(* was listed with it.                                                     *)
LEMMA UnlistedIsMappable ==
  ASSUME SInv, NEW f \in Folders, ~ rows[f].stored
  PROVE  rows[f].mappable = TRUE /\ MaySay(f, TRUE)
  <1>1. rows[f].mappable = TRUE /\ f \notin Mapped /\ f \notin Stored
    BY DEF SInv, Listed, NoRow, Mapped, Stored
  <1>2. \A g \in Mapped : g \in Stored
    BY DEF Mapped
  <1>3. Stored = {} \/ Stored = Folders \ NewFolders
    BY <1>1 DEF SInv, Listed
  <1>4. QED
    BY <1>1, <1>2, <1>3 DEF MaySay

LEMMA ImportKeepsSInv ==
  ASSUME ConstantsAssumption, SInv, Import
  PROVE  Listed' /\ Disjoint' /\ Recalculating'
  <1> DEFINE new == [NoRow EXCEPT !.stored = TRUE]
  <1>1. PICK S : /\ StoreFolders(S)
                 /\ (Stored = {} /\ S = Folders \ NewFolders) \/ S = Folders
    BY DEF Import
  <1>2. rows' = [f \in Folders |-> IF f \in S /\ ~ rows[f].stored THEN new ELSE rows[f]]
        /\ handler' = handler
    BY <1>1 DEF StoreFolders
  <1>3. new.stored /\ new.mappable = TRUE /\ new.collection = Null
        /\ NoRow.mappable = TRUE /\ NoRow.collection = Null
    BY DEF NoRow
  <1> HIDE DEF new
  <1>4. \A f \in Folders : ~ rows[f].stored => rows[f].mappable = TRUE /\ rows[f].collection = Null
    BY <1>3 DEF SInv, Listed
  <1>5. ASSUME NEW f \in Folders
        PROVE  /\ rows'[f].mappable = rows[f].mappable
               /\ rows'[f].collection = rows[f].collection
               /\ rows'[f].stored <=> rows[f].stored \/ f \in S
               /\ ~ rows'[f].stored => rows'[f] = rows[f]
    <2>1. CASE f \in S /\ ~ rows[f].stored
      <3>1. rows'[f] = new
        BY <1>2, <2>1
      <3>2. rows[f].mappable = TRUE /\ rows[f].collection = Null
        BY <1>4, <2>1
      <3>3. QED
        BY <1>3, <2>1, <3>1, <3>2
    <2>2. CASE ~ (f \in S /\ ~ rows[f].stored)
      BY <1>2, <2>2
    <2>3. QED
      BY <2>1, <2>2
  <1>6. Stored' = Stored \cup (S \cap Folders)
    BY <1>5 DEF Stored
  <1>7. Listed'
    <2>1. Stored' \in {{}, Folders \ NewFolders, Folders}
      BY <1>1, <1>6 DEF SInv, Listed, Stored
    <2>2. QED
      BY <1>5, <2>1 DEF SInv, Listed
  <1>8. \A f \in Folders : rows'[f].stored /\ rows'[f].collection # Null
                             <=> rows[f].stored /\ rows[f].collection # Null
    BY <1>4, <1>5
  <1>9. /\ Disjoint' /\ (FlagsRight => FlagsRight')
        /\ \A f \in Folders, flag \in BOOLEAN : MaySay(f, flag) => MaySay(f, flag)'
    BY <1>5, <1>8, MappingsKept DEF SInv
  <1>10. \A h \in Handlers, f \in Folders : handler[h].computed[f] \in BOOLEAN
    BY DEF SInv, IInv, Shapes, HandlerOf
  <1>11. Recalculating'
    BY <1>2, <1>5, <1>9, <1>10 DEF SInv, Recalculating, Allowed
  <1>12. QED
    BY <1>7, <1>9, <1>11

(* The steps that keep the rows; none of them begins or ends a             *)
(* recalculation.                                                          *)
LEMMA RowsKeptSInv ==
  ASSUME OneRequest, SInv, NEW h \in Handlers, NEW Todos, NEW p \in HandlerOf(Todos),
         rows' = rows, handler' = [handler EXCEPT ![h] = p],
         p.phase \notin {"load", "write"}, handler[h].phase \notin {"load", "write"},
         p.phase = "commit" => Allowed(p)
  PROVE  Listed' /\ Disjoint' /\ Recalculating'
  <1>1. handler'[h] = p /\ \A i \in Handlers : i = h
    BY HandlerStep DEF SInv, IInv, OneRequest
  <1>2. FlagsRight
    BY DEF SInv, Recalculating
  <1>3. FlagsRight' /\ Disjoint'
    BY <1>2, MappingsKept DEF SInv
  <1>4. QED
    BY <1>1, <1>3 DEF SInv, Recalculating, Listed, Stored, Allowed

LEMMA ClearKeepsSInv ==
  ASSUME SInv, ClearConfig
  PROVE  Listed' /\ Disjoint' /\ Recalculating'
  <1>1. rows' = [f \in Folders |-> NoRow]
    BY DEF ClearConfig
  <1>2. Mapped' = {} /\ Stored' = {}
    BY <1>1 DEF Mapped, Stored, NoRow
  <1>3. FlagsRight'
    BY <1>1, <1>2 DEF FlagsRight, MaySay, NoRow
  <1>4. ASSUME NEW h \in Handlers
        PROVE  handler'[h].phase \notin {"load", "write", "commit"}
    <2>1. \/ handler'[h] = handler[h] /\ handler[h].phase \in {"idle", "delete"}
          \/ handler'[h] = Task("create", <<>>)
      BY DEF ClearConfig
    <2>2. Task("create", <<>>).phase = "create"
      BY TaskShape
    <2>3. QED
      BY <2>1, <2>2
  <1>5. QED
    BY <1>1, <1>2, <1>3, <1>4 DEF Listed, Disjoint, Recalculating

(* A request that looks up its folder and collection.                      *)
LEMMA MapKeepsSInv ==
  ASSUME OneRequest, SInv, NEW h \in Handlers, MapFolder(h)
  PROVE  Listed' /\ Disjoint' /\ Recalculating'
  <1>1. rows' = rows /\ handler[h].phase = "map"
    BY DEF MapFolder
  <1>2. PICK p \in HandlerOf({handler[h].todo}) \cup HandlerOf({Tail(handler[h].todo)}) :
          /\ handler' = [handler EXCEPT ![h] = p]
          /\ p.phase \in {"commit", "create"}
          /\ p.phase = "commit" => /\ p.todo = handler[h].todo
                                   /\ MayMap(Head(handler[h].todo), handler[h].collection)
    BY MapStep DEF SInv, IInv
  <1>3. p.phase = "commit" => Allowed(p)
    BY <1>2 DEF Allowed, MayMap
  <1>4. QED
    BY <1>1, <1>2, <1>3, RowsKeptSInv

(* A folder is mapped only when its flag, which is right, allows it.       *)
LEMMA CommitKeepsSInv ==
  ASSUME ConstantsAssumption, OneRequest, SInv, NEW h \in Handlers, CommitMapping(h)
  PROVE  Listed' /\ Disjoint' /\ Recalculating'
  <1> DEFINE f == Head(handler[h].todo)
             rest == Tail(handler[h].todo)
             p == Task("load", rest)
  <1>1. /\ rows' = [rows EXCEPT ![f].collection = handler[h].collection]
        /\ handler' = [handler EXCEPT ![h] = p] /\ handler[h].phase = "commit"
    BY DEF CommitMapping
  <1>2. p \in HandlerOf({rest}) /\ p.phase = "load"
    BY TaskShape
  <1>3. FlagsRight /\ (f \in Folders => rows[f].stored /\ rows[f].mappable)
    BY <1>1 DEF SInv, Recalculating, Allowed
  <1> HIDE DEF f, p, rest
  <1>4. handler'[h] = p /\ \A i \in Handlers : i = h
    BY <1>1, <1>2, HandlerStep DEF SInv, IInv, OneRequest
  <1>5. Recalculating'
    BY <1>2, <1>4 DEF Recalculating
  <1>6. ASSUME NEW g \in Folders
        PROVE  /\ rows'[g].stored = rows[g].stored
               /\ ~ rows'[g].stored => rows'[g] = rows[g]
               /\ g # f => rows'[g] = rows[g]
    BY <1>1, <1>3 DEF SInv, IInv, Shapes, Row
  <1>7. Stored' = Stored /\ Listed'
    BY <1>6 DEF SInv, Listed, Stored
  <1>8. f \in Folders => \A g \in Mapped : SameListing(f, g) => ~ Overlap(f, g)
    BY <1>3 DEF FlagsRight, MaySay, SameListing
  <1>9. ~ Overlap(f, f) \/ f \notin Folders
    BY DEF Overlap, ConstantsAssumption
  <1>10. Mapped' \subseteq Mapped \cup {f} /\ Mapped' \subseteq Folders
    BY <1>6 DEF Mapped, Stored
  <1>11. Disjoint'
    BY <1>8, <1>9, <1>10 DEF SInv, Disjoint, Overlap, SameListing
  <1>12. QED
    BY <1>5, <1>7, <1>11

LEMMA FlagsKeepSInv ==
  ASSUME OneRequest, SInv, NEW h \in Handlers, LoadFlags(h) \/ WriteFlags(h)
  PROVE  Listed' /\ Disjoint' /\ Recalculating'
  <1>1. PICK Todos : handler[h] \in HandlerOf(Todos)
    BY HandlerAt DEF SInv, IInv
  <1>2. CASE LoadFlags(h)
    <2> DEFINE seen == [g \in Folders |-> rows[g].mappable]
               now == [g \in Folders |-> Computed(g)]
               p == [[[handler[h] EXCEPT !.phase = "write"] EXCEPT !.loaded = seen]
                       EXCEPT !.computed = now]
    <2>a. /\ handler' = [handler EXCEPT ![h].phase = "write", ![h].loaded = seen,
                                        ![h].computed = now]
          /\ rows' = rows
      BY <1>2, Zenon DEF LoadFlags
    <2>1. seen \in [Folders -> BOOLEAN] /\ now \in [Folders -> BOOLEAN]
      BY DEF SInv, IInv, Shapes, Row, Computed, MappableNow
    <2>2. ASSUME NEW f \in Folders
          PROVE  seen[f] = rows[f].mappable /\ MaySay(f, now[f])
      <3>1. CASE rows[f].stored
        <4>1. Computed(f) <=> MappableNow(f)
          BY <3>1 DEF Computed
        <4>2. now[f] = Computed(f) /\ now[f] \in BOOLEAN
          BY <2>1
        <4> HIDE DEF now
        <4>3. QED
          BY <4>1, <4>2 DEF MaySay, MappableNow
      <3>2. CASE ~ rows[f].stored
        <4>1. now[f] = TRUE
          BY <3>2 DEF Computed
        <4> HIDE DEF now
        <4>2. QED
          BY <3>2, <4>1, UnlistedIsMappable
      <3>3. QED
        BY <3>1, <3>2
    <2> HIDE DEF seen, now
    <2>3. handler' = [handler EXCEPT ![h] = p]
      BY <2>a DEF SInv, IInv, Shapes
    <2>4. p \in HandlerOf(Todos) /\ p.phase = "write" /\ p.loaded = seen /\ p.computed = now
      BY <1>1, <2>1 DEF HandlerOf
    <2> HIDE DEF p
    <2>5. PICK x \in HandlerOf(Todos) :
            /\ handler' = [handler EXCEPT ![h] = x] /\ x.phase = "write"
            /\ \A f \in Folders : /\ x.loaded[f] = rows[f].mappable
                                  /\ x.computed[f] \in BOOLEAN /\ MaySay(f, x.computed[f])
      BY <2>1, <2>2, <2>3, <2>4
    <2>6. handler'[h] = x /\ \A i \in Handlers : i = h
      BY <2>5, HandlerStep DEF SInv, IInv, OneRequest
    <2>7. Disjoint' /\ \A f \in Folders, flag \in BOOLEAN : MaySay(f, flag) => MaySay(f, flag)'
      BY <2>a, MappingsKept DEF SInv
    <2>8. Recalculating'
      BY <2>a, <2>5, <2>6, <2>7 DEF Recalculating
    <2>9. QED
      BY <2>a, <2>7, <2>8 DEF SInv, Listed, Stored
  <1>3. CASE WriteFlags(h)
    <2> DEFINE p == [[[handler[h] EXCEPT !.phase = "create"] EXCEPT !.loaded = NoFlags]
                       EXCEPT !.computed = NoFlags]
               computed == handler[h].computed
    <2>1. p \in HandlerOf(Todos) /\ p.phase = "create"
      BY <1>1 DEF HandlerOf, NoFlags
    <2>2. handler' = [handler EXCEPT ![h] = p]
      BY <1>3 DEF WriteFlags, SInv, IInv, Shapes
    <2>3. rows' = [f \in Folders |->
                     IF rows[f].stored /\ handler[h].loaded[f] # computed[f]
                     THEN [rows[f] EXCEPT !.mappable = computed[f]] ELSE rows[f]]
      BY <1>3 DEF WriteFlags
    <2>4. \A f \in Folders : handler[h].loaded[f] = rows[f].mappable /\ MaySay(f, computed[f])
      BY <1>3 DEF WriteFlags, SInv, Recalculating
    <2>5. computed \in [Folders -> BOOLEAN]
      BY <1>1 DEF HandlerOf
    <2> HIDE DEF p, computed
    <2>6. ASSUME NEW f \in Folders
          PROVE  /\ rows'[f].stored = rows[f].stored
                 /\ rows'[f].collection = rows[f].collection
                 /\ ~ rows[f].stored => rows'[f] = rows[f]
                 /\ MaySay(f, rows'[f].mappable)
      <3>1. rows[f] \in Row /\ computed[f] \in BOOLEAN
        BY <2>5 DEF SInv, IInv, Shapes
      <3>2. CASE rows[f].stored /\ handler[h].loaded[f] # computed[f]
        <4>1. rows'[f] = [rows[f] EXCEPT !.mappable = computed[f]]
          BY <2>3, <3>2
        <4>2. rows'[f].mappable = computed[f]
          BY <3>1, <4>1 DEF Row
        <4>3. QED
          BY <2>4, <3>1, <3>2, <4>1, <4>2 DEF Row
      <3>3. CASE rows[f].stored /\ handler[h].loaded[f] = computed[f]
        <4>1. rows'[f] = rows[f] /\ rows[f].mappable = computed[f]
          BY <2>3, <2>4, <3>3
        <4>2. QED
          BY <2>4, <3>3, <4>1
      <3>4. CASE ~ rows[f].stored
        <4>1. rows'[f] = rows[f]
          BY <2>3, <3>4
        <4>2. QED
          BY <3>4, <4>1, UnlistedIsMappable
      <3>5. QED
        BY <3>2, <3>3, <3>4
    <2>7. Mapped' = Mapped /\ Stored' = Stored
      BY <2>6 DEF Mapped, Stored
    <2>8. \A f \in Folders : MappableNow(f)' <=> MappableNow(f)
      BY <2>7 DEF MappableNow
    <2>9. FlagsRight'
      BY <2>6, <2>7, <2>8 DEF FlagsRight, MaySay
    <2>10. handler'[h] = p /\ \A i \in Handlers : i = h
      BY <2>1, <2>2, HandlerStep DEF SInv, IInv, OneRequest
    <2>11. QED
      BY <2>1, <2>6, <2>7, <2>9, <2>10 DEF SInv, Listed, Disjoint, Recalculating
  <1>4. QED
    BY <1>2, <1>3

LEMMA CommitDeleteKeepsSInv ==
  ASSUME OneRequest, SInv, NEW h \in Handlers, CommitDelete(h)
  PROVE  Listed' /\ Disjoint' /\ Recalculating'
  <1> DEFINE S == handler[h].affected
             x == IF S = {} THEN "create" ELSE "load"
             p == Task(x, <<>>)
  <1>1. /\ handler[h].phase = "delete" /\ rows' = Unmapped(S)
        /\ handler' = [handler EXCEPT ![h] = p]
    BY DEF CommitDelete
  <1>2. p \in HandlerOf({<<>>}) /\ p.phase = x
    BY TaskShape
  <1> HIDE DEF p
  <1>3. handler'[h] = p /\ \A i \in Handlers : i = h
    BY <1>1, <1>2, HandlerStep DEF SInv, IInv, OneRequest
  <1>4. \A f \in Folders :
          /\ rows'[f].stored = rows[f].stored /\ rows'[f].mappable = rows[f].mappable
          /\ rows'[f].collection = IF f \in S THEN Null ELSE rows[f].collection
          /\ rows[f] = NoRow => rows'[f] = NoRow
    BY <1>1, UnmappedRows DEF SInv, IInv
  <1>5. Mapped' \subseteq Mapped /\ Stored' = Stored
    BY <1>4 DEF Mapped, Stored
  <1>6. Listed' /\ Disjoint'
    BY <1>4, <1>5 DEF SInv, Listed, Disjoint
  <1>7. CASE S = {}
    <2>1. FlagsRight
      BY <1>1 DEF SInv, Recalculating
    <2>2. FlagsRight'
      BY <1>4, <1>7, <2>1, MappingsKept
    <2>3. QED
      BY <1>2, <1>3, <1>6, <1>7, <2>2 DEF Recalculating
  <1>8. CASE S # {}
    BY <1>2, <1>3, <1>6, <1>8 DEF Recalculating
  <1>9. QED
    BY <1>7, <1>8

LEMMA CreateKeepsSInv ==
  ASSUME OneRequest, SInv, NEW h \in Handlers, NEW c \in Collections, CreateCollection(h, c)
  PROVE  Listed' /\ Disjoint' /\ Recalculating'
  <1>1. PICK Todos : handler[h] \in HandlerOf(Todos)
    BY HandlerAt DEF SInv, IInv
  <1> DEFINE p == [[handler[h] EXCEPT !.phase = "map"] EXCEPT !.collection = c]
  <1>2. p \in HandlerOf(Todos) /\ p.phase = "map"
    BY <1>1 DEF HandlerOf
  <1>3. handler' = [handler EXCEPT ![h] = p]
    BY DEF CreateCollection, SInv, IInv, Shapes
  <1> HIDE DEF p
  <1>4. rows' = rows /\ handler[h].phase = "create"
    BY DEF CreateCollection
  <1>5. QED
    BY <1>2, <1>3, <1>4, RowsKeptSInv

LEMMA DeleteKeepsSInv ==
  ASSUME OneRequest, SInv, NEW h \in Handlers, NEW c \in Collections, DeleteCollection(h, c)
  PROVE  Listed' /\ Disjoint' /\ Recalculating'
  <1>1. PICK p \in HandlerOf({<<>>}) : handler' = [handler EXCEPT ![h] = p] /\ p.phase = "delete"
    BY DeleteStep DEF SInv, IInv
  <1>2. rows' = rows /\ handler[h].phase = "idle"
    BY Zenon DEF DeleteCollection
  <1>3. p.phase \notin {"load", "write", "commit"} /\ handler[h].phase \notin {"load", "write"}
    BY <1>1, <1>2
  <1>4. QED
    BY <1>1, <1>2, <1>3, RowsKeptSInv

(* A request that begins or ends.                                          *)
LEMMA EdgesKeepSInv ==
  ASSUME OneRequest, SInv, NEW h \in Handlers,
         (\E sel \in Selections : RequestCollections(h, sel)) \/ Done(h)
  PROVE  Listed' /\ Disjoint' /\ Recalculating'
  <1>1. CASE \E sel \in Selections : RequestCollections(h, sel)
    <2>1. PICK sel \in Selections : RequestCollections(h, sel)
      BY <1>1
    <2> DEFINE todo == Kept(sel)
               p == Task("create", todo)
    <2>2. handler' = [handler EXCEPT ![h] = p] /\ rows' = rows /\ handler[h].phase = "idle"
      BY <2>1 DEF RequestCollections
    <2> HIDE DEF todo
    <2>3. p \in HandlerOf({todo}) /\ p.phase = "create"
      BY TaskShape
    <2> HIDE DEF p
    <2>4. QED
      BY <2>2, <2>3, RowsKeptSInv
  <1>2. CASE Done(h)
    <2>1. handler' = [handler EXCEPT ![h] = Idle] /\ rows' = rows /\ handler[h].phase = "create"
      BY <1>2, Zenon DEF Done
    <2>2. QED
      BY <2>1, IdleShape, RowsKeptSInv
  <1>3. QED
    BY <1>1, <1>2

LEMMA NextSInv ==
  ASSUME ConstantsAssumption, OneRequest, SInv, [Next]_vars
  PROVE  SInv'
  <1>1. IInv'
    BY NextIInv DEF SInv, Orderly, OneRequest
  <1>2. \A h \in Handlers : ~ Crash(h)
    BY DEF Crash, OneRequest, SInv
  <1>3. crashes' = 0
    <2>1. ASSUME NEW h \in Handlers, Handle(h)
          PROVE  crashes' = crashes
      BY <2>1, Zenon DEF Handle, CreateCollection, Done, MapFolder, CommitMapping, LoadFlags,
                         WriteFlags, CommitDelete
    <2>2. ASSUME Import \/ ClearConfig
          PROVE  crashes' = crashes
      BY <2>2, Zenon DEF Import, StoreFolders, ClearConfig
    <2>3. ASSUME NEW h \in Handlers, \/ \E sel \in Selections : RequestCollections(h, sel)
                                    \/ \E c \in Collections : DeleteCollection(h, c)
          PROVE  crashes' = crashes
      BY <2>3, Zenon DEF RequestCollections, DeleteCollection
    <2>4. QED
      BY <1>2, <2>1, <2>2, <2>3 DEF Next, vars, SInv
  <1>4. Listed' /\ Disjoint' /\ Recalculating'
    <2>1. CASE Import
      BY <2>1, ImportKeepsSInv
    <2>2. CASE ClearConfig
      BY <2>2, ClearKeepsSInv
    <2>3. CASE \E h \in Handlers : \/ Handle(h)
                                   \/ \E sel \in Selections : RequestCollections(h, sel)
                                   \/ \E c \in Collections : DeleteCollection(h, c)
      BY <2>3, EdgesKeepSInv, CreateKeepsSInv, MapKeepsSInv, CommitKeepsSInv, FlagsKeepSInv,
         DeleteKeepsSInv, CommitDeleteKeepsSInv
      DEF Handle
    <2>4. CASE UNCHANGED vars
      <3>1. rows' = rows /\ handler' = handler
        BY <2>4 DEF vars
      <3>2. Mapped' = Mapped /\ Stored' = Stored
        BY <3>1 DEF Mapped, Stored
      <3>3. QED
        BY <3>1, <3>2 DEF SInv, Listed, Disjoint, Recalculating, FlagsRight, MaySay, MappableNow,
                          Allowed
    <2>5. QED
      BY <1>2, <2>1, <2>2, <2>3, <2>4 DEF Next
  <1>5. QED
    BY <1>1, <1>3, <1>4 DEF SInv

(* Served one after the other and not cut off, requests never map a folder *)
(* inside another of the same listing, whatever is relisted, removed and   *)
(* deleted, and a flag that is wrong afterwards is one of a folder that a  *)
(* later listing added, which it says may be mapped.                       *)
THEOREM SerialMappingIsConsistent ==
  ConstantsAssumption /\ OneRequest /\ Spec => []MappingConsistent
  <1> SUFFICES ASSUME ConstantsAssumption, OneRequest
               PROVE  Spec => []MappingConsistent
    OBVIOUS
  <1>1. Init => SInv
    <2> SUFFICES ASSUME Init
                 PROVE  SInv
      OBVIOUS
    <2>1. Stored = {} /\ Mapped = {}
      BY DEF Init, Stored, Mapped, NoRow
    <2>2. FlagsRight
      BY <2>1 DEF Init, FlagsRight, MaySay, NoRow
    <2>3. \A h \in Handlers : handler[h].phase = "idle"
      BY DEF Init, Idle
    <2>4. QED
      BY <2>1, <2>2, <2>3, InitIInv DEF Init, SInv, Listed, Disjoint, Recalculating
  <1>2. SInv /\ [Next]_vars => SInv'
    BY NextSInv
  <1>3. SInv => MappingConsistent
    <2> SUFFICES ASSUME SInv
                 PROVE  MappingConsistent
      OBVIOUS
    <2>1. PICK h \in Handlers : TRUE
      BY DEF OneRequest
    <2>2. AllIdle => FlagsRight
      BY <2>1 DEF SInv, Recalculating, AllIdle
    <2>3. ASSUME AllIdle, NEW f \in Stored, rows[f].mappable # MappableNow(f)
          PROVE  f \in NewFolders /\ rows[f].mappable
      <3>1. f \in Folders /\ rows[f].mappable \in BOOLEAN /\ MappableNow(f) \in BOOLEAN
        BY DEF Stored, SInv, IInv, Shapes, Row, MappableNow
      <3>2. rows[f].mappable /\ ~ MappableNow(f)
        BY <2>2, <2>3, <3>1 DEF FlagsRight, MaySay
      <3>3. f \in NewFolders
        BY <2>2, <2>3, <3>1, <3>2 DEF FlagsRight, MaySay, MappableNow
      <3>4. QED
        BY <3>2, <3>3
    <2>4. QED
      BY <2>3 DEF SInv, Disjoint, MappingConsistent
  <1>4. QED
    BY <1>1, <1>2, <1>3, PTL DEF Spec

-----------------------------------------------------------------------------
(* CollectionAccess, for any collections: listings are those of the place  *)
(* where the collection is, credentials are where they are said to be.     *)
CONSTANTS Locals, Remotes, Agents, Places, Processes, Rebinds, ByCli, Faults, Careless, MaxTests
VARIABLES connector, capable, collection, tests, analyses, cache, known, tested

Access == INSTANCE CollectionAccess


(* What the listings depend on has its type, whatever tests are open.      *)
ListingsTyped == /\ collection \in [Access!AllCollections -> Access!Collection]
          /\ cache \in [Processes -> [Access!AllCollections -> Places \cup {Null}]]
          /\ \A c \in Access!AllCollections : ~ collection[c].exists => collection[c].place = Null

OneProcess == \A v, w \in Processes : v = w

Current == ListingsTyped /\ Access!ListingCurrent

LEMMA NoCollectionFits == Access!NoCollection \in Access!Collection
  BY DEF Access!NoCollection, Access!Collection, Access!Verdicts

(* A verdict, results: the places stay.                                    *)
LEMMA SamePlaces ==
  ASSUME Current, cache' = cache, collection' \in [Access!AllCollections -> Access!Collection],
         \A c \in Access!AllCollections : /\ collection'[c].place = collection[c].place
                                   /\ collection'[c].exists = collection[c].exists
  PROVE  Current'
  BY DEF Current, ListingsTyped, Access!ListingCurrent

(* Listings that are dropped or read again.                                *)
LEMMA DroppedFits ==
  ASSUME Current, NEW w \in Processes, NEW c \in Access!AllCollections, Access!Invalidate(w, c)
  PROVE  /\ cache' \in [Processes -> [Access!AllCollections -> Places \cup {Null}]]
         /\ cache'[w][c] = Null
         /\ \A v \in Processes, d \in Access!AllCollections :
              (v # w \/ d # c) => cache'[v][d] = cache[v][d]
  <1>1. cache' = [cache EXCEPT ![w] = [cache[w] EXCEPT ![c] = Null]]
    BY DEF Access!Invalidate
  <1>2. \A v \in Processes : cache[v] \in [Access!AllCollections -> Places \cup {Null}]
    BY DEF Current, ListingsTyped
  <1>3. \A v \in Processes : cache'[v] = IF v = w THEN [cache[w] EXCEPT ![c] = Null] ELSE cache[v]
    BY <1>1 DEF Current, ListingsTyped
  <1>4. [cache[w] EXCEPT ![c] = Null] \in [Access!AllCollections -> Places \cup {Null}]
    BY <1>2
  <1>5. cache' \in [Processes -> [Access!AllCollections -> Places \cup {Null}]]
    BY <1>1, <1>4 DEF Current, ListingsTyped
  <1>6. cache'[w][c] = Null
    BY <1>2, <1>3
  <1>7. ASSUME NEW v \in Processes, NEW d \in Access!AllCollections, v # w \/ d # c
        PROVE  cache'[v][d] = cache[v][d]
    <2>1. CASE v # w
      BY <1>3, <2>1
    <2>2. CASE d # c
      BY <1>2, <1>3, <2>2
    <2>3. QED
      BY <1>7, <2>1, <2>2
  <1>8. QED
    BY <1>5, <1>6, <1>7

(* One collection changes, and the listing of it, if any, is gone.         *)
LEMMA OneChanges ==
  ASSUME Current, NEW c \in Access!AllCollections, NEW row \in Access!Collection,
         ~ row.exists => row.place = Null,
         collection' = [collection EXCEPT ![c] = row],
         cache' \in [Processes -> [Access!AllCollections -> Places \cup {Null}]],
         \A v \in Processes, d \in Access!AllCollections \ {c} : cache'[v][d] = cache[v][d],
         \A v \in Processes : cache'[v][c] \in {Null, row.place}
  PROVE  Current'
  <1>1. \A d \in Access!AllCollections : collection'[d] = IF d = c THEN row ELSE collection[d]
    BY DEF Current, ListingsTyped
  <1>2. ListingsTyped'
    BY <1>1 DEF Current, ListingsTyped
  <1>3. ASSUME NEW v \in Processes, NEW d \in Access!AllCollections
        PROVE  cache'[v][d] \in {Null, collection'[d].place}
    <2>1. CASE d = c
      BY <1>1, <2>1
    <2>2. CASE d # c
      BY <1>1, <2>2 DEF Current, Access!ListingCurrent
    <2>3. QED
      BY <2>1, <2>2
  <1>4. QED
    BY <1>2, <1>3 DEF Current, Access!ListingCurrent

LEMMA CreateCurrent ==
  ASSUME Current, NEW c \in Access!AllCollections, NEW p \in Places,
         \/ \E a \in Agents : Access!CreateLocal(c, p, a) \/ Access!AgentCreate(c, p, a)
         \/ \E v \in {"yes", "no"} : Access!CreateRemote(c, p, v)
         \/ Access!CreateFromInventory(c, p)
  PROVE  Current'
  <1>1. ~ collection[c].exists /\ cache' = cache
    BY DEF Access!CreateLocal, Access!AgentCreate, Access!CreateRemote, Access!CreateFromInventory
  <1>2. PICK row \in Access!Collection : /\ row.exists /\ row.place = p
                                  /\ collection' = [collection EXCEPT ![c] = row]
    <2>1. CASE \E a \in Agents : Access!CreateLocal(c, p, a) \/ Access!AgentCreate(c, p, a)
      <3>1. PICK a \in Agents : Access!CreateLocal(c, p, a) \/ Access!AgentCreate(c, p, a)
        BY <2>1
      <3> DEFINE row == [Access!NoCollection EXCEPT !.exists = TRUE, !.place = p, !.agent = a]
      <3>2. row \in Access!Collection /\ row.exists /\ row.place = p
        BY NoCollectionFits DEF Access!Collection
      <3>3. collection' = [collection EXCEPT ![c] = row]
        BY <3>1 DEF Access!CreateLocal, Access!AgentCreate
      <3> HIDE DEF row
      <3>4. QED
        BY <3>2, <3>3
    <2>2. CASE \E v \in {"yes", "no"} : Access!CreateRemote(c, p, v)
      <3>1. PICK v \in {"yes", "no"} : Access!CreateRemote(c, p, v)
        BY <2>2
      <3> DEFINE row == [Access!NoCollection EXCEPT !.exists = TRUE, !.place = p, !.accessible = v]
      <3>2. row \in Access!Collection /\ row.exists /\ row.place = p
        BY NoCollectionFits DEF Access!Collection, Access!Verdicts
      <3>3. collection' = [collection EXCEPT ![c] = row]
        BY <3>1 DEF Access!CreateRemote
      <3> HIDE DEF row
      <3>4. QED
        BY <3>2, <3>3
    <2>3. CASE Access!CreateFromInventory(c, p)
      <3> DEFINE row == [Access!NoCollection EXCEPT !.exists = TRUE, !.place = p]
      <3>1. row \in Access!Collection /\ row.exists /\ row.place = p
        BY NoCollectionFits DEF Access!Collection
      <3>2. collection' = [collection EXCEPT ![c] = row]
        BY <2>3 DEF Access!CreateFromInventory
      <3> HIDE DEF row
      <3>3. QED
        BY <3>1, <3>2
    <2>4. QED
      BY <2>1, <2>2, <2>3
  <1>3. \A w \in Processes : cache[w][c] = Null
    BY <1>1 DEF Current, ListingsTyped, Access!ListingCurrent
  <1>4. QED
    BY <1>1, <1>2, <1>3, OneChanges DEF Current, ListingsTyped

LEMMA MoveCurrent ==
  ASSUME Access!ConstantsAssumption, Current, OneProcess, NEW w \in Processes,
         NEW c \in Access!AllCollections, NEW p \in Places,
         \/ \E a \in Agents : Access!UpdateLocal(w, c, p, a)
         \/ \E v \in {"yes", "no"} : Access!MoveRemote(w, c, p, v)
  PROVE  Current'
  <1>1. collection[c] \in Access!Collection
          /\ collection \in [Access!AllCollections -> Access!Collection]
    BY DEF Current, ListingsTyped
  <1>2. collection[c].exists
    BY DEF Access!UpdateLocal, Access!MoveRemote
  <1>3. PICK a \in Agents \cup {Null}, v \in Access!Verdicts :
          collection' = [collection EXCEPT ![c] = [collection[c] EXCEPT !.place = p, !.agent = a,
                                                                      !.accessible = v]]
    <2>1. CASE \E a \in Agents : Access!UpdateLocal(w, c, p, a)
      <3>1. PICK a \in Agents : Access!UpdateLocal(w, c, p, a)
        BY <2>1
      <3> DEFINE v == IF p # collection[c].place THEN "unknown" ELSE collection[c].accessible
      <3>2. Access!Moved(c, p, a) = [collection[c] EXCEPT !.place = p, !.agent = a,
              !.accessible = v]
        BY DEF Access!Moved
      <3>3. v \in Access!Verdicts
        BY <1>1 DEF Access!Collection, Access!Verdicts
      <3>4. QED
        BY <3>1, <3>2, <3>3 DEF Access!UpdateLocal
    <2>2. CASE \E v \in {"yes", "no"} : Access!MoveRemote(w, c, p, v)
      <3>1. PICK v \in {"yes", "no"} : Access!MoveRemote(w, c, p, v)
        BY <2>2
      <3> DEFINE row == [collection[c] EXCEPT !.place = p, !.agent = collection[c].agent,
            !.accessible = v]
      <3>2. row = [collection[c] EXCEPT !.place = p, !.accessible = v]
        BY <1>1 DEF Access!Collection
      <3>3. collection' = [collection EXCEPT ![c] = [collection[c] EXCEPT !.place = p,
              !.accessible = v]]
        BY <1>1, <3>1 DEF Access!MoveRemote
      <3>4. QED
        BY <1>1, <3>2, <3>3 DEF Access!Collection, Access!Verdicts
    <2>3. QED
      BY <2>1, <2>2
  <1> DEFINE row == [collection[c] EXCEPT !.place = p, !.agent = a, !.accessible = v]
  <1>4. row \in Access!Collection /\ row.exists /\ row.place = p
    BY <1>1, <1>2 DEF Access!Collection
  <1> HIDE DEF row
  <1>5. CASE Access!Invalidate(w, c)
    <2>1. /\ cache' \in [Processes -> [Access!AllCollections -> Places \cup {Null}]]
          /\ \A u \in Processes : cache'[u][c] = Null
          /\ \A u \in Processes, d \in Access!AllCollections \ {c} : cache'[u][d] = cache[u][d]
      BY <1>5, DroppedFits DEF OneProcess
    <2>2. QED
      BY <1>3, <1>4, <2>1, OneChanges DEF row
  <1>6. CASE cache' = cache /\ p = collection[c].place
    BY <1>3, <1>4, <1>6, OneChanges DEF row, Current, ListingsTyped, Access!ListingCurrent
  <1>7. QED
    BY <1>5, <1>6 DEF Access!UpdateLocal, Access!MoveRemote

LEMMA DeleteCurrent ==
  ASSUME Access!ConstantsAssumption, Current, OneProcess, NEW w \in Processes,
           NEW c \in Access!AllCollections,
         \E force \in BOOLEAN : Access!DeleteCollection(w, c, force)
  PROVE  Current'
  <1>1. collection' = [collection EXCEPT ![c] = Access!NoCollection] /\ Access!Invalidate(w, c)
    BY DEF Access!DeleteCollection
  <1>2. /\ cache' \in [Processes -> [Access!AllCollections -> Places \cup {Null}]]
        /\ \A u \in Processes : cache'[u][c] = Null
        /\ \A u \in Processes, d \in Access!AllCollections \ {c} : cache'[u][d] = cache[u][d]
    BY <1>1, DroppedFits DEF OneProcess
  <1>3. ~ Access!NoCollection.exists /\ Access!NoCollection.place = Null
    BY DEF Access!NoCollection
  <1>4. QED
    BY <1>1, <1>2, <1>3, NoCollectionFits, OneChanges

LEMMA CacheCurrent ==
  ASSUME Access!ConstantsAssumption, Current, NEW w \in Processes, NEW c \in Access!AllCollections,
         Access!ChangeState(w, c) \/ Access!RefreshCache(w, c) \/ Access!Expire(w, c)
  PROVE  Current'
  <1>1. collection' = collection
    BY DEF Access!ChangeState, Access!RefreshCache, Access!Expire
  <1>2. /\ cache' \in [Processes -> [Access!AllCollections -> Places \cup {Null}]]
        /\ \A v \in Processes, d \in Access!AllCollections :
             cache'[v][d] \in {Null, collection[d].place}
    <2>1. CASE Access!Invalidate(w, c)
      BY <2>1, DroppedFits DEF Current, Access!ListingCurrent
    <2>2. CASE cache' = [cache EXCEPT ![w][c] = collection[c].place]
      <3>1. collection[c].place \in Places \cup {Null}
        BY DEF Current, ListingsTyped, Access!Collection
      <3>2. QED
        BY <2>2, <3>1 DEF Current, ListingsTyped, Access!ListingCurrent
    <2>3. QED
      BY <2>1, <2>2 DEF Access!ChangeState, Access!RefreshCache, Access!Expire
  <1>3. QED
    BY <1>1, <1>2 DEF Current, ListingsTyped, Access!ListingCurrent

(* A verdict of whatever collection, or of none.                           *)
LEMMA VerdictCurrent ==
  ASSUME Current, cache' = cache, NEW c, NEW v \in Access!Verdicts,
         \/ collection' = [collection EXCEPT ![c].accessible = v]
         \/ collection' = [collection EXCEPT ![c].accessible = v, ![c].results = TRUE]
         \/ collection' = [collection EXCEPT ![c].results = TRUE]
         \/ collection' = collection
  PROVE  Current'
  <1>1. \A d \in Access!AllCollections :
          /\ [collection[d] EXCEPT !.accessible = v] \in Access!Collection
          /\ [collection[d] EXCEPT !.accessible = v].place = collection[d].place
          /\ [collection[d] EXCEPT !.accessible = v].exists = collection[d].exists
          /\ [collection[d] EXCEPT !.results = TRUE] \in Access!Collection
          /\ [collection[d] EXCEPT !.results = TRUE].place = collection[d].place
          /\ [collection[d] EXCEPT !.results = TRUE].exists = collection[d].exists
          /\ [collection[d] EXCEPT !.accessible = v, !.results = TRUE] \in Access!Collection
          /\ [collection[d] EXCEPT !.accessible = v, !.results = TRUE].place = collection[d].place
          /\ [collection[d] EXCEPT !.accessible = v, !.results = TRUE].exists = collection[d].exists
    BY DEF Current, ListingsTyped, Access!Collection
  <1>2. collection \in [Access!AllCollections -> Access!Collection]
    BY DEF Current, ListingsTyped
  <1>3. CASE c \in Access!AllCollections
    <2>1. \A d \in Access!AllCollections :
            \/ collection'[d] = collection[d]
            \/ collection'[d] = [collection[d] EXCEPT !.accessible = v]
            \/ collection'[d] = [collection[d] EXCEPT !.results = TRUE]
            \/ collection'[d] = [collection[d] EXCEPT !.accessible = v, !.results = TRUE]
      BY <1>2, <1>3
    <2>2. collection' = [d \in Access!AllCollections |-> collection'[d]]
      BY <1>2, <1>3
    <2>3. \A d \in Access!AllCollections : collection'[d] \in Access!Collection
      BY <1>1, <1>2, <2>1
    <2>4. collection' \in [Access!AllCollections -> Access!Collection]
      BY <2>2, <2>3
    <2>5. QED
      BY <1>1, <2>1, <2>4, SamePlaces
  <1>4. CASE c \notin Access!AllCollections
    <2>1. collection' = collection
      BY <1>2, <1>4
    <2>2. QED
      BY <1>2, <2>1, SamePlaces
  <1>5. QED
    BY <1>3, <1>4

LEMMA TestCurrent ==
  ASSUME Current,
         \/ \E c \in Access!AllCollections : Access!TestCollection(c)
         \/ \E a \in Agents : Access!ClaimTest(a) \/ Access!SyncCollections(a)
         \/ \E i \in DOMAIN tests, v \in {"yes", "no"} : Access!CompleteTest(i, v)
         \/ \E i \in DOMAIN tests : Access!ReleaseTest(i) \/ Access!LoseTest(i)
         \/ \E c \in analyses : Access!FinishAnalyses(c)
         \/ \E a \in Agents, c \in Access!AllCollections, v \in {"yes", "no"} : Access!AgentTest(a, c, v)
  PROVE  Current'
  <1>1. cache' = cache
    BY DEF Access!TestCollection, Access!ClaimTest, Access!SyncCollections, Access!CompleteTest,
       Access!ReleaseTest, Access!LoseTest,
           Access!FinishAnalyses, Access!AgentTest
  <1>2. {"yes", "no", "unknown"} = Access!Verdicts
    BY DEF Access!Verdicts
  <1>3. CASE \E c \in Access!AllCollections : Access!TestCollection(c)
    <2>1. PICK c \in Access!AllCollections : Access!TestCollection(c)
      BY <1>3
    <2>2. PICK v \in Access!Verdicts : collection' = [collection EXCEPT ![c].accessible = v]
      BY <1>2, <2>1 DEF Access!TestCollection, Access!Judged, Access!ConnectorAnswers
    <2>3. QED
      BY <1>1, <2>2, VerdictCurrent
  <1>4. CASE \E i \in DOMAIN tests, v \in {"yes", "no"} : Access!CompleteTest(i, v)
    BY <1>1, <1>2, <1>4, VerdictCurrent DEF Access!CompleteTest
  <1>5. CASE \E c \in analyses : Access!FinishAnalyses(c)
    BY <1>1, <1>2, <1>5, VerdictCurrent DEF Access!FinishAnalyses
  <1>6. CASE \E a \in Agents, c \in Access!AllCollections, v \in {"yes",
               "no"} : Access!AgentTest(a, c, v)
    BY <1>1, <1>2, <1>6, VerdictCurrent DEF Access!AgentTest, Access!Judged
  <1>7. CASE collection' = collection
    BY <1>1, <1>2, <1>7, VerdictCurrent
  <1>8. QED
    BY <1>3, <1>4, <1>5, <1>6, <1>7
    DEF Access!ClaimTest, Access!SyncCollections, Access!ReleaseTest, Access!LoseTest

LEMMA ConnectorCurrent ==
  ASSUME Current,
         \/ \E l \in {"server", "agent", "pending"}, x, y, z \in BOOLEAN :
              Access!CreateConnector(l, z) \/ Access!UpdateConnector(l, x, y, z)
         \/ \E a \in Agents, has \in BOOLEAN : Access!ReportCapability(a, has)
         \/ Access!DeleteConnector
  PROVE  Current'
  <1>1. UNCHANGED <<collection, cache>>
    BY DEF Access!CreateConnector, Access!UpdateConnector, Access!ReportCapability,
       Access!DeleteConnector
  <1>2. QED
    BY <1>1 DEF Current, ListingsTyped, Access!ListingCurrent

LEMMA NextCurrent ==
  ASSUME Access!ConstantsAssumption, OneProcess, Current, [Access!Next]_(Access!vars)
  PROVE  Current'
  <1>1. CASE UNCHANGED Access!vars
    BY <1>1 DEF Access!vars, Current, ListingsTyped, Access!ListingCurrent
  <1>2. CASE Access!Next
    BY <1>2, ConnectorCurrent, CreateCurrent, MoveCurrent, CacheCurrent, DeleteCurrent,
       TestCurrent DEF Access!Next
  <1>3. QED
    BY <1>1, <1>2

(* With one server process, a listing that is kept is of the place where   *)
(* the collection is, however it moves, is deleted and created again.      *)
THEOREM ListingAlwaysCurrent ==
  Access!ConstantsAssumption /\ OneProcess /\ Access!Spec => []Access!ListingCurrent
  <1> SUFFICES ASSUME Access!ConstantsAssumption, OneProcess
               PROVE  Access!Spec => []Access!ListingCurrent
    OBVIOUS
  <1>1. Access!Init => Current
    BY NoCollectionFits DEF Access!Init, Current, ListingsTyped, Access!ListingCurrent,
       Access!NoCollection, Access!Nowhere
  <1>2. Current /\ [Access!Next]_(Access!vars) => Current'
    BY NextCurrent
  <1>3. Current => Access!ListingCurrent
    BY DEF Current
  <1>4. QED
    BY <1>1, <1>2, <1>3, PTL DEF Access!Spec

-----------------------------------------------------------------------------
(* A local collection without an open test was tested where it is.  The    *)
(* tests of a local collection are for its agent, which runs the oldest    *)
(* of them first; one that it runs while no other waits is at the place    *)
(* where the collection is.                                                *)
OfLocal(i) == tests[i].of \in Locals
Others(i) == {k \in DOMAIN tests : k # i /\ tests[k].of = tests[i].of}

TestsTyped == /\ collection \in [Access!AllCollections -> Access!Collection]
              /\ tests \in Seq(Access!Test)
              /\ DOMAIN tested = Access!AllCollections
TestsExist == \A i \in DOMAIN tests : collection[tests[i].of].exists
TestsBound ==
  \A i \in DOMAIN tests : OfLocal(i) => /\ tests[i].bound = collection[tests[i].of].agent
                                        /\ tests[i].by \in {Null, tests[i].bound}
BoundToAgents == \A c \in Locals : collection[c].exists => collection[c].agent \in Agents
OldestFirst ==
  \A i, k \in DOMAIN tests : OfLocal(i) /\ tests[k].of = tests[i].of /\ k < i => tests[i].by = Null
LastCurrent ==
  \A i \in DOMAIN tests : OfLocal(i) /\ tests[i].by # Null /\ Others(i) = {}
                            => tests[i].place = collection[tests[i].of].place
Whereabouts == /\ TestsTyped /\ TestsExist /\ TestsBound /\ BoundToAgents
               /\ OldestFirst /\ LastCurrent
               /\ Access!TestedWhereItIs

LEMMA AccessCardinality == \A S : Access!Cardinality(S) = Cardinality(S)
  BY DEF Access!Cardinality, Cardinality

LEMMA TestFields ==
  ASSUME tests \in Seq(Access!Test), NEW i \in DOMAIN tests
  PROVE  /\ tests[i] \in Access!Test
         /\ tests[i].of \in Access!AllCollections
         /\ tests[i].bound \in Agents \cup {Null} /\ tests[i].by \in Agents \cup {Null}
         /\ tests[i].place \in Places \cup {Null}
         /\ i \in 1 .. Len(tests) /\ Len(tests) \in Nat
  <1>1. i \in 1 .. Len(tests) /\ Len(tests) \in Nat
    OBVIOUS
  <1>2. tests[i] \in Access!Test
    BY <1>1
  <1>3. QED
    BY <1>1, <1>2 DEF Access!Test

(* The least index, by the finite sets below it.                           *)
LEMMA LeastIndex ==
  ASSUME NEW n \in Nat, NEW S \in SUBSET (1 .. n), S # {}
  PROVE  \E x \in S : \A y \in S : x <= y
  <1> DEFINE Upto(x) == {y \in S : y <= x}
             T == {Upto(x) : x \in S}
  <1>1. IsFiniteSet(1 .. n)
    BY FS_Interval
  <1>2. /\ IsWellFoundedOn(StrictSubsetOrdering(1 .. n), FiniteSubsetsOf(1 .. n))
        /\ FiniteSubsetsOf(1 .. n) = SUBSET (1 .. n)
    BY <1>1, FS_StrictSubsetOrderingWellFounded, FS_FiniteSubsetsOfFinite
  <1>3. T \subseteq SUBSET (1 .. n) /\ T # {}
    OBVIOUS
  <1>4. PICK A \in T : \A B \in T : ~ (<<B, A>> \in StrictSubsetOrdering(1 .. n))
    <2> HIDE DEF T
    <2>1. /\ IsWellFoundedOn(StrictSubsetOrdering(1 .. n), SUBSET (1 .. n))
          /\ T \subseteq SUBSET (1 .. n) /\ T # {}
      BY <1>2, <1>3, Zenon
    <2> QED BY <2>1, WFMin, Zenon
  <1>5. PICK x \in S : A = Upto(x)
    BY <1>4
  <1>6. ASSUME NEW y \in S, ~ (x <= y) PROVE FALSE
    <2>1. Upto(y) \in T
      OBVIOUS
    <2>2. Upto(y) \subseteq A
      <3>1. x \in 1 .. n /\ y \in 1 .. n /\ A = {z \in S : z <= x}
        BY <1>5, <1>6
      <3>2. ASSUME NEW z \in S, z <= y PROVE z \in A
        <4>1. z \in 1 .. n
          BY <3>2
        <4>2. z <= x
          BY <4>1, <3>1, <3>2, <1>6
        <4> QED BY <4>2, <3>1
      <3> QED BY <3>2
    <2>3. x \in A /\ x \notin Upto(y)
      BY <1>5, <1>6
    <2>4. A \subseteq 1 .. n
      BY <1>5
    <2> QED BY <2>1, <2>2, <2>3, <2>4, <1>4 DEF StrictSubsetOrdering
  <1> QED BY <1>6

(* The test that an agent claims is the oldest that it may run.            *)
LEMMA OldestClaimed ==
  ASSUME tests \in Seq(Access!Test), NEW a \in Agents, Access!ClaimTest(a)
  PROVE  \E i \in DOMAIN tests :
           /\ \A k \in DOMAIN tests : tests[k].by # a
           /\ Access!MayRun(a, tests[i])
           /\ \A k \in DOMAIN tests : Access!MayRun(a, tests[k]) => i <= k
           /\ tests' = [tests EXCEPT ![i].by = a,
                          ![i].place = collection[tests[i].of].place]
  <1> DEFINE I == {k \in 1 .. Len(tests) : Access!MayRun(a, tests[k])}
             i == IF I # {} THEN Access!Min(I) ELSE 0
  <1>1. /\ i # 0 /\ \A k \in DOMAIN tests : tests[k].by # a
        /\ tests' = [tests EXCEPT ![i].by = a, ![i].place = collection[tests[i].of].place]
    BY DEF Access!ClaimTest, Access!SelectInSeq
  <1>2. I # {} /\ i = Access!Min(I)
    BY <1>1
  <1>3. Len(tests) \in Nat /\ DOMAIN tests = 1 .. Len(tests)
    OBVIOUS
  <1>4. \E x \in I : \A y \in I : x <= y
    BY <1>2, <1>3, LeastIndex
  <1>5. i \in I /\ \A y \in I : i <= y
    BY <1>2, <1>4 DEF Access!Min
  <1> HIDE DEF i
  <1>6. QED
    BY <1>1, <1>3, <1>5

(* What remains of the tests is in their order, and nothing else is lost.  *)
LEMMA RemainingFits ==
  ASSUME tests \in Seq(Access!Test), NEW S \in SUBSET DOMAIN tests,
         NEW ts \in Access!Remaining(S)
  PROVE  \E f : /\ ts \in Seq(Access!Test)
                /\ f \in [DOMAIN ts -> S]
                /\ \A k \in DOMAIN ts : ts[k] = tests[f[k]]
                /\ \A k, l \in DOMAIN ts : k < l => f[k] < f[l]
                /\ \A i \in S : \E k \in DOMAIN ts : f[k] = i
  <1> DEFINE n == Cardinality(S)
  <1>1. Len(tests) \in Nat /\ DOMAIN tests = 1 .. Len(tests) /\ S \subseteq 1 .. Len(tests)
    OBVIOUS
  <1>2. IsFiniteSet(S) /\ n \in Nat
    <2>1. IsFiniteSet(1 .. Len(tests))
      BY <1>1, FS_Interval
    <2>2. IsFiniteSet(S)
      BY <1>1, <2>1, FS_Subset
    <2>3. QED
      BY <2>2, FS_CardinalityType
  <1>3. Access!Cardinality(S) = n
    BY AccessCardinality
  <1> HIDE DEF n
  <1>4. PICK f \in [1 .. n -> S] : /\ \A k, l \in DOMAIN f : k < l => f[k] < f[l]
                                   /\ ts = [k \in DOMAIN f |-> tests[f[k]]]
    BY <1>3 DEF Access!Remaining
  <1>5. ts \in [1 .. n -> Access!Test]
    BY <1>1, <1>4
  <1>6. ts \in Seq(Access!Test) /\ DOMAIN ts = 1 .. n
    BY <1>2, <1>5
  <1>7. ASSUME NEW k \in 1 .. n, NEW l \in 1 .. n, f[k] = f[l] PROVE k = l
    <2>1. ~ (k < l) /\ ~ (l < k)
      BY <1>1, <1>2, <1>4, <1>7
    <2>2. QED
      BY <1>2, <2>1
  <1>8. f \in Injection(1 .. n, S)
    BY <1>4, <1>7 DEF Injection, IsInjective
  <1>9. IsFiniteSet(1 .. n) /\ Cardinality(1 .. n) = n
    BY <1>2, FS_Interval
  <1>10. f \in Surjection(1 .. n, S)
    BY <1>2, <1>8, <1>9, FS_Injection DEF n
  <1>11. \A i \in S : \E k \in 1 .. n : f[k] = i
    BY <1>10 DEF Surjection
  <1>12. QED
    BY <1>4, <1>6, <1>11

(* No test is queued, run or gone, and local collections stay.             *)
LEMMA SameTests ==
  ASSUME Whereabouts, tests' = tests,
         collection' \in [Access!AllCollections -> Access!Collection],
         DOMAIN tested' = Access!AllCollections,
         \A c \in Access!AllCollections : collection[c].exists => collection'[c].exists,
         \A c \in Locals : /\ collection'[c].exists = collection[c].exists
                           /\ collection'[c].agent = collection[c].agent
                           /\ collection'[c].place = collection[c].place
                           /\ collection'[c].accessible = collection[c].accessible
                           /\ tested'[c] = tested[c]
  PROVE  Whereabouts'
  <1>1. \A i \in DOMAIN tests : tests[i].of \in Access!AllCollections
    BY TestFields DEF Whereabouts, TestsTyped
  <1>2. TestsTyped' /\ TestsExist'
    BY <1>1 DEF Whereabouts, TestsTyped, TestsExist
  <1>3. TestsBound' /\ OldestFirst' /\ LastCurrent'
    BY DEF Whereabouts, TestsBound, OldestFirst, LastCurrent, OfLocal, Others
  <1>4. BoundToAgents'
    BY DEF Whereabouts, BoundToAgents
  <1>5. Access!TestedWhereItIs'
    BY DEF Whereabouts, Access!TestedWhereItIs, Access!OpenTests
  <1>6. QED
    BY <1>2, <1>3, <1>4, <1>5 DEF Whereabouts

(* A test is queued for the agent that the collection is bound to.         *)
LEMMA OneQueued ==
  ASSUME Whereabouts, NEW c \in Access!AllCollections, NEW a \in Agents \cup {Null},
         tests' = Append(tests, Access!NewTest(c, a)),
         collection' \in [Access!AllCollections -> Access!Collection],
         DOMAIN tested' = Access!AllCollections,
         collection'[c].exists,
         \A d \in Access!AllCollections : collection[d].exists => collection'[d].exists,
         c \in Locals => /\ a \in Agents /\ collection'[c].agent = a
                         /\ collection[c].exists => collection[c].agent = a,
         \A d \in Locals \ {c} : /\ collection'[d] = collection[d]
                                 /\ tested'[d] = tested[d]
  PROVE  Whereabouts'
  <1> DEFINE n == Len(tests)
             new == Access!NewTest(c, a)
  <1>1. /\ new.of = c /\ new.bound = a /\ new.by = Null /\ new.place = Null
        /\ new \in Access!Test
    BY DEF Access!NewTest, Access!Test
  <1>2. /\ n \in Nat /\ DOMAIN tests = 1 .. n /\ tests \in Seq(Access!Test)
        /\ collection \in [Access!AllCollections -> Access!Collection]
    BY DEF Whereabouts, TestsTyped
  <1> HIDE DEF new
  <1>3. /\ tests' \in Seq(Access!Test) /\ DOMAIN tests' = 1 .. (n + 1)
        /\ tests'[n + 1] = new
        /\ \A k \in DOMAIN tests : k \in DOMAIN tests' /\ k < n + 1 /\ tests'[k] = tests[k]
        /\ \A k \in DOMAIN tests' : k = n + 1 \/ k \in DOMAIN tests
    BY <1>1, <1>2 DEF new
  <1> HIDE DEF n
  <1>4. \A i \in DOMAIN tests : tests[i].of \in Access!AllCollections
    BY <1>2, TestFields
  <1>5. TestsTyped'
    BY <1>3 DEF TestsTyped
  <1>6. TestsExist'
    BY <1>1, <1>3, <1>4 DEF Whereabouts, TestsExist
  <1>7. \A i \in DOMAIN tests : OfLocal(i) =>
          collection'[tests[i].of].agent = collection[tests[i].of].agent
    BY <1>4 DEF Whereabouts, TestsExist, OfLocal
  <1>8. TestsBound'
    BY <1>1, <1>3, <1>7 DEF Whereabouts, TestsBound, OfLocal
  <1>9. BoundToAgents'
    BY DEF Whereabouts, BoundToAgents
  <1>10. OldestFirst'
    <2> SUFFICES ASSUME NEW i \in DOMAIN tests', NEW k \in DOMAIN tests', tests'[i].of \in Locals,
                        tests'[k].of = tests'[i].of, k < i
                 PROVE  tests'[i].by = Null
      BY DEF OldestFirst, OfLocal
    <2>1. CASE i = n + 1
      BY <1>1, <1>3, <2>1
    <2>2. CASE i # n + 1
      <3>1. i \in DOMAIN tests /\ k \in DOMAIN tests
        <4>1. i \in DOMAIN tests /\ i < n + 1
          BY <1>3, <2>2
        <4>2. k # n + 1
          BY <4>1, <1>2
        <4>3. QED
          BY <1>3, <4>1, <4>2
      <3>2. QED
        BY <1>3, <3>1 DEF Whereabouts, OldestFirst, OfLocal
    <2>3. QED
      BY <2>1, <2>2
  <1>11. LastCurrent'
    <2> SUFFICES ASSUME NEW i \in DOMAIN tests', tests'[i].of \in Locals, tests'[i].by # Null,
                        \A k \in DOMAIN tests' : tests'[k].of = tests'[i].of => k = i
                 PROVE  tests'[i].place = collection'[tests'[i].of].place
      BY DEF LastCurrent, OfLocal, Others
    <2>1. i \in DOMAIN tests /\ tests'[i] = tests[i]
      BY <1>1, <1>3
    <2>2. tests[i].of # c
      BY <1>1, <1>2, <1>3, <2>1
    <2>3. Others(i) = {}
      BY <1>3, <2>1 DEF Others
    <2>4. tests[i].place = collection[tests[i].of].place
      BY <2>1, <2>3 DEF Whereabouts, LastCurrent, OfLocal
    <2>5. QED
      BY <2>1, <2>2, <2>4
  <1>12. Access!TestedWhereItIs'
    <2> SUFFICES ASSUME NEW d \in Locals, collection'[d].exists,
                        \A k \in DOMAIN tests' : tests'[k].of # d
                 PROVE  /\ collection'[d].accessible # "unknown"
                        /\ tested'[d] = [place |-> collection'[d].place,
                                         by |-> collection'[d].agent]
      BY DEF Access!TestedWhereItIs, Access!OpenTests
    <2>1. d # c
      BY <1>1, <1>2, <1>3
    <2>2. Access!OpenTests(d) = {}
      BY <1>3 DEF Access!OpenTests
    <2>3. QED
      BY <2>1, <2>2 DEF Whereabouts, Access!TestedWhereItIs
  <1>13. QED
    BY <1>5, <1>6, <1>8, <1>9, <1>10, <1>11, <1>12 DEF Whereabouts

(* The oldest test of a local collection is the one that its agent runs.   *)
LEMMA OneClaimed ==
  ASSUME Access!ConstantsAssumption, Whereabouts, NEW a \in Agents, Access!ClaimTest(a)
  PROVE  Whereabouts'
  <1>1. /\ tests \in Seq(Access!Test) /\ a # Null
        /\ collection' = collection /\ tested' = tested
    BY DEF Whereabouts, TestsTyped, Access!ConstantsAssumption, Access!ClaimTest
  <1>2. PICK i \in DOMAIN tests :
           /\ \A k \in DOMAIN tests : tests[k].by # a
           /\ Access!MayRun(a, tests[i])
           /\ \A k \in DOMAIN tests : Access!MayRun(a, tests[k]) => i <= k
           /\ tests' = [tests EXCEPT ![i].by = a,
                          ![i].place = collection[tests[i].of].place]
    BY <1>1, OldestClaimed
  <1> DEFINE new == [tests[i] EXCEPT !.by = a, !.place = collection[tests[i].of].place]
  <1>3. /\ \A k \in DOMAIN tests : tests[k] \in Access!Test /\ tests[k].of \in Access!AllCollections
        /\ i \in 1 .. Len(tests) /\ Len(tests) \in Nat /\ DOMAIN tests = 1 .. Len(tests)
    BY <1>1, TestFields
  <1>4. collection[tests[i].of].place \in Places \cup {Null}
    BY <1>3 DEF Whereabouts, TestsTyped, Access!Collection
  <1>5. /\ new \in Access!Test /\ new.of = tests[i].of /\ new.bound = tests[i].bound
        /\ new.by = a /\ new.place = collection[tests[i].of].place
    BY <1>3, <1>4 DEF Access!Test
  <1>6. tests' = [tests EXCEPT ![i] = new]
    BY <1>2
  <1> HIDE DEF new
  <1>7. /\ tests' \in Seq(Access!Test) /\ DOMAIN tests' = DOMAIN tests
        /\ tests'[i] = new
        /\ \A k \in DOMAIN tests : k # i => tests'[k] = tests[k]
    BY <1>1, <1>5, <1>6
  <1>8. \A k \in DOMAIN tests : tests'[k].of = tests[k].of /\ tests'[k].bound = tests[k].bound
    BY <1>5, <1>7
  <1>9. OfLocal(i) => tests[i].bound = a
    BY <1>2, <1>3 DEF Whereabouts, TestsBound, TestsExist, BoundToAgents, OfLocal, Access!MayRun,
       Access!ConstantsAssumption
  <1>10. TestsTyped' /\ TestsExist' /\ BoundToAgents'
    BY <1>1, <1>7, <1>8 DEF Whereabouts, TestsTyped, TestsExist, BoundToAgents
  <1>11. TestsBound'
    BY <1>1, <1>5, <1>7, <1>8, <1>9 DEF Whereabouts, TestsBound, OfLocal
  <1>12. OldestFirst'
    <2> SUFFICES ASSUME NEW j \in DOMAIN tests, NEW k \in DOMAIN tests, tests[j].of \in Locals,
                        tests[k].of = tests[j].of, k < j
                 PROVE  tests'[j].by = Null
      BY <1>7, <1>8 DEF OldestFirst, OfLocal
    <2>1. tests[j].by = Null
      BY DEF Whereabouts, OldestFirst, OfLocal
    <2>2. ASSUME j = i PROVE FALSE
      <3>1. tests[k].bound = a /\ tests[k].by \in {Null, a}
        BY <1>9, <2>2 DEF Whereabouts, TestsBound, OfLocal
      <3>2. tests[k].by = Null
        BY <1>2, <3>1
      <3>3. tests[k].of \notin Remotes
        BY DEF Access!ConstantsAssumption
      <3>4. Access!MayRun(a, tests[k])
        BY <3>1, <3>2, <3>3 DEF Access!MayRun
      <3>5. i <= k
        BY <1>2, <3>4
      <3>6. QED
        BY <1>3, <2>2, <3>5
    <2>3. QED
      BY <1>7, <2>1, <2>2
  <1>13. LastCurrent'
    <2> SUFFICES ASSUME NEW j \in DOMAIN tests, tests[j].of \in Locals, tests'[j].by # Null,
                        \A k \in DOMAIN tests : tests[k].of = tests[j].of => k = j
                 PROVE  tests'[j].place = collection[tests[j].of].place
      BY <1>1, <1>7, <1>8 DEF LastCurrent, OfLocal, Others
    <2>1. CASE j = i
      BY <1>5, <1>7, <2>1
    <2>2. CASE j # i
      BY <1>7, <2>2 DEF Whereabouts, LastCurrent, OfLocal, Others
    <2>3. QED
      BY <2>1, <2>2
  <1>14. Access!TestedWhereItIs'
    BY <1>1, <1>7, <1>8 DEF Whereabouts, Access!TestedWhereItIs, Access!OpenTests
  <1>15. QED
    BY <1>10, <1>11, <1>12, <1>13, <1>14 DEF Whereabouts

(* A released test waits again.                                            *)
LEMMA OneReleased ==
  ASSUME Whereabouts, NEW i \in DOMAIN tests, Access!ReleaseTest(i)
  PROVE  Whereabouts'
  <1>1. /\ tests \in Seq(Access!Test) /\ collection' = collection /\ tested' = tested
        /\ tests' = [tests EXCEPT ![i].by = Null, ![i].place = Null]
    BY DEF Whereabouts, TestsTyped, Access!ReleaseTest
  <1> DEFINE new == [tests[i] EXCEPT !.by = Null, !.place = Null]
  <1>2. /\ tests[i] \in Access!Test /\ Len(tests) \in Nat /\ i \in 1 .. Len(tests)
        /\ DOMAIN tests = 1 .. Len(tests)
    BY <1>1, TestFields
  <1>3. /\ new \in Access!Test /\ new.of = tests[i].of /\ new.bound = tests[i].bound
        /\ new.by = Null
    BY <1>2 DEF Access!Test
  <1>4. tests' = [tests EXCEPT ![i] = new]
    BY <1>1
  <1> HIDE DEF new
  <1>5. /\ tests' \in Seq(Access!Test) /\ DOMAIN tests' = DOMAIN tests
        /\ tests'[i] = new
        /\ \A k \in DOMAIN tests : k # i => tests'[k] = tests[k]
    <2>1. tests' \in Seq(Access!Test)
      <3>1. tests \in [1 .. Len(tests) -> Access!Test]
        BY <1>1
      <3>2. tests' \in [1 .. Len(tests) -> Access!Test]
        BY <1>2, <1>3, <1>4, <3>1
      <3>3. QED
        BY <1>2, <3>2
    <2>2. DOMAIN tests' = DOMAIN tests
      BY <1>4
    <2>3. tests'[i] = new
      BY <1>4
    <2>4. \A k \in DOMAIN tests : k # i => tests'[k] = tests[k]
      BY <1>4
    <2>5. QED
      BY <2>1, <2>2, <2>3, <2>4
  <1>6. \A k \in DOMAIN tests : tests'[k].of = tests[k].of /\ tests'[k].bound = tests[k].bound
    BY <1>3, <1>5
  <1>7. TestsTyped' /\ TestsExist' /\ BoundToAgents'
    BY <1>1, <1>5, <1>6 DEF Whereabouts, TestsTyped, TestsExist, BoundToAgents
  <1>8. TestsBound' /\ OldestFirst' /\ LastCurrent'
    <2>1. TestsBound'
      BY <1>1, <1>3, <1>5, <1>6 DEF Whereabouts, TestsBound, OfLocal
    <2>2. OldestFirst'
      BY <1>1, <1>3, <1>5, <1>6 DEF Whereabouts, OldestFirst, OfLocal
    <2>3. LastCurrent'
      BY <1>1, <1>3, <1>5, <1>6 DEF Whereabouts, LastCurrent, OfLocal, Others
    <2>4. QED
      BY <2>1, <2>2, <2>3
  <1>9. Access!TestedWhereItIs'
    BY <1>1, <1>5, <1>6 DEF Whereabouts, Access!TestedWhereItIs, Access!OpenTests
  <1>10. QED
    BY <1>7, <1>8, <1>9 DEF Whereabouts

(* A collection is deleted with its tests.                                 *)
LEMMA OneDeleted ==
  ASSUME Whereabouts, NEW w, NEW c \in Access!AllCollections, NEW force,
         Access!DeleteCollection(w, c, force)
  PROVE  Whereabouts'
  <1> DEFINE S == DOMAIN tests \ Access!OpenTests(c)
  <1>1. /\ tests \in Seq(Access!Test) /\ collection \in [Access!AllCollections -> Access!Collection]
        /\ DOMAIN tested = Access!AllCollections /\ DOMAIN tested' = Access!AllCollections
        /\ tests' \in Access!Remaining(S)
        /\ \A d \in Access!AllCollections :
             /\ collection'[d] = IF d = c THEN Access!NoCollection ELSE collection[d]
             /\ d # c => tested'[d] = tested[d]
        /\ collection' = [collection EXCEPT ![c] = Access!NoCollection]
    BY DEF Whereabouts, TestsTyped, Access!DeleteCollection
  <1>2. /\ Access!NoCollection \in Access!Collection /\ ~ Access!NoCollection.exists
    BY DEF Access!NoCollection, Access!Collection, Access!Verdicts
  <1>3. PICK f : /\ tests' \in Seq(Access!Test)
                 /\ f \in [DOMAIN tests' -> S]
                 /\ \A k \in DOMAIN tests' : tests'[k] = tests[f[k]]
                 /\ \A k, l \in DOMAIN tests' : k < l => f[k] < f[l]
                 /\ \A i \in S : \E k \in DOMAIN tests' : f[k] = i
    <2>1. S \in SUBSET DOMAIN tests
      OBVIOUS
    <2>2. tests \in Seq(Access!Test) /\ tests' \in Access!Remaining(S)
      BY <1>1
    <2> HIDE DEF S
    <2>3. QED
      BY <2>1, <2>2, RemainingFits
  <1>4. \A k \in DOMAIN tests' : /\ f[k] \in DOMAIN tests /\ tests'[k] = tests[f[k]]
                                 /\ tests'[k].of # c
                                 /\ tests'[k].of \in Access!AllCollections
    BY <1>1, <1>3, TestFields DEF Access!OpenTests
  <1>5. TestsTyped'
    BY <1>1, <1>2, <1>3 DEF TestsTyped
  <1>6. TestsExist' /\ BoundToAgents' /\ TestsBound'
    BY <1>1, <1>2, <1>4 DEF Whereabouts, TestsExist, BoundToAgents, TestsBound, OfLocal,
       Access!AllCollections
  <1>7. OldestFirst'
    BY <1>3, <1>4 DEF Whereabouts, OldestFirst, OfLocal
  <1>8. LastCurrent'
    <2> SUFFICES ASSUME NEW j \in DOMAIN tests', tests'[j].of \in Locals, tests'[j].by # Null,
                        \A k \in DOMAIN tests' : tests'[k].of = tests'[j].of => k = j
                 PROVE  tests'[j].place = collection'[tests'[j].of].place
      BY DEF LastCurrent, OfLocal, Others
    <2>1. ASSUME NEW k \in DOMAIN tests, tests[k].of = tests[f[j]].of PROVE k = f[j]
      BY <1>3, <1>4, <2>1 DEF Access!OpenTests
    <2>2. Others(f[j]) = {}
      BY <2>1 DEF Others
    <2>3. QED
      BY <1>1, <1>4, <2>2 DEF Whereabouts, LastCurrent, OfLocal
  <1>9. Access!TestedWhereItIs'
    <2> SUFFICES ASSUME NEW d \in Locals, collection'[d].exists,
                        \A k \in DOMAIN tests' : tests'[k].of # d
                 PROVE  /\ collection'[d].accessible # "unknown"
                        /\ tested'[d] = [place |-> collection'[d].place,
                                         by |-> collection'[d].agent]
      BY DEF Access!TestedWhereItIs, Access!OpenTests
    <2>1. d \in Access!AllCollections /\ d # c
      BY <1>1, <1>2 DEF Access!AllCollections
    <2>2. Access!OpenTests(d) = {}
      BY <1>3, <2>1 DEF Access!OpenTests
    <2>3. QED
      BY <1>1, <2>1, <2>2 DEF Whereabouts, Access!TestedWhereItIs
  <1>10. QED
    BY <1>5, <1>6, <1>7, <1>8, <1>9 DEF Whereabouts

(* The answer is about the place of the test, which is where the           *)
(* collection is unless another test of it waits.                          *)
LEMMA OneCompleted ==
  ASSUME Access!ConstantsAssumption, Whereabouts, NEW i \in DOMAIN tests,
         NEW v \in {"yes", "no"}, Access!CompleteTest(i, v)
  PROVE  Whereabouts'
  <1> DEFINE S == DOMAIN tests \ {i}
             c == tests[i].of
             row == [collection[c] EXCEPT !.accessible = v, !.results = TRUE]
  <1>1. /\ tests \in Seq(Access!Test) /\ collection \in [Access!AllCollections -> Access!Collection]
        /\ DOMAIN tested = Access!AllCollections
        /\ tests' \in Access!Remaining(S)
        /\ tests[i].by # Null
        /\ collection' = [collection EXCEPT ![c].accessible = v, ![c].results = TRUE]
        /\ tested' = [tested EXCEPT ![c] = Access!By(tests[i].place, tests[i].by)]
    BY DEF Whereabouts, TestsTyped, Access!CompleteTest
  <1>2. c \in Access!AllCollections
    BY <1>1, TestFields
  <1>3. /\ row \in Access!Collection /\ row.accessible = v
        /\ row.exists = collection[c].exists /\ row.agent = collection[c].agent
        /\ row.place = collection[c].place
    <2>1. collection[c] \in Access!Collection
      BY <1>1, <1>2
    <2> HIDE DEF c
    <2>2. QED
      BY <2>1 DEF Access!Collection, Access!Verdicts
  <1>4. collection' = [collection EXCEPT ![c] = row]
    BY <1>1
  <1> HIDE DEF row
  <1>5. /\ \A d \in Access!AllCollections :
             /\ collection'[d] = IF d = c THEN row ELSE collection[d]
             /\ d # c => tested'[d] = tested[d]
        /\ tested'[c] = [place |-> tests[i].place, by |-> tests[i].by]
        /\ DOMAIN tested' = Access!AllCollections
        /\ collection' \in [Access!AllCollections -> Access!Collection]
    BY <1>1, <1>2, <1>3, <1>4 DEF Access!By
  <1>6. PICK f : /\ tests' \in Seq(Access!Test)
                 /\ f \in [DOMAIN tests' -> S]
                 /\ \A k \in DOMAIN tests' : tests'[k] = tests[f[k]]
                 /\ \A k, l \in DOMAIN tests' : k < l => f[k] < f[l]
                 /\ \A j \in S : \E k \in DOMAIN tests' : f[k] = j
    <2>1. S \in SUBSET DOMAIN tests
      OBVIOUS
    <2> HIDE DEF S
    <2>2. QED
      BY <1>1, <2>1, RemainingFits
  <1> HIDE DEF c
  <1>7. \A k \in DOMAIN tests' : /\ f[k] \in DOMAIN tests /\ f[k] # i /\ tests'[k] = tests[f[k]]
                                 /\ tests'[k].of \in Access!AllCollections
    BY <1>1, <1>6, TestFields
  <1>8. TestsTyped'
    BY <1>5, <1>6 DEF TestsTyped
  <1>9. \A d \in Access!AllCollections : /\ collection'[d].exists = collection[d].exists
                                        /\ collection'[d].agent = collection[d].agent
                                        /\ collection'[d].place = collection[d].place
    BY <1>3, <1>5
  <1>10. TestsExist' /\ BoundToAgents' /\ TestsBound'
    BY <1>7, <1>9 DEF Whereabouts, TestsExist, BoundToAgents, TestsBound, OfLocal,
       Access!AllCollections
  <1>11. OldestFirst'
    BY <1>6, <1>7 DEF Whereabouts, OldestFirst, OfLocal
  (* No other test of a local collection runs.                             *)
  <1>12. ASSUME NEW j \in DOMAIN tests, j # i, tests[j].of = c, c \in Locals
         PROVE  tests[j].by = Null
    <2>1. i < j \/ j < i
      BY <1>1, <1>12
    <2>2. QED
      BY <1>1, <1>12, <2>1 DEF Whereabouts, OldestFirst, OfLocal, c
  <1>13. LastCurrent'
    <2> SUFFICES ASSUME NEW j \in DOMAIN tests', tests'[j].of \in Locals, tests'[j].by # Null,
                        \A k \in DOMAIN tests' : tests'[k].of = tests'[j].of => k = j
                 PROVE  tests'[j].place = collection'[tests'[j].of].place
      BY DEF LastCurrent, OfLocal, Others
    <2>1. tests[f[j]].of # c
      BY <1>7, <1>12
    <2>2. ASSUME NEW k \in DOMAIN tests, tests[k].of = tests[f[j]].of PROVE k = f[j]
      BY <1>6, <1>7, <2>1, <2>2 DEF c
    <2>3. Others(f[j]) = {}
      BY <2>2 DEF Others
    <2>4. QED
      BY <1>7, <1>9, <2>3 DEF Whereabouts, LastCurrent, OfLocal
  <1>14. Access!TestedWhereItIs'
    <2> SUFFICES ASSUME NEW d \in Locals, collection'[d].exists,
                        \A k \in DOMAIN tests' : tests'[k].of # d
                 PROVE  /\ collection'[d].accessible # "unknown"
                        /\ tested'[d] = [place |-> collection'[d].place,
                                         by |-> collection'[d].agent]
      BY DEF Access!TestedWhereItIs, Access!OpenTests
    <2>1. d \in Access!AllCollections
      BY DEF Access!AllCollections
    <2>2. CASE d = c
      <3>1. Others(i) = {}
        BY <1>6, <2>2 DEF Others, c
      <3>2. tests[i].place = collection[c].place
        BY <1>1, <2>2, <3>1 DEF Whereabouts, LastCurrent, OfLocal, c
      <3>3. tests[i].by = collection[c].agent
        BY <1>1, <2>2 DEF Whereabouts, TestsBound, OfLocal, c
      <3>4. QED
        BY <1>3, <1>5, <2>1, <2>2, <3>2, <3>3
    <2>3. CASE d # c
      <3>1. Access!OpenTests(d) = {}
        BY <1>6, <2>3 DEF Access!OpenTests, c
      <3>2. QED
        BY <1>5, <2>1, <2>3, <3>1 DEF Whereabouts, Access!TestedWhereItIs
    <2>4. QED
      BY <2>2, <2>3
  <1>15. QED
    BY <1>8, <1>10, <1>11, <1>13, <1>14 DEF Whereabouts

(* The operations of requests on local and remote collections.             *)
LEMMA CreateTested ==
  ASSUME Access!ConstantsAssumption, ~ ByCli, ~ Faults, Whereabouts,
         NEW c \in Access!AllCollections, NEW p \in Places,
         \/ \E a \in Agents : Access!CreateLocal(c, p, a) \/ Access!AgentCreate(c, p, a)
         \/ \E v \in {"yes", "no"} : Access!CreateRemote(c, p, v)
         \/ Access!CreateFromInventory(c, p)
  PROVE  Whereabouts'
  <1>1. /\ collection \in [Access!AllCollections -> Access!Collection]
        /\ DOMAIN tested = Access!AllCollections
        /\ Locals \cup Remotes = Access!AllCollections /\ Locals \cap Remotes = {}
    BY DEF Whereabouts, TestsTyped, Access!AllCollections, Access!ConstantsAssumption
  <1>2. CASE \E a \in Agents : Access!CreateLocal(c, p, a) \/ Access!AgentCreate(c, p, a)
    <2>1. PICK a \in Agents : Access!CreateLocal(c, p, a)
      BY <1>2 DEF Access!AgentCreate
    <2> DEFINE row == [Access!NoCollection EXCEPT !.exists = TRUE, !.place = p, !.agent = a]
    <2>2. row \in Access!Collection /\ row.exists /\ row.agent = a
      BY DEF Access!NoCollection, Access!Collection, Access!Verdicts
    <2>3. /\ collection' = [collection EXCEPT ![c] = row]
          /\ tested' = [tested EXCEPT ![c] = Access!Untested]
          /\ tests' = Append(tests, Access!NewTest(c, a))
          /\ ~ collection[c].exists
      BY <2>1 DEF Access!CreateLocal, Access!QueueAfter, Access!Queue
    <2> HIDE DEF row
    <2>4. /\ collection' \in [Access!AllCollections -> Access!Collection]
          /\ collection'[c] = row
          /\ \A d \in Access!AllCollections : d # c => /\ collection'[d] = collection[d]
                                                       /\ tested'[d] = tested[d]
          /\ DOMAIN tested' = Access!AllCollections
      BY <1>1, <2>2, <2>3
    <2>5. QED
      BY <1>1, <2>2, <2>3, <2>4, OneQueued
  <1>3. CASE \E v \in {"yes", "no"} : Access!CreateRemote(c, p, v)
    <2>1. PICK v \in {"yes", "no"} : Access!CreateRemote(c, p, v)
      BY <1>3
    <2> DEFINE row == [Access!NoCollection EXCEPT !.exists = TRUE, !.place = p, !.accessible = v]
    <2>2. row \in Access!Collection /\ row.exists
      BY DEF Access!NoCollection, Access!Collection, Access!Verdicts
    <2>3. /\ collection' = [collection EXCEPT ![c] = row]
          /\ tested' = [tested EXCEPT ![c] = Access!By(p, Null)]
          /\ tests' = tests /\ c \notin Locals
      BY <1>1, <2>1 DEF Access!CreateRemote
    <2> HIDE DEF row
    <2>4. /\ collection' \in [Access!AllCollections -> Access!Collection]
          /\ collection'[c] = row
          /\ \A d \in Access!AllCollections : d # c => /\ collection'[d] = collection[d]
                                                       /\ tested'[d] = tested[d]
          /\ DOMAIN tested' = Access!AllCollections
      BY <1>1, <2>2, <2>3
    <2>5. QED
      BY <1>1, <2>2, <2>3, <2>4, SameTests
  <1>4. CASE Access!CreateFromInventory(c, p)
    <2> DEFINE row == [Access!NoCollection EXCEPT !.exists = TRUE, !.place = p]
    <2>2. row \in Access!Collection /\ row.exists
      BY DEF Access!NoCollection, Access!Collection, Access!Verdicts
    <2>3. /\ collection' = [collection EXCEPT ![c] = row]
          /\ tested' = [tested EXCEPT ![c] = Access!Untested]
          /\ tests' = Append(tests, Access!NewTest(c, Null)) /\ c \notin Locals
      BY <1>1, <1>4 DEF Access!CreateFromInventory, Access!Queue
    <2> HIDE DEF row
    <2>4. /\ collection' \in [Access!AllCollections -> Access!Collection]
          /\ collection'[c] = row
          /\ \A d \in Access!AllCollections : d # c => /\ collection'[d] = collection[d]
                                                       /\ tested'[d] = tested[d]
          /\ DOMAIN tested' = Access!AllCollections
      BY <1>1, <2>2, <2>3
    <2>5. QED
      BY <1>1, <2>2, <2>3, <2>4, OneQueued
  <1>5. QED
    BY <1>2, <1>3, <1>4

LEMMA MoveTested ==
  ASSUME Access!ConstantsAssumption, ~ Rebinds, ~ Faults, Whereabouts,
         NEW w \in Processes, NEW c \in Access!AllCollections, NEW p \in Places,
         \/ \E a \in Agents : Access!UpdateLocal(w, c, p, a)
         \/ \E v \in {"yes", "no"} : Access!MoveRemote(w, c, p, v)
  PROVE  Whereabouts'
  <1>1. /\ collection \in [Access!AllCollections -> Access!Collection]
        /\ collection[c] \in Access!Collection
        /\ DOMAIN tested = Access!AllCollections
        /\ Locals \cup Remotes = Access!AllCollections /\ Locals \cap Remotes = {}
    BY DEF Whereabouts, TestsTyped, Access!AllCollections, Access!ConstantsAssumption
  <1>2. CASE \E a \in Agents : Access!UpdateLocal(w, c, p, a)
    <2>1. PICK a \in Agents : Access!UpdateLocal(w, c, p, a)
      BY <1>2
    <2> DEFINE row == Access!Moved(c, p, a)
    <2>2. /\ c \in Locals /\ collection[c].exists /\ collection[c].agent = a
          /\ collection' = [collection EXCEPT ![c] = row]
      BY <2>1 DEF Access!UpdateLocal
    <2>3. /\ row \in Access!Collection /\ row.exists /\ row.place = p /\ row.agent = a
          /\ p # collection[c].place => row.accessible = "unknown"
          /\ p = collection[c].place => row.accessible = collection[c].accessible
      <3> DEFINE v == IF p # collection[c].place THEN "unknown" ELSE collection[c].accessible
      <3>1. v \in Access!Verdicts
        BY <1>1 DEF Access!Collection, Access!Verdicts
      <3>2. row = [collection[c] EXCEPT !.place = p, !.agent = a, !.accessible = v]
        BY DEF Access!Moved
      <3>3. /\ p # collection[c].place => v = "unknown"
            /\ p = collection[c].place => v = collection[c].accessible
        OBVIOUS
      <3> HIDE DEF v, row
      <3>4. QED
        BY <1>1, <2>2, <3>1, <3>2, <3>3 DEF Access!Collection
    <2>4. /\ tested' = [tested EXCEPT ![c] = IF row.accessible = "unknown" THEN Access!Untested
                                                                         ELSE tested[c]]
          /\ row.accessible = "unknown" => tests' = Append(tests, Access!NewTest(c, a))
          /\ row.accessible # "unknown" => tests' = tests
      BY <2>1 DEF Access!UpdateLocal, Access!QueueAfter, Access!Queue
    <2> HIDE DEF row
    <2>5. /\ collection' \in [Access!AllCollections -> Access!Collection]
          /\ collection'[c] = row
          /\ \A d \in Access!AllCollections : d # c => /\ collection'[d] = collection[d]
                                                       /\ tested'[d] = tested[d]
          /\ row.accessible # "unknown" => tested'[c] = tested[c]
          /\ DOMAIN tested' = Access!AllCollections
      BY <1>1, <2>2, <2>3, <2>4
    <2>6. CASE row.accessible = "unknown"
      BY <1>1, <2>2, <2>3, <2>4, <2>5, <2>6, OneQueued
    <2>7. CASE row.accessible # "unknown"
      <3>1. tests' = tests
        BY <2>4, <2>7
      <3>2. \A d \in Locals : /\ collection'[d].exists = collection[d].exists
                              /\ collection'[d].agent = collection[d].agent
                              /\ collection'[d].place = collection[d].place
                              /\ collection'[d].accessible = collection[d].accessible
                              /\ tested'[d] = tested[d]
        BY <1>1, <2>2, <2>3, <2>5, <2>7
      <3>3. QED
        BY <1>1, <2>3, <2>5, <3>1, <3>2, SameTests
    <2>8. QED
      BY <2>6, <2>7
  <1>3. CASE \E v \in {"yes", "no"} : Access!MoveRemote(w, c, p, v)
    <2>1. PICK v \in {"yes", "no"} : Access!MoveRemote(w, c, p, v)
      BY <1>3
    <2> DEFINE row == [collection[c] EXCEPT !.place = p, !.accessible = v]
    <2>2. row \in Access!Collection /\ row.exists
      BY <1>1, <2>1 DEF Access!Collection, Access!Verdicts, Access!MoveRemote
    <2>3. /\ collection' = [collection EXCEPT ![c] = row]
          /\ tested' = [tested EXCEPT ![c] = Access!By(p, Null)]
          /\ tests' = tests /\ c \notin Locals
      BY <1>1, <2>1 DEF Access!MoveRemote
    <2> HIDE DEF row
    <2>4. /\ collection' \in [Access!AllCollections -> Access!Collection]
          /\ collection'[c] = row
          /\ \A d \in Access!AllCollections : d # c => /\ collection'[d] = collection[d]
                                                       /\ tested'[d] = tested[d]
          /\ DOMAIN tested' = Access!AllCollections
      BY <1>1, <2>2, <2>3
    <2>5. QED
      BY <1>1, <2>2, <2>3, <2>4, SameTests
  <1>4. QED
    BY <1>2, <1>3

LEMMA TestTested ==
  ASSUME Access!ConstantsAssumption, Whereabouts, NEW c \in Access!AllCollections,
         Access!TestCollection(c)
  PROVE  Whereabouts'
  <1>1. /\ collection \in [Access!AllCollections -> Access!Collection]
        /\ collection[c] \in Access!Collection /\ collection[c].exists
        /\ DOMAIN tested = Access!AllCollections
        /\ Locals \cup Remotes = Access!AllCollections /\ Locals \cap Remotes = {}
    BY DEF Whereabouts, TestsTyped, Access!AllCollections, Access!ConstantsAssumption,
       Access!TestCollection
  <1>2. PICK v \in Access!Verdicts :
          /\ collection' = [collection EXCEPT ![c].accessible = v]
          /\ \E test : tested' = [tested EXCEPT ![c] = test]
    BY DEF Access!TestCollection, Access!Judged, Access!Verdicts, Access!ConnectorAnswers
  <1> DEFINE row == [collection[c] EXCEPT !.accessible = v]
  <1>3. /\ row \in Access!Collection /\ row.exists /\ row.agent = collection[c].agent
        /\ collection[c].agent \in Agents \cup {Null}
    BY <1>1 DEF Access!Collection
  <1>4. collection' = [collection EXCEPT ![c] = row]
    BY <1>2
  <1> HIDE DEF row
  <1>5. /\ collection' \in [Access!AllCollections -> Access!Collection]
        /\ collection'[c] = row
        /\ \A d \in Access!AllCollections : d # c => /\ collection'[d] = collection[d]
                                                     /\ tested'[d] = tested[d]
        /\ DOMAIN tested' = Access!AllCollections
    BY <1>1, <1>2, <1>3, <1>4
  <1>6. CASE tests' = Append(tests, Access!NewTest(c, collection[c].agent))
    <2>1. c \in Locals => collection[c].agent \in Agents
      BY <1>1 DEF Whereabouts, BoundToAgents
    <2>2. QED
      BY <1>1, <1>3, <1>5, <1>6, <2>1, OneQueued
  <1>7. CASE tests' = tests /\ c \notin Locals
    BY <1>1, <1>3, <1>5, <1>7, SameTests
  <1>8. QED
    BY <1>1, <1>6, <1>7 DEF Access!TestCollection, Access!Queue

(* The connector, listings and what agents report.                         *)
LEMMA ElsewhereTested ==
  ASSUME Whereabouts, UNCHANGED <<collection, tests, tested>>
  PROVE  Whereabouts'
  <1>1. \A c \in Access!AllCollections : collection[c].exists => collection'[c].exists
    OBVIOUS
  <1>2. /\ collection' \in [Access!AllCollections -> Access!Collection]
        /\ DOMAIN tested' = Access!AllCollections
    BY DEF Whereabouts, TestsTyped
  <1>3. QED
    BY <1>1, <1>2, SameTests

LEMMA AnalysedTested ==
  ASSUME Whereabouts, NEW c, Access!FinishAnalyses(c)
  PROVE  Whereabouts'
  <1>1. /\ collection \in [Access!AllCollections -> Access!Collection]
        /\ DOMAIN tested = Access!AllCollections
        /\ collection' = [collection EXCEPT ![c].results = TRUE]
        /\ tests' = tests /\ tested' = tested
    BY DEF Whereabouts, TestsTyped, Access!FinishAnalyses
  <1>2. \A d \in Access!AllCollections :
          /\ [collection[d] EXCEPT !.results = TRUE] \in Access!Collection
          /\ [collection[d] EXCEPT !.results = TRUE].exists = collection[d].exists
          /\ [collection[d] EXCEPT !.results = TRUE].place = collection[d].place
          /\ [collection[d] EXCEPT !.results = TRUE].agent = collection[d].agent
          /\ [collection[d] EXCEPT !.results = TRUE].accessible = collection[d].accessible
    BY <1>1 DEF Access!Collection
  <1>3. \A d \in Access!AllCollections :
          collection'[d] = IF d = c THEN [collection[d] EXCEPT !.results = TRUE] ELSE collection[d]
    BY <1>1
  <1>4. /\ collection' = [d \in Access!AllCollections |-> collection'[d]]
        /\ \A d \in Access!AllCollections : collection'[d] \in Access!Collection
    <2>1. \A d \in Access!AllCollections : collection'[d] \in Access!Collection
      BY <1>1, <1>2, <1>3
    <2>2. QED
      BY <1>1, <2>1
  <1>5. \A d \in Access!AllCollections : /\ collection'[d].exists = collection[d].exists
                                        /\ collection'[d].agent = collection[d].agent
                                        /\ collection'[d].place = collection[d].place
                                        /\ collection'[d].accessible = collection[d].accessible
    BY <1>2, <1>3
  <1>6. \A d \in Locals : d \in Access!AllCollections
    BY DEF Access!AllCollections
  <1>7. collection' \in [Access!AllCollections -> Access!Collection]
    BY <1>4
  <1>8. QED
    BY <1>1, <1>5, <1>6, <1>7, SameTests

LEMMA NextTested ==
  ASSUME Access!ConstantsAssumption, ~ Rebinds, ~ ByCli, ~ Faults, Whereabouts,
         [Access!Next]_(Access!vars)
  PROVE  Whereabouts'
  <1>1. CASE UNCHANGED <<collection, tests, tested>>
    BY <1>1, ElsewhereTested
  <1>2. CASE \E l \in {"server", "agent", "pending"}, x, y, z \in BOOLEAN :
               Access!CreateConnector(l, z) \/ Access!UpdateConnector(l, x, y, z)
    BY <1>1, <1>2 DEF Access!CreateConnector, Access!UpdateConnector
  <1>3. CASE \/ \E a \in Agents, has \in BOOLEAN : Access!ReportCapability(a, has)
             \/ Access!DeleteConnector
             \/ \E w \in Processes, c \in Access!AllCollections :
                  Access!ChangeState(w, c) \/ Access!RefreshCache(w, c) \/ Access!Expire(w, c)
    BY <1>1, <1>3 DEF Access!ReportCapability, Access!DeleteConnector, Access!ChangeState,
       Access!RefreshCache, Access!Expire
  <1>4. CASE \E a \in Agents : Access!ClaimTest(a) \/ Access!SyncCollections(a)
    BY <1>4, OneClaimed DEF Access!SyncCollections
  <1>5. CASE \E i \in DOMAIN tests : Access!ReleaseTest(i) \/ Access!LoseTest(i)
    BY <1>5, OneReleased DEF Access!LoseTest
  <1>6. CASE \E a \in Agents, c \in Access!AllCollections, v \in {"yes", "no"} :
               Access!AgentTest(a, c, v)
    BY <1>6 DEF Access!AgentTest
  <1>7. CASE Access!Next
    BY <1>2, <1>3, <1>4, <1>5, <1>6, <1>7, CreateTested, MoveTested, OneDeleted, TestTested,
       OneCompleted, AnalysedTested DEF Access!Next
  <1>8. QED
    BY <1>1, <1>7 DEF Access!vars

(* Unless collections are bound to other agents, tests run from the        *)
(* command line, or fail: a local collection without an open test has a    *)
(* verdict, from its agent and about the place where it is, through moves, *)
(* releases and late answers, for any collections, agents and tests.       *)
THEOREM AlwaysTestedWhereItIs ==
  Access!ConstantsAssumption /\ ~ Rebinds /\ ~ ByCli /\ ~ Faults /\ Access!Spec
    => []Access!TestedWhereItIs
  <1> SUFFICES ASSUME Access!ConstantsAssumption, ~ Rebinds, ~ ByCli, ~ Faults
               PROVE  Access!Spec => []Access!TestedWhereItIs
    OBVIOUS
  <1>1. Access!Init => Whereabouts
    <2> SUFFICES ASSUME Access!Init PROVE Whereabouts
      OBVIOUS
    <2>1. /\ tests = <<>> /\ tests \in Seq(Access!Test) /\ DOMAIN tests = {}
          /\ DOMAIN tested = Access!AllCollections
      BY DEF Access!Init
    <2>2. Access!NoCollection \in Access!Collection /\ ~ Access!NoCollection.exists
      BY DEF Access!NoCollection, Access!Collection, Access!Verdicts
    <2>3. /\ collection \in [Access!AllCollections -> Access!Collection]
          /\ \A c \in Locals : ~ collection[c].exists
      BY <2>2 DEF Access!Init, Access!AllCollections
    <2>4. QED
      BY <2>1, <2>3 DEF Whereabouts, TestsTyped, TestsExist, TestsBound, BoundToAgents,
         OldestFirst, LastCurrent, Access!TestedWhereItIs
  <1>2. Whereabouts /\ [Access!Next]_(Access!vars) => Whereabouts'
    BY NextTested
  <1>3. Whereabouts => Access!TestedWhereItIs
    BY DEF Whereabouts
  <1>4. QED
    BY <1>1, <1>2, <1>3, PTL DEF Access!Spec

-----------------------------------------------------------------------------
(* Credentials are stored where they are said to be.                       *)
CredentialsKept == connector \in Access!Connector /\ Access!SecretsOnlyOnServer

LEMMA NextKept ==
  ASSUME CredentialsKept, [Access!Next]_(Access!vars)
  PROVE  /\ CredentialsKept'
         /\ ~ Careless /\ Access!ServerHasCredentials => Access!ServerHasCredentials'
  <1>1. CASE connector' = connector
    BY <1>1 DEF CredentialsKept, Access!SecretsOnlyOnServer, Access!ServerHasCredentials
  <1>2. ASSUME NEW l \in {"server", "agent", "pending"},
                 NEW z \in BOOLEAN, Access!CreateConnector(l, z)
        PROVE  CredentialsKept' /\ Access!ServerHasCredentials'
    BY <1>2 DEF Access!CreateConnector, CredentialsKept, Access!Connector,
       Access!SecretsOnlyOnServer, Access!ServerHasCredentials
  <1>3. ASSUME NEW l \in {"server", "agent", "pending"}, NEW x \in BOOLEAN, NEW y \in BOOLEAN,
               NEW z \in BOOLEAN, Access!UpdateConnector(l, x, y, z)
        PROVE  CredentialsKept' /\ (~ Careless /\ Access!ServerHasCredentials =>
                 Access!ServerHasCredentials')
    <2> DEFINE kept == Access!CredentialsAfter(l, x /\ y)
    <2>1. kept \in BOOLEAN
      BY <1>3 DEF Access!CredentialsAfter, CredentialsKept, Access!Connector
    <2>2. kept => l = "server"
      BY <1>3 DEF Access!CredentialsAfter, Access!UpdateConnector, CredentialsKept,
         Access!SecretsOnlyOnServer
    <2>3. ~ Careless /\ Access!ServerHasCredentials /\ l = "server" => kept
      BY <1>3 DEF Access!CredentialsAfter, Access!UpdateConnector, CredentialsKept,
         Access!ServerHasCredentials
    <2>4. connector' = [connector EXCEPT !.location = l, !.active = z, !.credentials = kept]
      BY <1>3 DEF Access!UpdateConnector
    <2> HIDE DEF kept
    <2>5. connector' \in Access!Connector /\ connector'.location = l
            /\ connector'.credentials = kept
      BY <2>1, <2>4 DEF CredentialsKept, Access!Connector
    <2>6. QED
      BY <2>2, <2>3, <2>5 DEF CredentialsKept, Access!SecretsOnlyOnServer,
         Access!ServerHasCredentials
  <1>4. ASSUME NEW a \in Agents, NEW has \in BOOLEAN, Access!ReportCapability(a, has)
        PROVE  CredentialsKept' /\ (Access!ServerHasCredentials => Access!ServerHasCredentials')
    BY <1>4 DEF Access!ReportCapability, CredentialsKept, Access!Connector,
       Access!SecretsOnlyOnServer, Access!ServerHasCredentials
  <1>5. CASE Access!DeleteConnector
    BY <1>5 DEF Access!DeleteConnector, Access!NoConnector, CredentialsKept, Access!Connector,
       Access!SecretsOnlyOnServer, Access!ServerHasCredentials
  <1>6. QED
    BY <1>1, <1>2, <1>3, <1>4, <1>5, Zenon
    DEF Access!Next, Access!vars, Access!CreateLocal, Access!AgentCreate, Access!CreateRemote,
        Access!CreateFromInventory, Access!UpdateLocal, Access!MoveRemote,
        Access!ChangeState, Access!RefreshCache, Access!Expire, Access!DeleteCollection,
          Access!TestCollection, Access!ClaimTest, Access!SyncCollections,
        Access!CompleteTest, Access!ReleaseTest, Access!LoseTest, Access!FinishAnalyses,
          Access!AgentTest

(* The server keeps no credentials of a connector whose credentials are    *)
(* said to be elsewhere.                                                   *)
THEOREM SecretsAlwaysOnlyOnServer == Access!Spec => []Access!SecretsOnlyOnServer
  <1>1. Access!Init => CredentialsKept
    BY DEF Access!Init, CredentialsKept, Access!Connector, Access!NoConnector,
       Access!SecretsOnlyOnServer
  <1>2. CredentialsKept /\ [Access!Next]_(Access!vars) => CredentialsKept'
    BY NextKept
  <1>3. CredentialsKept => Access!SecretsOnlyOnServer
    BY DEF CredentialsKept
  <1>4. QED
    BY <1>1, <1>2, <1>3, PTL DEF Access!Spec

(* Unless a request brings credentials and asks not to store them, a       *)
(* connector whose credentials are on the server has them there.           *)
THEOREM ServerAlwaysHasCredentials == ~ Careless /\ Access!Spec => []Access!ServerHasCredentials
  <1> SUFFICES ASSUME ~ Careless
               PROVE  Access!Spec => []Access!ServerHasCredentials
    OBVIOUS
  <1>1. Access!Init => CredentialsKept /\ Access!ServerHasCredentials
    BY DEF Access!Init, CredentialsKept, Access!Connector, Access!NoConnector,
       Access!SecretsOnlyOnServer, Access!ServerHasCredentials
  <1>2. CredentialsKept /\ Access!ServerHasCredentials /\ [Access!Next]_(Access!vars) =>
          CredentialsKept' /\ Access!ServerHasCredentials'
    BY NextKept
  <1>3. QED
    BY <1>1, <1>2, PTL DEF Access!Spec

=============================================================================
