---------------------------- MODULE FolderMapping ----------------------------
(***************************************************************************)
(* The folders an inventory import stores for a connector and the          *)
(* collections created from them.  A folder may be mapped unless it, a     *)
(* folder above it or one below it is mapped; every folder caches that     *)
(* answer in is_mappable, which is recalculated in a transaction of its    *)
(* own after a mapping changes.  Requests are processes that create one    *)
(* collection after the other, with a commit after each step, or delete    *)
(* one; what a commit writes was read in an earlier step.                  *)
(***************************************************************************)
EXTENDS Naturals, Sequences, FiniteSets, Functions

CONSTANTS
  Folders,      \* paths of the inventory
  Above,        \* Above[f]: the paths f lies under
  Collections,  \* names for collections
  Handlers,     \* requests handled at the same time
  Null,         \* no collection
  NewFolders,   \* paths that appear in the inventory after its first import
  Clears,       \* the inventory configuration may be removed
  EarlyDeletes, \* a collection may be deleted before the request that creates it has mapped it
  MaxCrashes    \* bound: requests cut off by a stop of the server

ConstantsAssumption ==
  /\ Above \in [Folders -> SUBSET Folders]
  /\ \A f \in Folders : f \notin Above[f] /\ \A g \in Above[f] : Above[g] \subseteq Above[f]
  /\ Null \notin Collections
  /\ NewFolders \subseteq Folders
  /\ Clears \in BOOLEAN /\ EarlyDeletes \in BOOLEAN /\ MaxCrashes \in Nat

VARIABLES
  rows,     \* rows[f]: the row of the folder with path f
  live,     \* the collections that exist
  handler,  \* handler[h]: a request being handled
  crashes   \* the number of crashes so far

vars == <<rows, live, handler, crashes>>

Row == [stored: BOOLEAN, collection: Collections \cup {Null}, mappable: BOOLEAN]
NoRow == [stored |-> FALSE, collection |-> Null, mappable |-> TRUE]

(* todo: folders still to be handled; affected: the folders that a         *)
(* deletion has read as those of its collection; loaded, computed: the     *)
(* flags that a recalculation has read, and those it is about to write.    *)
Handler == [phase: {"idle", "create", "map", "commit", "delete", "load", "write"},
            todo: UNION {[1 .. n -> Folders] : n \in 0 .. Cardinality(Folders)},
            collection: Collections \cup {Null}, affected: SUBSET Folders,
            loaded: [Folders -> BOOLEAN], computed: [Folders -> BOOLEAN]]
NoFlags == [f \in Folders |-> TRUE]
Idle == [phase |-> "idle", todo |-> <<>>, collection |-> Null, affected |-> {},
         loaded |-> NoFlags, computed |-> NoFlags]
Task(phase, todo) == [Idle EXCEPT !.phase = phase, !.todo = todo]

TypeOK == /\ rows \in [Folders -> Row]
          /\ live \subseteq Collections
          /\ handler \in [Handlers -> Handler]
          /\ crashes \in 0 .. MaxCrashes

Init == /\ rows = [f \in Folders |-> NoRow]
        /\ live = {}
        /\ handler = [h \in Handlers |-> Idle]
        /\ crashes = 0

-----------------------------------------------------------------------------
Overlap(f, g) == f \in Above[g] \/ g \in Above[f]
Stored == {f \in Folders : rows[f].stored}
Mapped == {f \in Stored : rows[f].collection # Null}

(* recalculate_folder_mappability, on the mappings as they are now.        *)
MappableNow(f) == f \notin Mapped /\ \A g \in Mapped : ~ Overlap(f, g)

(* An import keeps the rows it finds and adds rows for the new folders.    *)
StoreFolders(S) ==
  /\ rows' = [f \in Folders |-> IF f \in S /\ ~ rows[f].stored
                                THEN [NoRow EXCEPT !.stored = TRUE] ELSE rows[f]]
  /\ UNCHANGED <<live, handler, crashes>>
Import == \/ Stored = {} /\ StoreFolders(Folders \ NewFolders)
          \/ Stored # {} /\ StoreFolders(Folders)

(* Rows removed under a request make its next access to them fail; only a  *)
(* deletion that found no folder has none to miss.                         *)
ClearConfig ==
  /\ Clears
  /\ rows' = [f \in Folders |-> NoRow]
  /\ handler' = [h \in Handlers |->
                   IF handler[h].phase \in {"idle", "delete"} /\ handler[h].affected = {}
                   THEN handler[h] ELSE Task("create", <<>>)]
  /\ UNCHANGED <<live, crashes>>

Valid(f) == f \in Stored \ Mapped
(* validate_folder_mappings: not yet mapped, and no later choice overlaps. *)
Kept(sel) == LET Ok(f) == /\ Valid(f)
                          /\ \A i, k \in DOMAIN sel : sel[i] = f /\ i < k /\ Valid(sel[k])
                                                      => ~ Overlap(f, sel[k])
             IN SelectSeq(sel, Ok)

Selections == UNION {{s \in [1 .. n -> Folders] : IsInjective(s)} : n \in 1 .. Cardinality(Folders)}

RequestCollections(h, sel) ==
  /\ handler[h].phase = "idle"
  /\ Kept(sel) # <<>>
  /\ handler' = [handler EXCEPT ![h] = Task("create", Kept(sel))]
  /\ UNCHANGED <<rows, live, crashes>>

(* A GUID that nothing refers to.                                          *)
Fresh(c) == /\ c \notin live
            /\ \A f \in Folders : rows[f].collection # c
            /\ \A h \in Handlers : handler[h].collection # c

(* The collection is committed before its folder is mapped.                *)
CreateCollection(h, c) ==
  /\ handler[h].phase = "create"
  /\ handler[h].todo # <<>>
  /\ Fresh(c)
  /\ live' = live \cup {c}
  /\ handler' = [handler EXCEPT ![h].phase = "map", ![h].collection = c]
  /\ UNCHANGED <<rows, crashes>>

Done(h) ==
  /\ handler[h].phase = "create"
  /\ handler[h].todo = <<>>
  /\ handler' = [handler EXCEPT ![h] = Idle]
  /\ UNCHANGED <<rows, live, crashes>>

(* Mutant: the flag is not looked at.                                      *)
MayMapAny(f, c) == rows[f].stored /\ c \in live
MayMap(f, c) == rows[f].stored /\ rows[f].mappable /\ c \in live

MapFolder(h) ==
  /\ handler[h].phase = "map"
  /\ handler' = [handler EXCEPT ![h] =
                   IF MayMap(Head(@.todo), @.collection)
                   THEN [@ EXCEPT !.phase = "commit"]
                   ELSE Task("create", Tail(@.todo))]
  /\ UNCHANGED <<rows, live, crashes>>

(* What was looked up is not looked up again.                              *)
CommitMapping(h) ==
  /\ handler[h].phase = "commit"
  /\ rows' = [rows EXCEPT ![Head(handler[h].todo)].collection = handler[h].collection]
  /\ handler' = [handler EXCEPT ![h] = Task("load", Tail(@.todo))]
  /\ UNCHANGED <<live, crashes>>

(* One transaction reads the rows that are stored, and writes the flags    *)
(* that differ.                                                            *)
Computed(f) == rows[f].stored => MappableNow(f)
LoadFlags(h) ==
  /\ handler[h].phase = "load"
  /\ handler' = [handler EXCEPT ![h].phase = "write",
                   ![h].loaded = [f \in Folders |-> rows[f].mappable],
                   ![h].computed = [f \in Folders |-> Computed(f)]]
  /\ UNCHANGED <<rows, live, crashes>>

WriteFlags(h) ==
  /\ handler[h].phase = "write"
  /\ rows' = [f \in Folders |->
                IF rows[f].stored /\ handler[h].loaded[f] # handler[h].computed[f]
                THEN [rows[f] EXCEPT !.mappable = handler[h].computed[f]] ELSE rows[f]]
  /\ handler' = [handler EXCEPT ![h].phase = "create", ![h].loaded = NoFlags, ![h].computed = NoFlags]
  /\ UNCHANGED <<live, crashes>>

(* The folders of the collection are read ...                              *)
DeleteCollection(h, c) ==
  /\ handler[h].phase = "idle"
  /\ c \in live
  /\ EarlyDeletes \/ \A i \in Handlers : handler[i].phase \in {"map", "commit"}
                                             => handler[i].collection # c
  /\ handler' = [handler EXCEPT ![h] = [Idle EXCEPT !.phase = "delete", !.collection = c,
                                          !.affected = {f \in Folders : rows[f].collection = c}]]
  /\ UNCHANGED <<rows, live, crashes>>

(* Mutant: the mappings stay.                                              *)
StillMapped(S) == rows
Unmapped(S) == [f \in Folders |-> IF f \in S THEN [rows[f] EXCEPT !.collection = Null] ELSE rows[f]]

(* ... and unmapped, whatever they are mapped to by now, in the commit     *)
(* that deletes it; the recalculation comes after that commit.             *)
CommitDelete(h) ==
  /\ handler[h].phase = "delete"
  /\ live' = live \ {handler[h].collection}
  /\ rows' = Unmapped(handler[h].affected)
  /\ handler' = [handler EXCEPT ![h] = Task(IF @.affected = {} THEN "create" ELSE "load", <<>>)]
  /\ UNCHANGED crashes

Crash(h) ==
  /\ handler[h].phase # "idle"
  /\ crashes < MaxCrashes
  /\ crashes' = crashes + 1
  /\ handler' = [handler EXCEPT ![h] = Idle]
  /\ UNCHANGED <<rows, live>>

Handle(h) == \/ Done(h) \/ MapFolder(h) \/ CommitMapping(h) \/ CommitDelete(h)
             \/ LoadFlags(h) \/ WriteFlags(h)
             \/ \E c \in Collections : CreateCollection(h, c)

Next == \/ Import
        \/ ClearConfig
        \/ \E h \in Handlers : \/ Handle(h)
                               \/ \E sel \in Selections : RequestCollections(h, sel)
                               \/ \E c \in Collections : DeleteCollection(h, c)
                               \/ Crash(h)

Spec == Init /\ [][Next]_vars

-----------------------------------------------------------------------------
(* Properties.                                                             *)

(* spec.md "overlapping Collections are not allowed": no mapped folder     *)
(* lies under another mapped folder.                                       *)
NoOverlap == \A f, g \in Mapped : ~ Overlap(f, g)

AllIdle == \A h \in Handlers : handler[h].phase = "idle"

(* Between requests, is_mappable says what its comment defines.            *)
FlagsAgree == AllIdle => \A f \in Stored : rows[f].mappable = MappableNow(f)

(* The two claims above, as far as a relisting leaves them true when       *)
(* requests come one after the other: folders that one listing brought     *)
(* are not mapped inside one another, and only a flag of a folder that     *)
(* came later is ever wrong, and then says too much.                       *)
SameListing(f, g) == f \in NewFolders <=> g \in NewFolders
MappingConsistent ==
  /\ \A f, g \in Mapped : SameListing(f, g) => ~ Overlap(f, g)
  /\ AllIdle => \A f \in Stored : rows[f].mappable # MappableNow(f)
                                      => f \in NewFolders /\ rows[f].mappable

(* A folder is mapped to a collection that exists, and no collection is    *)
(* the collection of two folders, however requests overlap and wherever    *)
(* they are cut off.  It fails with EarlyDeletes.                          *)
OwnersExist == /\ \A f \in Mapped : rows[f].collection \in live
               /\ \A f, g \in Mapped : rows[f].collection = rows[g].collection => f = g

(* The collections that were created from folders, once their request has  *)
(* been answered, are mapped: a folder that is refused creates none.       *)
CreatedAreMapped ==
  \A c \in live : \/ \E f \in Mapped : rows[f].collection = c
                  \/ \E h \in Handlers : handler[h].collection = c
=============================================================================
