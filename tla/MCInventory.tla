----------------------------- MODULE MCInventory -----------------------------
(***************************************************************************)
(* FolderMapping with two requests at a time and a crash and, as guests,   *)
(* FolderMapping with one request at a time and instances of               *)
(* InventoryImport, in one run of TLC. Each behaviour is one of the        *)
(* instance that its variable instance names.                              *)
(***************************************************************************)
EXTENDS FolderMapping

CONSTANTS a1, a2, w1, p1, p2, r1, c1, c2, p, q, r, s, h1, h2

VARIABLES
  instance,  \* the instance that the behaviour is one of
  serialRows, serialLive, serialHandler, serialCrashes, connector, checking, jobs, proc, listing,
  folders, collection, edits, capable, tests, analyses, cache, known, tested

folderMappingVars == <<serialRows, serialLive, serialHandler, serialCrashes>>
sharedVars == <<connector, collection>>
inventoryImportVars == <<checking, jobs, proc, listing, folders, edits>>
collectionAccessVars == <<capable, tests, analyses, cache, known, tested>>
varsOne == <<instance, vars, folderMappingVars, sharedVars, inventoryImportVars,
             collectionAccessVars>>

(* A folder p with the folders p/q and p/q/r in it, and a folder s beside. *)
Tree(S) == [f \in S |-> CASE f = q -> {p} [] f = r -> {p, q} [] OTHER -> {}]
MCAbove == Tree({p, q, s})

(* One request at a time, and a deeper tree, in which a later listing adds *)
(* the folder in the middle and the folder beside.                         *)
OneByOne == INSTANCE FolderMapping WITH
  Folders <- {p, q, r, s}, Above <- Tree({p, q, r, s}), Collections <- {c1, c2}, Handlers <- {h1},
  NewFolders <- {q, s}, Clears <- TRUE, EarlyDeletes <- TRUE, MaxCrashes <- 0,
  rows <- serialRows, live <- serialLive, handler <- serialHandler, crashes <- serialCrashes
(* Agents validate; deaths, lost reports and removals.                     *)
Schedule == INSTANCE InventoryImport WITH
  Agents <- {a1}, Configs <- {c1}, Reachable <- {c1}, ServerHolds <- FALSE, Failures <- TRUE,
  Clears <- TRUE, MaxConfigs <- 2, MaxListings <- 1, MaxJobs <- 3
(* The server validates; no import fails.                                  *)
Server == INSTANCE InventoryImport WITH
  Agents <- {a1}, Configs <- {c1}, Reachable <- {c1}, ServerHolds <- TRUE, Failures <- FALSE,
  Clears <- TRUE, MaxConfigs <- 2, MaxListings <- 2, MaxJobs <- 4
(* Three listings.                                                         *)
Delta == INSTANCE InventoryImport WITH
  Agents <- {a1}, Configs <- {c1}, Reachable <- {c1}, ServerHolds <- TRUE, Failures <- FALSE,
  Clears <- FALSE, MaxConfigs <- 2, MaxListings <- 3, MaxJobs <- 4
(* A local collection that moves.                                          *)
Local == INSTANCE CollectionAccess WITH
  Locals <- {c1}, Remotes <- {}, Agents <- {a1, a2}, Places <- {p1, p2}, Processes <- {w1},
  Rebinds <- FALSE, ByCli <- FALSE, Faults <- FALSE, Careless <- FALSE, MaxTests <- 3
(* A collection behind the connector.                                      *)
Remote == INSTANCE CollectionAccess WITH
  Locals <- {}, Remotes <- {r1}, Agents <- {a1}, Places <- {p1, p2}, Processes <- {w1},
  Rebinds <- FALSE, ByCli <- FALSE, Faults <- FALSE, Careless <- FALSE, MaxTests <- 2
(* Both, with faults, tests from the command line and careless requests.   *)
Wild == INSTANCE CollectionAccess WITH
  Locals <- {c1}, Remotes <- {r1}, Agents <- {a1}, Places <- {p1}, Processes <- {w1},
  Rebinds <- TRUE, ByCli <- TRUE, Faults <- TRUE, Careless <- TRUE, MaxTests <- 1

ASSUME ConstantsAssumptions ==
  /\ ConstantsAssumption
  /\ OneByOne!ConstantsAssumption
  /\ Schedule!ConstantsAssumption
  /\ Server!ConstantsAssumption
  /\ Delta!ConstantsAssumption
  /\ Local!ConstantsAssumption
  /\ Remote!ConstantsAssumption
  /\ Wild!ConstantsAssumption

(* Variables of components that the instance is not of.                    *)
Absent(v) == v = "absent"
NoFolderMapping == Absent(serialRows) /\ Absent(serialLive) /\ Absent(serialHandler) /\
                   Absent(serialCrashes)
NoShared == Absent(connector) /\ Absent(collection)
NoInventoryImport == Absent(checking) /\ Absent(jobs) /\ Absent(proc) /\ Absent(listing) /\
                     Absent(folders) /\ Absent(edits)
NoCollectionAccess == Absent(capable) /\ Absent(tests) /\ Absent(analyses) /\ Absent(cache) /\
                      Absent(known) /\ Absent(tested)

InitOne ==
  \/ /\ instance = "cut_off" /\ Init /\ NoFolderMapping /\ NoShared /\ NoInventoryImport /\ NoCollectionAccess
  \/ /\ instance = "one_by_one" /\ OneByOne!Init /\ Init /\ NoShared /\ NoInventoryImport /\ NoCollectionAccess
  \/ /\ instance = "schedule" /\ Schedule!Init /\ Init /\ NoFolderMapping /\ NoCollectionAccess
  \/ /\ instance = "server" /\ Server!Init /\ Init /\ NoFolderMapping /\ NoCollectionAccess
  \/ /\ instance = "delta" /\ Delta!Init /\ Init /\ NoFolderMapping /\ NoCollectionAccess
  \/ /\ instance = "local" /\ Local!Init /\ Init /\ NoFolderMapping /\ NoInventoryImport
  \/ /\ instance = "remote" /\ Remote!Init /\ Init /\ NoFolderMapping /\ NoInventoryImport
  \/ /\ instance = "wild" /\ Wild!Init /\ Init /\ NoFolderMapping /\ NoInventoryImport

NextOne ==
  \/ /\ instance = "cut_off" /\ Next
     /\ UNCHANGED <<instance, folderMappingVars, sharedVars, inventoryImportVars,
                    collectionAccessVars>>
  \/ /\ instance = "one_by_one" /\ OneByOne!Next
     /\ UNCHANGED <<instance, vars, sharedVars, inventoryImportVars, collectionAccessVars>>
  \/ /\ instance = "schedule" /\ Schedule!Next
     /\ UNCHANGED <<instance, vars, folderMappingVars, collectionAccessVars>>
  \/ /\ instance = "server" /\ Server!Next
     /\ UNCHANGED <<instance, vars, folderMappingVars, collectionAccessVars>>
  \/ /\ instance = "delta" /\ Delta!Next
     /\ UNCHANGED <<instance, vars, folderMappingVars, collectionAccessVars>>
  \/ /\ instance = "local" /\ Local!Next
     /\ UNCHANGED <<instance, vars, folderMappingVars, inventoryImportVars>>
  \/ /\ instance = "remote" /\ Remote!Next
     /\ UNCHANGED <<instance, vars, folderMappingVars, inventoryImportVars>>
  \/ /\ instance = "wild" /\ Wild!Next
     /\ UNCHANGED <<instance, vars, folderMappingVars, inventoryImportVars>>

SpecOne == InitOne /\ [][NextOne]_varsOne

-----------------------------------------------------------------------------
(* Properties of the guests, in the instances that they are checked in.    *)

(* The chain of scheduled imports neither breaks nor splits: there is one, *)
(* waiting or under way, and never a second one that waits.                *)
ChainOfImports == instance = "server" => Server!ChainOfImports

(* When no import is under way, the delta of a collection is that of the   *)
(* file info it has, against the file info it had before.                  *)
DeltaDescribesInfo == instance = "delta" => Delta!DeltaDescribesInfo

(* Whatever requests map and unmap one after the other, and whatever a     *)
(* relisting adds above and below mapped folders, folders of one listing   *)
(* are not mapped inside one another, and only the flag of a folder that   *)
(* came later is ever wrong, and then says that it may be mapped.          *)
SerialMapping == instance = "one_by_one" => OneByOne!MappingConsistent

(* A local collection without an open test has a verdict, from the agent   *)
(* it is bound to and about the place where it is: no sequence of moves,   *)
(* releases and late answers leaves an older answer behind.                *)
TestedWhereItIs == instance = "local" => Local!TestedWhereItIs

(* A listing kept is that of the place where the collection is.            *)
ListingCurrent ==
  /\ instance = "local" => Local!ListingCurrent
  /\ instance = "remote" => Remote!ListingCurrent
=============================================================================
