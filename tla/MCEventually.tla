----------------------------- MODULE MCEventually ----------------------------
(***************************************************************************)
(* OfflineSync and, as guests, ChunkedUpload and InventoryImport under     *)
(* fairness, in one run of TLC. Each behaviour is one of the instance that *)
(* its variable instance names.                                            *)
(***************************************************************************)
EXTENDS OfflineSync

CONSTANTS a1, c1, c2, r1, r2, s1, h1, w1

VARIABLES
  instance,  \* the instance that the behaviour is one of
  sessions, chunks, expired, finalized, files, created, client, late, job, connector, checking,
  imports, proc, listing, folders, collection, edits

chunkedUploadVars == <<sessions, chunks, expired, finalized, files, created, client, late, job>>
inventoryImportVars == <<connector, checking, imports, proc, listing, folders, collection, edits>>
varsOne == <<instance, vars, chunkedUploadVars, inventoryImportVars>>

Upload == INSTANCE ChunkedUpload WITH
  Workers <- {w1}, Parts <- 2, Chunks <- 2, MaxRetries <- 2, Expiry <- TRUE, Restarts <- FALSE,
  MaxUploads <- 3
Validation == INSTANCE InventoryImport WITH
  Agents <- {a1}, Configs <- {c1, c2}, Reachable <- {c1}, ServerHolds <- FALSE, Failures <- FALSE,
  Clears <- TRUE, MaxConfigs <- 2, MaxListings <- 1, MaxJobs <- 5, jobs <- imports

ASSUME ConstantsAssumptions ==
  /\ ConstantsAssumption
  /\ Upload!ConstantsAssumption
  /\ Validation!ConstantsAssumption

(* Variables of components that the instance is not of.                    *)
Absent(v) == v = "absent"
NoChunkedUpload == Absent(sessions) /\ Absent(chunks) /\ Absent(expired) /\ Absent(finalized) /\
                   Absent(files) /\ Absent(created) /\ Absent(client) /\ Absent(late) /\
                   Absent(job)
NoInventoryImport == Absent(connector) /\ Absent(checking) /\ Absent(imports) /\ Absent(proc) /\
                     Absent(listing) /\ Absent(folders) /\ Absent(collection) /\ Absent(edits)

InitOne ==
  \/ /\ instance = "sync" /\ Init /\ NoChunkedUpload /\ NoInventoryImport
  \/ /\ instance = "upload" /\ Upload!Init /\ Init /\ NoInventoryImport
  \/ /\ instance = "validation" /\ Validation!Init /\ Init /\ NoChunkedUpload

NextOne ==
  \/ /\ instance = "sync" /\ Next
     /\ UNCHANGED <<instance, chunkedUploadVars, inventoryImportVars>>
  \/ /\ instance = "upload" /\ Upload!Next
     /\ UNCHANGED <<instance, vars, inventoryImportVars>>
  \/ /\ instance = "validation" /\ Validation!Next
     /\ UNCHANGED <<instance, vars, chunkedUploadVars>>

(* The fairness of each component (its FairSpec), within its instances.    *)
SpecOne == /\ InitOne /\ [][NextOne]_varsOne
           /\ \A p \in Syncs : WF_vars(instance = "sync" /\ Sync(p))
           /\ \A h \in Handlers : WF_vars(instance = "sync" /\ Handle(h))
           /\ WF_client(instance = "upload" /\ (Upload!TimeOut \/ Upload!Handled))
           /\ WF_inventoryImportVars(instance = "validation" /\ Validation!Work(a1))
           /\ WF_inventoryImportVars(instance = "validation" /\ Validation!Takes(a1))

-----------------------------------------------------------------------------
(* Properties of the guests, in the instances that they are checked in.    *)

(* The client comes to an end, whatever is lost: no retry goes on for      *)
(* ever.                                                                   *)
ClientSettles == <>(instance = "upload" => Upload!Settled)

(* While agents stay up, a validation that an agent was asked for gets an  *)
(* outcome, however configurations are edited and cleared and validations  *)
(* asked for again; the released job of a disconnected agent has lost its  *)
(* connector, so spec.md's "Validation job timeout" is not among these.    *)
ValidationSettles ==
  (instance = "validation" /\ Validation!Validating)
    ~> (instance = "validation" /\ Validation!Validated)
=============================================================================
