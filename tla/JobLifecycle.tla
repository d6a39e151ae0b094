---------------------------- MODULE JobLifecycle ----------------------------
(***************************************************************************)
(* What the job table promises to everybody who looks at one job: the user *)
(* who waits for it, the agent that executes it, the refresh chain that    *)
(* depends on it.  It says nothing of heartbeats, retries or messages.     *)
(*                                                                         *)
(* A job is absent, then queued, then held by one agent at a time, and in  *)
(* the end completed, failed or cancelled for good; only then may          *)
(* retention remove it.  A job goes from one holder to another only        *)
(* through the queue.  Jobs move independently and several of them may     *)
(* move in one step (one database transaction of the server).              *)
(***************************************************************************)
CONSTANTS Jobs,      \* identities of job rows
          Agents,    \* agents that can hold a job
          Null       \* no agent

VARIABLES state,     \* state[j]: where job j is in its life
          holder     \* holder[j]: the agent that holds job j, or Null

vars == <<state, holder>>

Settled == {"completed", "failed", "cancelled"}
States == {"absent", "queued", "held", "gone"} \cup Settled

Init == /\ state = [j \in Jobs |-> "absent"]
        /\ holder = [j \in Jobs |-> Null]

Stay(j) == UNCHANGED <<state[j], holder[j]>>

(* A row is inserted: queued (run request, refresh, retry), held (the      *)
(* placeholder of an offline upload) or completed (an offline result).     *)
Appear(j) == /\ state[j] = "absent"
             /\ \/ state'[j] \in {"queued", "completed"} /\ holder'[j] = Null
                \/ state'[j] = "held" /\ holder'[j] \in Agents

Take(j) == /\ state[j] = "queued"
           /\ state'[j] = "held"
           /\ holder'[j] \in Agents

GiveBack(j) == /\ state[j] = "held"
               /\ state'[j] = "queued"
               /\ holder'[j] = Null

(* The job ends, in the hands of its holder or straight from the queue     *)
(* (cancelled, answered by the server, or its last attempt used up).       *)
Settle(j) == /\ state[j] \in {"queued", "held"}
             /\ state'[j] \in Settled
             /\ holder'[j] = Null

(* Retention removes a settled row; an offline upload removes the          *)
(* placeholder it replaces.                                                *)
Remove(j) == /\ state[j] \in Settled \cup {"held"}
             /\ state'[j] = "gone"
             /\ holder'[j] = Null

Move(j) == Stay(j) \/ Appear(j) \/ Take(j) \/ GiveBack(j) \/ Settle(j) \/ Remove(j)

Next == /\ state' \in [Jobs -> States]
        /\ holder' \in [Jobs -> Agents \cup {Null}]
        /\ \A j \in Jobs : Move(j)

Spec == Init /\ [][Next]_vars
=============================================================================
