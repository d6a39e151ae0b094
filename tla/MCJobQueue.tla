----------------------------- MODULE MCJobQueue -----------------------------
(* Instances of JobQueue for TLC.                                          *)
EXTENDS JobQueue

CONSTANTS a1, a2, t1, t2

(* t1 is a LOCAL collection bound to a1; t2 is open to both agents.        *)
MCBound == [t \in Targets |-> IF t = t1 THEN a1 ELSE Null]
MCUnbound == [t \in Targets |-> Null]
MCCapable == [a \in Agents |-> Targets]
MCPriority == [t \in Targets |-> 0]
=============================================================================
