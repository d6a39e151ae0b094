------------------------------ MODULE Conflicts ------------------------------
(***************************************************************************)
(* Scheduling conflicts between the events of a team.  Nothing of them is  *)
(* stored: each request finds the pairs of events in a window of dates     *)
(* that conflict, joins them into groups, and derives from the attendance  *)
(* which groups are resolved.  What is stored are the notifications that   *)
(* the creation or update of an event sends for the conflicts around it.   *)
(***************************************************************************)
EXTENDS Naturals, FiniteSets, FiniteSetsExt, SequencesExt

CONSTANTS
  Events,      \* numbers, ordered like the identifiers of events
  MaxDate,     \* dates are 1 .. MaxDate
  Places,      \* locations with coordinates
  NoPlace,     \* a location without, or none
  Miles,       \* Miles[<<p, q>>]: the distance of two places
  Plans,       \* the dates, times and places that requests give to events
  Rules,       \* the team's rules: radius, threshold, window and buffer
  Margin,      \* days around an event in which its conflicts are looked for
  Operations   \* the requests that are made

AllOperations == {"create", "create_series", "update", "delete", "restore", "resolve"}

ConstantsAssumption ==
  /\ Events \subseteq Nat
  /\ MaxDate \in Nat /\ Margin \in Nat
  /\ NoPlace \notin Places
  /\ Miles \in [Places \X Places -> Nat]
  /\ \A p \in Plans : /\ p.date \in 1 .. MaxDate
                      /\ p.hours \in [allDay: BOOLEAN, start: Nat, end: Nat]
                      /\ p.place \in Places \cup {NoPlace} /\ p.travel \in BOOLEAN
  /\ Rules \in [radius: Nat, threshold: Nat, window: Nat, buffer: Nat]
  /\ Operations \subseteq AllOperations

VARIABLES
  event,   \* event[e]: the row of the event
  told,    \* conflicting pairs for which a notification was sent
  notices  \* the pairs that the last request sent notifications for

vars == <<event, told, notices>>

Dates == 1 .. MaxDate
NoEvent == [state |-> "none"]
(* forced: the status of the event forces it to be skipped.                *)
Row == [state: {"live", "deleted"}, plan: Plans, skipped: BOOLEAN, forced: BOOLEAN]
Pairs == {p \in Events \X Events : p[1] < p[2]}

TypeOK == /\ event \in [Events -> Row \cup {NoEvent}]
          /\ told \subseteq Pairs
          /\ notices \subseteq Pairs

Init == /\ event = [e \in Events |-> NoEvent]
        /\ told = {}
        /\ notices = {}

-----------------------------------------------------------------------------
(* The conflicts of two plans.                                             *)
Apart(p, q) == IF p.date < q.date THEN q.date - p.date ELSE p.date - q.date
(* A time that is missing is 0.                                            *)
TimesOverlap(p, q) ==
  \/ p.hours.allDay \/ q.hours.allDay
  \/ 0 \in {p.hours.start, p.hours.end, q.hours.start, q.hours.end}
  \/ p.hours.start < q.hours.end /\ q.hours.start < p.hours.end
Located(p, q) == p.place # NoPlace /\ q.place # NoPlace

TimeOverlap(p, q) == p.date = q.date /\ TimesOverlap(p, q)
Distance(p, q) == /\ Rules.radius > 0 /\ Apart(p, q) <= Rules.window
                  /\ Located(p, q) /\ Miles[<<p.place, q.place>>] > Rules.radius
TravelBuffer(p, q) == /\ Rules.buffer > 0 /\ (p.travel \/ q.travel) /\ Apart(p, q) < Rules.buffer
                      /\ Located(p, q) /\ Miles[<<p.place, q.place>>] > Rules.threshold
Clash(p, q) == TimeOverlap(p, q) \/ Distance(p, q) \/ TravelBuffer(p, q)

Live(ev) == {e \in Events : ev[e].state = "live"}
InWindow(ev, first, last) == {e \in Live(ev) : ev[e].plan.date \in first .. last}
(* Mutant: the ends of an edge are not put in order.                       *)
EdgesBothWays(ev, S) == {p \in S \X S : p[1] # p[2] /\ Clash(ev[p[1]].plan, ev[p[2]].plan)}
Edges(ev, S) == {p \in Pairs : {p[1], p[2]} \subseteq S /\ Clash(ev[p[1]].plan, ev[p[2]].plan)}

(* _build_groups: a forest that find() shortens on its way up, joined edge *)
(* by edge; the groups are the sets of events with the same root.          *)
Find[s \in [parent: [Events -> Events], at: Events]] ==
  IF s.parent[s.at] = s.at THEN s
  ELSE LET up == s.parent[s.parent[s.at]]
       IN Find[[parent |-> [s.parent EXCEPT ![s.at] = up], at |-> up]]
(* Mutant: the event is joined instead of its root.                        *)
JoinHere(parent, p) ==
  LET b == Find[[parent |-> parent, at |-> p[2]]]
  IN [b.parent EXCEPT ![p[1]] = b.at]
Join(parent, p) ==
  LET a == Find[[parent |-> parent, at |-> p[1]]]
      b == Find[[parent |-> a.parent, at |-> p[2]]]
  IN IF a.at = b.at THEN b.parent ELSE [b.parent EXCEPT ![a.at] = b.at]
Forest(edges) == FoldLeft(Join, [e \in Events |-> e], SetToSeq(edges))
Groups(edges) ==
  LET forest == Forest(edges)
      Root(e) == Find[[parent |-> forest, at |-> e]].at
      involved == UNION {{p[1], p[2]} : p \in edges}
  IN {{e \in involved : Root(e) = r} : r \in {Root(e) : e \in involved}}
GroupEdges(edges, g) == {p \in edges : {p[1], p[2]} \subseteq g}

Open(ev, p) == ~ ev[p[1]].skipped /\ ~ ev[p[2]].skipped
Resolved(ev, edges, g) == \A p \in GroupEdges(edges, g) : ~ Open(ev, p)

-----------------------------------------------------------------------------
(* Mutant: conflicts are looked for on the day of the event.               *)
NoticedThatDay(ev, e) == LET d == ev[e].plan.date IN Edges(ev, InWindow(ev, d, d))
(* _notify_new_conflicts, after the commit of event e: every edge of every *)
(* group around its date that is not resolved.                             *)
Around(ev, e) ==
  LET d == ev[e].plan.date
  IN Edges(ev, InWindow(ev, IF d > Margin THEN d - Margin ELSE 0, d + Margin))
Noticed(ev, e) ==
  LET edges == Around(ev, e)
  IN UNION {GroupEdges(edges, g) : g \in {h \in Groups(edges) : ~ Resolved(ev, edges, h)}}

Store(ev, sent) ==
  /\ event' = ev
  /\ notices' = sent
  /\ told' = (told \cup sent) \cap Edges(ev, Live(ev))

NewRow(plan) == [state |-> "live", plan |-> plan, skipped |-> FALSE, forced |-> FALSE]

CreateEvent(e, plan) ==
  LET ev == [event EXCEPT ![e] = NewRow(plan)]
  IN /\ "create" \in Operations
     /\ event[e] = NoEvent
     /\ Store(ev, Noticed(ev, e))

DayOf(S, plan, e) == [plan EXCEPT !.date = @ + Cardinality({f \in S : f < e})]
(* create_series looks for no conflicts.                                   *)
CreateSeries(S, plan) ==
  /\ "create_series" \in Operations
  /\ Cardinality(S) >= 2
  /\ \A e \in S : event[e] = NoEvent
  /\ \A e \in S : DayOf(S, plan, e) \in Plans
  /\ Store([e \in Events |-> IF e \in S THEN NewRow(DayOf(S, plan, e)) ELSE event[e]], {})

UpdateEvent(e, plan, forced) ==
  LET ev == [event EXCEPT ![e].plan = plan, ![e].forced = forced,
                          ![e].skipped = IF forced = event[e].forced THEN @ ELSE forced]
  IN /\ "update" \in Operations
     /\ e \in Live(event)
     /\ Store(ev, Noticed(ev, e))

DeleteEvent(e) ==
  /\ "delete" \in Operations
  /\ e \in Live(event)
  /\ Store([event EXCEPT ![e].state = "deleted"], {})

RestoreEvent(e) ==
  /\ "restore" \in Operations
  /\ event[e].state = "deleted"
  /\ Store([event EXCEPT ![e].state = "live"], {})

(* One decision that is refused takes the others of its request along.     *)
Resolve(decisions) ==
  /\ "resolve" \in Operations
  /\ \A e \in DOMAIN decisions : e \in Live(event) /\ (event[e].forced => decisions[e])
  /\ Store([e \in Events |-> IF e \in DOMAIN decisions
                             THEN [event[e] EXCEPT !.skipped = decisions[e]] ELSE event[e]], {})

Next == \/ \E e \in Events : \/ \E plan \in Plans : \/ CreateEvent(e, plan)
                                                   \/ \E forced \in BOOLEAN : UpdateEvent(e, plan, forced)
                             \/ DeleteEvent(e)
                             \/ RestoreEvent(e)
        \/ \E S \in SUBSET Events \ {{}} :
             \/ \E plan \in Plans : CreateSeries(S, plan)
             \/ \E decisions \in [S -> BOOLEAN] : Resolve(decisions)

Spec == Init /\ [][Next]_vars

-----------------------------------------------------------------------------
(* Properties.                                                             *)

(* The groups are the connected components of the graph of conflicts: two  *)
(* events are in one group if no cut of the graph comes between them.      *)
GroupsAreComponents ==
  LET edges == Edges(event, Live(event))
      involved == UNION {{p[1], p[2]} : p \in edges}
      Cuts == {C \in SUBSET involved : \A p \in edges : p[1] \in C <=> p[2] \in C}
      Joined(e, f) == \A C \in Cuts : e \in C <=> f \in C
  IN Groups(edges) = {{f \in involved : Joined(e, f)} : e \in involved}

(* Windows agree: the groups of a part of the dates are parts of those of  *)
(* all dates, and resolved where these are.                                *)
WindowsAgree ==
  \A first, last \in Dates :
    LET all == Edges(event, Live(event))
        some == Edges(event, InWindow(event, first, last))
    IN \A g \in Groups(some) : \E h \in Groups(all) :
         g \subseteq h /\ (Resolved(event, all, h) => Resolved(event, some, g))

(* In a resolved group at most one event is going to be attended.          *)
ResolvedMeansOneLeft ==
  LET edges == Edges(event, Live(event))
  IN \A g \in Groups(edges) :
       Resolved(event, edges, g) => Cardinality({e \in g : ~ event[e].skipped}) <= 1

(* A conflict that a request introduces, and nobody resolved, is notified. *)
ConflictsTold == \A p \in Edges(event, Live(event)) : Open(event, p) => p \in told

(* "New scheduling conflict detected" is sent for new conflicts: not again *)
(* while the two events conflict.                                          *)
NoRepeatedNotice == [][notices' \cap told = {}]_vars
=============================================================================
