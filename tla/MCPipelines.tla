----------------------------- MODULE MCPipelines -----------------------------
(***************************************************************************)
(* Pipelines with overlapping requests and, as guests, instances of        *)
(* EventSeries, Conflicts and DeadlineReminders: what users edit, and what *)
(* is derived from it, in one run of TLC. Each behaviour is one of the     *)
(* instance that its variable instance names.                              *)
(***************************************************************************)
EXTENDS Pipelines

CONSTANTS home, away, NoPlace, h1, h2, w1, u1, u2, e1, e2, nobody, p1, t1, c1, x, y

VARIABLES
  instance,  \* the instance that the behaviour is one of
  rows, series, deletion, event, told, notices, now, deadline, open, wants, device, notes, twice,
  check, crashes

eventSeriesVars == <<rows, series, deletion>>
conflictsVars == <<event, told, notices>>
deadlineRemindersVars == <<now, deadline, open, wants, device, notes, twice, check, crashes>>
varsOne == <<instance, vars, eventSeriesVars, conflictsVars, deadlineRemindersVars>>

(* The updates of events that are requested; 3 leaves the deadline alone.  *)
NoUpdate == [scope |-> "single", status |-> "unset", attendance |-> "unset", date |-> 0,
             location |-> FALSE, deadline |-> 3]
DeadlineUpdates == {[NoUpdate EXCEPT !.deadline = d] : d \in 0 .. 2}
DateUpdates == {[NoUpdate EXCEPT !.date = d] : d \in 1 .. 2}
Statuses(scopes) == {[NoUpdate EXCEPT !.scope = s, !.status = st]
                       : s \in scopes, st \in {"future", "cancelled"}}
Attendances(scopes) == {[NoUpdate EXCEPT !.scope = s, !.attendance = a]
                          : s \in scopes, a \in {"attended", "planned"}}
AllScopes == {"single", "this_and_future", "all"}

(* Two places 200 miles apart, and events in the morning, at noon, in the  *)
(* afternoon, or all day.                                                  *)
Distances(places) == [p \in places \X places |-> IF p[1] = p[2] THEN 0 ELSE 200]
DefaultRules == [radius |-> 70, threshold |-> 150, window |-> 1, buffer |-> 3]
Morning == [allDay |-> FALSE, start |-> 1, end |-> 3]
Noon == [allDay |-> FALSE, start |-> 2, end |-> 4]
Afternoon == [allDay |-> FALSE, start |-> 3, end |-> 5]
AllDay == [allDay |-> TRUE, start |-> 0, end |-> 0]
At(d, h, p) == [date |-> d, hours |-> h, place |-> p, travel |-> p = away]
FewParts == {At(d, Noon, NoPlace) : d \in 1 .. 2} \cup {At(1, h, NoPlace) : h \in {Morning, Afternoon}}
Days(dates, places) == {At(d, AllDay, p) : d \in dates, p \in places \cup {NoPlace}}

(* Deadlines that are set, moved and removed, and deletions.               *)
SeriesDeadlines == INSTANCE EventSeries WITH
  MaxRows <- 5, MaxDate <- 2, SeriesSizes <- {2, 3}, Updates <- DeadlineUpdates \cup DateUpdates,
  Scopes <- {"single", "all"}, Operations <- {"create", "update", "update_series", "delete"},
  Handlers <- {h1}, Serial <- TRUE
(* The same with every scope; a deadline is that of the series in each.    *)
AnyScope == INSTANCE EventSeries WITH
  MaxRows <- 5, MaxDate <- 2, SeriesSizes <- {3},
  Updates <- DeadlineUpdates \cup {[up EXCEPT !.scope = s] : up \in DateUpdates, s \in AllScopes},
  Scopes <- AllScopes, Operations <- {"create", "update", "update_series", "delete"},
  Handlers <- {h1}, Serial <- TRUE
(* Deletions of every scope and restorations.                              *)
Restores == INSTANCE EventSeries WITH
  MaxRows <- 5, MaxDate <- 2, SeriesSizes <- {2, 3}, Updates <- {},
  Scopes <- {"single", "this_and_future", "all"}, Operations <- {"create", "delete", "restore"},
  Handlers <- {h1}, Serial <- TRUE
(* Statuses of every scope, attendance of single events.                   *)
StatusChanges == INSTANCE EventSeries WITH
  MaxRows <- 4, MaxDate <- 2, SeriesSizes <- {3},
  Updates <- Statuses(AllScopes) \cup Attendances({"single"}), Scopes <- {"single"},
  Operations <- {"create", "update"}, Handlers <- {h1}, Serial <- TRUE
(* Statuses of single events, attendance of every scope.                   *)
Attended == INSTANCE EventSeries WITH
  MaxRows <- 4, MaxDate <- 2, SeriesSizes <- {3},
  Updates <- Statuses({"single"}) \cup Attendances(AllScopes), Scopes <- {"single"},
  Operations <- {"create", "update"}, Handlers <- {h1}, Serial <- TRUE
(* Four events that overlap in every combination.                          *)
Groups == INSTANCE Conflicts WITH
  Events <- {1, 2, 3, 4}, MaxDate <- 2, Plans <- FewParts, Places <- {home, away},
  Miles <- Distances({home, away}), Rules <- DefaultRules, Margin <- 7, Operations <- {"create"}
(* Every request on three events.                                          *)
Windows == INSTANCE Conflicts WITH
  Events <- {1, 2, 3}, MaxDate <- 2, Plans <- Days(1 .. 2, {home}), Places <- {home},
  Miles <- Distances({home}), Rules <- DefaultRules, Margin <- 7,
  Operations <- {"create", "create_series", "update", "delete", "restore", "resolve"}
(* Events in two places and without a place.                               *)
Told == INSTANCE Conflicts WITH
  Events <- {1, 2, 3}, MaxDate <- 3, Plans <- Days(1 .. 3, {home, away}), Places <- {home, away},
  Miles <- Distances({home, away}), Rules <- DefaultRules, Margin <- 7,
  Operations <- {"create", "update", "delete"}
Changes == INSTANCE DeadlineReminders WITH
  Users <- {u1}, Events <- {e1}, Workers <- {w1}, Series <- {{e1}}, Ahead <- {}, Behind <- {},
  Before <- 1, Retention <- 1, MaxDay <- 2, Moves <- TRUE, Settings <- TRUE, Failures <- TRUE,
  None <- nobody, MaxCrashes <- 1
TimeZones == INSTANCE DeadlineReminders WITH
  Users <- {u1, u2}, Events <- {e1, e2}, Workers <- {w1}, Series <- {{e1}, {e2}}, Ahead <- {u2},
  Behind <- {}, Before <- 1, Retention <- 1, MaxDay <- 2, Moves <- FALSE, Settings <- FALSE,
  Failures <- FALSE, None <- nobody, MaxCrashes <- 0

ASSUME ConstantsAssumptions ==
  /\ ConstantsAssumption
  /\ SeriesDeadlines!ConstantsAssumption
  /\ AnyScope!ConstantsAssumption
  /\ Restores!ConstantsAssumption
  /\ StatusChanges!ConstantsAssumption
  /\ Attended!ConstantsAssumption
  /\ Groups!ConstantsAssumption
  /\ Windows!ConstantsAssumption
  /\ Told!ConstantsAssumption
  /\ Changes!ConstantsAssumption
  /\ TimeZones!ConstantsAssumption

(* Variables of components that the instance is not of.                    *)
Absent(v) == v = "absent"
NoEventSeries == Absent(rows) /\ Absent(series) /\ Absent(deletion)
NoConflicts == Absent(event) /\ Absent(told) /\ Absent(notices)
NoDeadlineReminders == Absent(now) /\ Absent(deadline) /\ Absent(open) /\ Absent(wants) /\
                       Absent(device) /\ Absent(notes) /\ Absent(twice) /\ Absent(check) /\
                       Absent(crashes)

InitOne ==
  \/ /\ instance = "pipelines" /\ Init /\ NoEventSeries /\ NoConflicts /\ NoDeadlineReminders
  \/ /\ instance = "series_deadlines" /\ SeriesDeadlines!Init /\ Init /\ NoConflicts /\ NoDeadlineReminders
  \/ /\ instance = "any_scope" /\ AnyScope!Init /\ Init /\ NoConflicts /\ NoDeadlineReminders
  \/ /\ instance = "restores" /\ Restores!Init /\ Init /\ NoConflicts /\ NoDeadlineReminders
  \/ /\ instance = "status_changes" /\ StatusChanges!Init /\ Init /\ NoConflicts /\ NoDeadlineReminders
  \/ /\ instance = "attended" /\ Attended!Init /\ Init /\ NoConflicts /\ NoDeadlineReminders
  \/ /\ instance = "groups" /\ Groups!Init /\ Init /\ NoEventSeries /\ NoDeadlineReminders
  \/ /\ instance = "windows" /\ Windows!Init /\ Init /\ NoEventSeries /\ NoDeadlineReminders
  \/ /\ instance = "told" /\ Told!Init /\ Init /\ NoEventSeries /\ NoDeadlineReminders
  \/ /\ instance = "changes" /\ Changes!Init /\ Init /\ NoEventSeries /\ NoConflicts
  \/ /\ instance = "time_zones" /\ TimeZones!Init /\ Init /\ NoEventSeries /\ NoConflicts

NextOne ==
  \/ /\ instance = "pipelines" /\ Next
     /\ UNCHANGED <<instance, eventSeriesVars, conflictsVars, deadlineRemindersVars>>
  \/ /\ instance = "series_deadlines" /\ SeriesDeadlines!Next
     /\ UNCHANGED <<instance, vars, conflictsVars, deadlineRemindersVars>>
  \/ /\ instance = "any_scope" /\ AnyScope!Next
     /\ UNCHANGED <<instance, vars, conflictsVars, deadlineRemindersVars>>
  \/ /\ instance = "restores" /\ Restores!Next
     /\ UNCHANGED <<instance, vars, conflictsVars, deadlineRemindersVars>>
  \/ /\ instance = "status_changes" /\ StatusChanges!Next
     /\ UNCHANGED <<instance, vars, conflictsVars, deadlineRemindersVars>>
  \/ /\ instance = "attended" /\ Attended!Next
     /\ UNCHANGED <<instance, vars, conflictsVars, deadlineRemindersVars>>
  \/ /\ instance = "groups" /\ Groups!Next
     /\ UNCHANGED <<instance, vars, eventSeriesVars, deadlineRemindersVars>>
  \/ /\ instance = "windows" /\ Windows!Next
     /\ UNCHANGED <<instance, vars, eventSeriesVars, deadlineRemindersVars>>
  \/ /\ instance = "told" /\ Told!Next
     /\ UNCHANGED <<instance, vars, eventSeriesVars, deadlineRemindersVars>>
  \/ /\ instance = "changes" /\ Changes!Next
     /\ UNCHANGED <<instance, vars, eventSeriesVars, conflictsVars>>
  \/ /\ instance = "time_zones" /\ TimeZones!Next
     /\ UNCHANGED <<instance, vars, eventSeriesVars, conflictsVars>>

SpecOne == InitOne /\ [][NextOne]_varsOne

-----------------------------------------------------------------------------
(* Properties of the guests, in the instances that they are checked in.    *)

(* Every deadline, of a series or of an event of its own, is shown by one  *)
(* entry on its day, when single events move and single events or whole    *)
(* series are deleted; with every scope the entry may get lost or move,    *)
(* but there is never a second one, nor one of a deadline removed.         *)
DeadlinesShown ==
  /\ instance = "series_deadlines" => SeriesDeadlines!DeadlinesShown
  /\ instance = "any_scope" => AnyScope!ShownAtMostOnce

(* total_events, of which "x/n" is shown, is the number of events left     *)
(* after any deletion, and one less after a restoration: it never says     *)
(* that there are more, and is never two behind.                           *)
TotalCounts ==
  /\ instance = "series_deadlines" => SeriesDeadlines!TotalCounted
  /\ instance = "any_scope" => AnyScope!TotalCounted
  /\ instance = "restores" => Restores!TotalAtMostOneShort

(* The groups are the connected components of the graph of conflicts.      *)
GroupsAreComponents == instance = "groups" => Groups!GroupsAreComponents

(* A conflict that a request introduces, and nobody resolved, is notified. *)
ConflictsTold == instance = "told" => Told!ConflictsTold

(* FR-039: no reminder of the same event, deadline and number of days is   *)
(* stored twice for a member.                                              *)
NoDuplicate ==
  /\ instance = "changes" => Changes!NoDuplicate
  /\ instance = "time_zones" => TimeZones!NoDuplicate

(* What a user recorded as attended stays so, as long as the status of the *)
(* event does not change.                                                  *)
AttendanceKept == [][instance = "attended" => Attended!KeepsAttendance]_varsOne

(* FR-038 and FR-040: when a check ends that nothing has disturbed, every  *)
(* member has a reminder of each deadline that is near by the member's own *)
(* day.                                                                    *)
CheckedMeansReminded == [][instance = "time_zones" => TimeZones!CheckedReminds]_varsOne
=============================================================================
