----------------------------- MODULE EventSeries -----------------------------
(***************************************************************************)
(* Events of the calendar: those of one series, standalone events, and the *)
(* deadline entries, rows of the same table that the service keeps in step *)
(* with the deadlines of the series and of standalone events.  A deletion  *)
(* counts what is left of the series and dissolves a series of one event;  *)
(* under read committed isolation it counts without what concurrent        *)
(* transactions have not committed yet.                                    *)
(***************************************************************************)
EXTENDS Naturals, FiniteSets, FiniteSetsExt

CONSTANTS
  MaxRows,      \* bound: rows of the table
  MaxDate,      \* dates are 1 .. MaxDate
  SeriesSizes,  \* numbers of dates in requests for a series
  Updates,      \* the updates of events that are requested
  Scopes,       \* the scopes that deletions are requested with
  Operations,   \* the requests that are made
  Handlers,     \* deletions handled at the same time
  Serial        \* requests are handled one after the other

Rows == 1 .. MaxRows
Dates == 1 .. MaxDate
None == 0
Unset == "unset"       \* an attribute that an update leaves alone,
Kept == MaxDate + 1    \* and a deadline that it leaves alone
AllOperations == {"create", "update", "update_series", "delete", "restore", "performers"}
AllScopes == {"single", "this_and_future", "all"}

(* An update of an event; a date of None is no change either.              *)
Update == [scope: AllScopes,
           status: {"future", "cancelled", Unset},
           attendance: {"planned", "attended", "skipped", Unset},
           date: Dates \cup {None},
           location: BOOLEAN,
           deadline: Dates \cup {None, Kept}]
NoUpdate == [scope |-> "single", status |-> Unset, attendance |-> Unset, date |-> None,
             location |-> FALSE, deadline |-> Kept]

ConstantsAssumption ==
  /\ MaxRows \in Nat /\ MaxDate \in Nat
  /\ SeriesSizes \subseteq 2 .. MaxRows
  /\ Updates \subseteq Update
  /\ Scopes \subseteq AllScopes /\ Operations \subseteq AllOperations
  /\ Serial \in BOOLEAN

VARIABLES
  rows,     \* rows[i]: a row of events
  series,   \* the row of the series
  deletion  \* deletion[h]: a deletion that is not committed yet

vars == <<rows, series, deletion>>

Row == [kind: {"free", "event", "entry"}, inSeries: BOOLEAN, position: 0 .. MaxRows,
        parent: Rows \cup {None}, date: Dates \cup {None}, status: {"future", "cancelled"},
        attendance: {"planned", "attended", "skipped"}, location: BOOLEAN, performer: BOOLEAN,
        deadline: Dates \cup {None}, live: BOOLEAN]
NoRow == [kind |-> "free", inSeries |-> FALSE, position |-> 0, parent |-> None, date |-> None,
          status |-> "future", attendance |-> "planned", location |-> FALSE, performer |-> FALSE,
          deadline |-> None, live |-> FALSE]
NewEvent(d, deadline) == [NoRow EXCEPT !.kind = "event", !.date = d, !.deadline = deadline, !.live = TRUE]

Series == [stored: BOOLEAN, deadline: Dates \cup {None}, total: 0 .. MaxRows]
NoSeries == [stored |-> FALSE, deadline |-> None, total |-> 0]

(* ids: the rows to delete; total: the events counted as left; single: the *)
(* event that leaves its series; entry: the series' entry to delete.       *)
Deletion == [ids: SUBSET Rows, inSeries: BOOLEAN, total: 0 .. MaxRows,
             single: Rows \cup {None}, entry: Rows \cup {None}]
NoDeletion == [ids |-> {}, inSeries |-> FALSE, total |-> 0, single |-> None, entry |-> None]

TypeOK == /\ rows \in [Rows -> Row]
          /\ series \in Series
          /\ deletion \in [Handlers -> Deletion]

Init == /\ rows = [i \in Rows |-> NoRow]
        /\ series = NoSeries
        /\ deletion = [h \in Handlers |-> NoDeletion]

-----------------------------------------------------------------------------
Free == {i \in Rows : rows[i].kind = "free"}
Fresh(rs) == Min({i \in Rows : rs[i].kind = "free"})
HasRoom(n) == Cardinality(Free) >= n
Pending(h) == deletion[h] # NoDeletion
Requested(op) == op \in Operations /\ (Serial => \A h \in Handlers : ~ Pending(h))

SeriesRows(rs) == {i \in Rows : rs[i].inSeries /\ rs[i].live}
SeriesEvents(rs) == {i \in SeriesRows(rs) : rs[i].kind = "event"}
LiveEvents == {i \in Rows : rows[i].kind = "event" /\ rows[i].live}

(* The live entries of the series (None), or of a standalone event.        *)
Entries(rs, owner) == {i \in Rows : /\ rs[i].kind = "entry" /\ rs[i].live
                                    /\ rs[i].parent = owner
                                    /\ rs[i].inSeries = (owner = None)}
NewEntry(owner, d) == [NoRow EXCEPT !.kind = "entry", !.parent = owner, !.date = d,
                                    !.inSeries = (owner = None), !.live = TRUE]

(* The rows after _sync_deadline_entry or _sync_standalone_deadline_entry; *)
(* where there are several entries, first() takes any of them.             *)
CreatedEntry(rs, owner, d) == {[rs EXCEPT ![Fresh(rs)] = NewEntry(owner, d)]}
Synced(rs, owner, d) ==
  IF Entries(rs, owner) = {}
  THEN IF d = None THEN {rs} ELSE CreatedEntry(rs, owner, d)
  ELSE {[rs EXCEPT ![i] = IF d = None THEN NoRow ELSE [@ EXCEPT !.date = d, !.location = FALSE]]
          : i \in Entries(rs, owner)}

-----------------------------------------------------------------------------
CreateEvent(d, deadline) ==
  /\ Requested("create")
  /\ HasRoom(2)
  /\ LET i == Fresh(rows)
     IN rows' \in Synced([rows EXCEPT ![i] = NewEvent(d, deadline)], i, deadline)
  /\ UNCHANGED <<series, deletion>>

(* The dates are the first n; the forced attendance is that of a status    *)
(* the request gives.                                                      *)
CreateSeries(n, deadline) ==
  /\ Requested("create")
  /\ ~ series.stored
  /\ HasRoom(n + 1)
  /\ Free = Rows
  /\ rows' \in Synced([i \in Rows |-> IF i <= n
                                      THEN [NewEvent(Min({i, MaxDate}), deadline)
                                              EXCEPT !.inSeries = TRUE, !.position = i]
                                      ELSE NoRow], None, deadline)
  /\ series' = [stored |-> TRUE, deadline |-> deadline, total |-> n]
  /\ UNCHANGED deletion

WithDeadline(rs, S, d) == [i \in Rows |-> IF i \in S THEN [rs[i] EXCEPT !.deadline = d] ELSE rs[i]]

(* Mutant: the entry is not synchronised.                                  *)
UpdateSeriesOnly(d) ==
  /\ Requested("update_series")
  /\ series.stored
  /\ series' = [series EXCEPT !.deadline = d]
  /\ rows' = WithDeadline(rows, SeriesEvents(rows), d)
  /\ UNCHANGED deletion
UpdateSeries(d) ==
  /\ Requested("update_series")
  /\ series.stored
  /\ HasRoom(1)
  /\ series' = [series EXCEPT !.deadline = d]
  /\ rows' \in Synced(WithDeadline(rows, SeriesEvents(rows), d), None, d)
  /\ UNCHANGED deletion

(* _get_series_events_for_update: the entry is among the rows of a series. *)
InScope(e, scope) ==
  IF rows[e].inSeries /\ scope # "single"
  THEN {i \in SeriesRows(rows) : scope = "all" \/ rows[i].date >= rows[e].date}
  ELSE {e}

ForcesSkip(status) == status = "cancelled"
Refused(e, u) == /\ u.attendance \notin {Unset, "skipped"} /\ u.status = Unset
                 /\ ForcesSkip(rows[e].status)

(* A changed status sets the attendance in the dict of updates, which the  *)
(* loop over the rows, ordered by date, uses for the rows after it too.    *)
Switches(i, u) == /\ u.status # Unset /\ u.status # rows[i].status
                  /\ \/ ForcesSkip(u.status)
                     \/ ForcesSkip(rows[i].status) /\ u.attendance = Unset
NotAfter(i, k) == rows[i].date < rows[k].date \/ (rows[i].date = rows[k].date /\ i <= k)
(* Mutant: a row whose status changes is planned again.                    *)
AttendanceReset(i, S, u) ==
  IF ForcesSkip(u.status) THEN "skipped"
  ELSE IF u.status # Unset THEN "planned"
  ELSE IF u.attendance = Unset THEN rows[i].attendance ELSE u.attendance
AttendanceAfter(i, S, u) ==
  IF \E k \in S : Switches(k, u) /\ NotAfter(k, i)
  THEN IF ForcesSkip(u.status) THEN "skipped" ELSE "planned"
  ELSE IF u.attendance = Unset THEN rows[i].attendance ELSE u.attendance

Updated(e, u) ==
  LET S == InScope(e, u.scope)
      owned == IF rows[e].inSeries THEN SeriesRows(rows) ELSE {e}
  IN [i \in Rows |->
        [rows[i] EXCEPT
           !.status = IF i \in S /\ u.status # Unset THEN u.status ELSE @,
           !.attendance = IF i \in S THEN AttendanceAfter(i, S, u) ELSE @,
           !.date = IF i \in S /\ u.date # None THEN u.date ELSE @,
           !.location = (i \in owned /\ u.location) \/ @,
           !.deadline = IF i \in owned /\ rows[i].kind = "event" /\ u.deadline # Kept
                        THEN u.deadline ELSE @]]

UpdateEvent(e, u) ==
  /\ Requested("update")
  /\ e \in LiveEvents
  /\ ~ Refused(e, u)
  /\ HasRoom(1)
  /\ IF u.deadline = Kept THEN rows' = Updated(e, u) /\ UNCHANGED series
     ELSE IF rows[e].inSeries
     THEN /\ series' = [series EXCEPT !.deadline = u.deadline]
          /\ rows' \in Synced(Updated(e, u), None, u.deadline)
     ELSE /\ rows' \in Synced(Updated(e, u), e, u.deadline)
          /\ UNCHANGED series
  /\ UNCHANGED deletion

(* Marks the rows and counts what is left, in a transaction that is        *)
(* committed by CommitDeletion.                                            *)
DeleteEvent(h, e, scope) ==
  LET S == InScope(e, scope)
      left == SeriesEvents(rows) \ S
      entries == Entries(rows, None) \ S
  IN /\ Requested("delete")
     /\ ~ Pending(h)
     /\ e \in LiveEvents
     /\ HasRoom(1)
     /\ \E one \in IF rows[e].inSeries /\ Cardinality(left) = 1 THEN left ELSE {None},
           gone \in IF rows[e].inSeries /\ Cardinality(left) <= 1 /\ entries # {}
                    THEN entries ELSE {None} :
          deletion' = [deletion EXCEPT ![h] =
                         [ids |-> S, inSeries |-> rows[e].inSeries, single |-> one, entry |-> gone,
                          total |-> IF one # None THEN 0 ELSE Cardinality(left)]]
     /\ UNCHANGED <<rows, series>>

(* Mutant: the total is not written.                                       *)
CountKept(h) == series.total
(* The last event of a series becomes standalone, with its own entry.      *)
Detached(rs, i) ==
  LET alone == [rs EXCEPT ![i].inSeries = FALSE, ![i].position = 0]
  IN IF rs[i].deadline = None THEN {alone} ELSE CreatedEntry(alone, i, rs[i].deadline)
CountLeft(h) == deletion[h].total

CommitDeletion(h) ==
  LET d == deletion[h]
      marked == [i \in Rows |-> IF i \in d.ids \cup {d.entry} THEN [rows[i] EXCEPT !.live = FALSE]
                                ELSE rows[i]]
  IN /\ Pending(h)
     /\ IF d.single # None THEN HasRoom(1) /\ rows' \in Detached(marked, d.single)
        ELSE rows' = marked
     /\ series' = IF d.inSeries THEN [series EXCEPT !.total = CountLeft(h)] ELSE series
     /\ deletion' = [deletion EXCEPT ![h] = NoDeletion]

(* Entries can be restored like events.  The events of the series are      *)
(* counted before the restoration is flushed, so without the one restored. *)
RestoreEvent(i) ==
  /\ Requested("restore")
  /\ rows[i].kind # "free" /\ ~ rows[i].live
  /\ rows' = [rows EXCEPT ![i].live = TRUE]
  /\ series' = IF rows[i].inSeries
               THEN [series EXCEPT !.total = Cardinality(SeriesEvents(rows))] ELSE series
  /\ UNCHANGED deletion

SetPerformer(e, present) ==
  /\ Requested("performers")
  /\ e \in LiveEvents
  /\ rows[e].performer # present
  /\ rows' = [i \in Rows |-> IF i \in InScope(e, "all") THEN [rows[i] EXCEPT !.performer = present]
                             ELSE rows[i]]
  /\ UNCHANGED <<series, deletion>>

Next == \/ \E deadline \in Dates \cup {None} :
             \/ \E d \in Dates : CreateEvent(d, deadline)
             \/ \E n \in SeriesSizes : CreateSeries(n, deadline)
             \/ UpdateSeries(deadline)
        \/ \E e \in Rows : \/ \E u \in Updates : UpdateEvent(e, u)
                           \/ RestoreEvent(e)
                           \/ \E present \in BOOLEAN : SetPerformer(e, present)
                           \/ \E h \in Handlers, scope \in Scopes : DeleteEvent(h, e, scope)
        \/ \E h \in Handlers : CommitDeletion(h)

Spec == Init /\ [][Next]_vars

-----------------------------------------------------------------------------
(* Properties.                                                             *)

(* A series with a deadline and events is shown with exactly one entry, on *)
(* the day of the deadline, and one without a deadline with none.          *)
ShownOnce(owner, deadline) ==
  IF deadline = None THEN Entries(rows, owner) = {}
  ELSE \E i \in Rows : Entries(rows, owner) = {i} /\ rows[i].date = deadline
SeriesDeadlineShown == SeriesEvents(rows) # {} => ShownOnce(None, series.deadline)

(* The same for the deadlines of events without a series, and of those     *)
(* that a dissolved series leaves behind.                                  *)
EventDeadlineShown == \A e \in LiveEvents : rows[e].inSeries \/ ShownOnce(e, rows[e].deadline)

(* Every deadline, of a series or of an event of its own, is shown by one  *)
(* entry on its day, as long as no operation on several rows of a series   *)
(* at once (a deletion of later events, a change of date) takes the entry, *)
(* which is one of these rows, for an event.                               *)
DeadlinesShown == SeriesDeadlineShown /\ EventDeadlineShown

(* Operations of whatever scope, which may lose or move the entry, never   *)
(* leave a second one, nor one of a deadline that was removed; that holds  *)
(* for events that are deleted too, until a restoration.                   *)
AtMostOnce(owner, deadline) ==
  IF deadline = None THEN Entries(rows, owner) = {}
  ELSE \A i, k \in Entries(rows, owner) : i = k
ShownAtMostOnce ==
  /\ AtMostOnce(None, series.deadline)
  /\ \A e \in Rows : rows[e].kind = "event" /\ ~ rows[e].inSeries => AtMostOnce(e, rows[e].deadline)

(* No entry outlives what it is the deadline of.                           *)
NoStrayEntry == \A i \in Rows : rows[i].kind = "entry" /\ rows[i].live
                  => IF rows[i].inSeries THEN SeriesEvents(rows) # {} ELSE rows[i].parent \in LiveEvents

(* An entry has neither a location nor performers.                         *)
EntriesPlain == \A i \in Rows : rows[i].kind = "entry" => ~ rows[i].location /\ ~ rows[i].performer

(* total_events, of which "x/n" is shown, is what the code's comment says, *)
(* the number of events that are not deleted; after a restoration it is    *)
(* one less, until something else counts.                                  *)
TotalCounted == series.total = Cardinality(SeriesEvents(rows))
TotalAtMostOneShort ==
  LET n == Cardinality(SeriesEvents(rows)) IN series.total \in {n, n - 1}

(* "x/n" gives a position among the n events of the series.                *)
PositionsInRange == \A e \in SeriesEvents(rows) : rows[e].position <= series.total

(* A series that a deletion leaves with one event is dissolved.            *)
NoSeriesOfOne == Cardinality(SeriesEvents(rows)) # 1

(* An event whose status forces it is not planned or attended.             *)
SkippedWhenForced == \A e \in LiveEvents : ForcesSkip(rows[e].status) => rows[e].attendance = "skipped"

(* What a user recorded as attended stays so, as long as the status of the *)
(* event does not change.                                                  *)
KeepsAttendance ==
  \A u \in Updates, e \in Rows, i \in LiveEvents :
    u.attendance = Unset /\ UpdateEvent(e, u) /\ rows'[i].status = rows[i].status
      => rows'[i].attendance = rows[i].attendance
AttendanceKept == [][KeepsAttendance]_vars
=============================================================================
