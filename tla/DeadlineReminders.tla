-------------------------- MODULE DeadlineReminders --------------------------
(***************************************************************************)
(* Reminders of the deadlines of events.  Every server process looks once  *)
(* an hour which deadlines come near, for each member by the member's own  *)
(* day, stores a notification for each that has none for that number of    *)
(* days yet, and pushes it to the member's device after the commit.  Time  *)
(* goes by in half days, so that a member's day may be half a day ahead of *)
(* the day of the server, or behind it.                                    *)
(***************************************************************************)
EXTENDS Integers, FiniteSets

CONSTANTS
  Users, Events, Workers,
  Series,        \* sets of events that share one deadline
  Ahead, Behind, \* users whose day begins earlier, later
  None,
  Before,        \* how many days ahead members are reminded
  Retention,     \* days that read notifications are kept
  MaxDay,        \* bound: days
  Moves,         \* deadlines are moved
  Settings,      \* members change their preferences and devices
  Failures,      \* the push service may fail
  MaxCrashes     \* bound: crashes of server processes

ConstantsAssumption ==
  /\ Ahead \subseteq Users /\ Behind \subseteq Users \ Ahead
  /\ UNION Series = Events
  /\ Before \in Nat /\ MaxDay \in Nat \ {0} /\ MaxCrashes \in Nat
  /\ Retention \in Nat /\ Retention >= 1
  /\ Moves \in BOOLEAN /\ Settings \in BOOLEAN /\ Failures \in BOOLEAN

VARIABLES
  now,       \* half days gone by
  deadline,  \* deadline[e]: the day, or None
  open,      \* events that are neither over nor deleted
  wants,     \* members that have deadline reminders enabled
  device,    \* device[u]: the member's subscription to pushes
  notes,     \* the notifications stored, with the outcome of their push; kept: not removed yet
  twice,     \* reminders that were stored again
  check,     \* check[w]: the check of deadlines that process w performs
  crashes    \* the number of crashes so far

vars == <<now, deadline, open, wants, device, notes, twice, check, crashes>>

Days == 1 .. MaxDay
Today == now \div 2
(* A check knows the events it selected, and of each the deadline as of    *)
(* its last commit.  calm: nothing it looks at has changed meanwhile;      *)
(* late: it began half a day before.                                       *)
Reminder == [user: Users, event: Events, days: 0 .. Before, deadline: Days]
Check == [phase: {"idle", "check", "store", "push"}, users: SUBSET Users, user: Users \cup {None},
          today: 0 .. MaxDay + 1, events: SUBSET Events, left: SUBSET Events,
          seen: [Events -> Days \cup {None}], reminder: Reminder \cup {None}, calm: BOOLEAN, late: BOOLEAN]
NoCheck == [phase |-> "idle", users |-> {}, user |-> None, today |-> 0, events |-> {}, left |-> {},
            seen |-> [e \in Events |-> None], reminder |-> None, calm |-> FALSE, late |-> FALSE]

TypeOK == /\ now \in 2 .. 2 * MaxDay + 1
          /\ deadline \in [Events -> Days \cup {None}]
          /\ open \subseteq Events /\ wants \subseteq Users
          /\ device \in [Users -> {"none", "works", "gone"}]
          /\ notes \subseteq [reminder: Reminder, read: BOOLEAN, kept: BOOLEAN,
                              push: {"pending", "pushed", "failed", "no_device"}]
          /\ twice \subseteq Reminder
          /\ check \in [Workers -> Check]
          /\ crashes \in 0 .. MaxCrashes

Init == /\ now = 2
        /\ deadline = [e \in Events |-> None]
        /\ open = Events
        /\ wants = Users
        /\ device = [u \in Users |-> "works"]
        /\ notes = {}
        /\ twice = {}
        /\ check = [w \in Workers |-> NoCheck]
        /\ crashes = 0

-----------------------------------------------------------------------------
(* Mutant: the server's day.                                               *)
ServerDay(u) == Today
UserDay(u) == (now + (IF u \in Ahead THEN 1 ELSE IF u \in Behind THEN -1 ELSE 0)) \div 2
Disturb == check' = [w \in Workers |-> [check[w] EXCEPT !.calm = FALSE]]

(* A check takes less than half a day.                                     *)
Tick ==
  /\ now < 2 * MaxDay + 1
  /\ \A w \in Workers : ~ check[w].late
  /\ now' = now + 1
  /\ check' = [w \in Workers |-> IF check[w].phase = "idle" THEN NoCheck
                                ELSE [check[w] EXCEPT !.calm = FALSE, !.late = TRUE]]
  /\ UNCHANGED <<deadline, open, wants, device, notes, twice, crashes>>

(* A series has its deadline once; its events carry copies.                *)
SetDeadline(s, d) ==
  /\ Moves \/ \A e \in s : deadline[e] = None
  /\ deadline' = [e \in Events |-> IF e \in s THEN d ELSE deadline[e]]
  /\ Disturb
  /\ UNCHANGED <<now, open, wants, device, notes, twice, crashes>>

EndEvent(e) ==
  /\ e \in open
  /\ open' = open \ {e}
  /\ Disturb
  /\ UNCHANGED <<now, deadline, wants, device, notes, twice, crashes>>

SetPreference(u) ==
  /\ Settings
  /\ wants' = IF u \in wants THEN wants \ {u} ELSE wants \cup {u}
  /\ Disturb
  /\ UNCHANGED <<now, deadline, open, device, notes, twice, crashes>>

(* The member subscribes or unsubscribes, or the browser revokes.          *)
SetDevice(u, d) ==
  /\ Settings
  /\ device[u] # d
  /\ d = "gone" => device[u] = "works"
  /\ device' = [device EXCEPT ![u] = d]
  /\ UNCHANGED <<now, deadline, open, wants, notes, twice, check, crashes>>

MarkRead(n) ==
  /\ Settings /\ n.kept
  /\ notes' = (notes \ {n}) \cup {[n EXCEPT !.read = TRUE]}
  /\ UNCHANGED <<now, deadline, open, wants, device, twice, check, crashes>>

(* Whoever lists notifications removes those that were read long ago.      *)
(* Mutant: all that were read.                                             *)
ExpiredEarly(n, u) == n.reminder.user = u /\ n.read
Expired(n, u) == /\ n.reminder.user = u /\ n.read
                 /\ n.reminder.deadline - n.reminder.days < UserDay(u) - Retention
Cleanup(u) ==
  /\ notes' = {IF Expired(n, u) THEN [n EXCEPT !.kept = FALSE] ELSE n : n \in notes}
  /\ notes' # notes
  /\ UNCHANGED <<now, deadline, open, wants, device, twice, check, crashes>>

-----------------------------------------------------------------------------
Selected == {e \in open : deadline[e] # None /\ deadline[e] >= Today}
Loaded(events) == [e \in Events |-> IF e \in events THEN deadline[e] ELSE None]

Start(w) ==
  /\ check[w].phase = "idle"
  /\ check' = [check EXCEPT ![w] = [NoCheck EXCEPT !.phase = "check", !.events = Selected, !.calm = TRUE,
                                                   !.users = IF Selected = {} THEN {} ELSE Users,
                                                   !.seen = Loaded(Selected)]]
  /\ UNCHANGED <<now, deadline, open, wants, device, notes, twice, crashes>>

NextUser(w) ==
  /\ check[w].phase = "check" /\ check[w].left = {}
  /\ \E u \in check[w].users :
       LET c == [check[w] EXCEPT !.users = @ \ {u}, !.user = u, !.today = UserDay(u), !.left = check[w].events]
       IN check' = [check EXCEPT ![w] = c]
  /\ UNCHANGED <<now, deadline, open, wants, device, notes, twice, crashes>>

(* The reminder of an event, whatever deadline it was of.                  *)
Reminded(u, e, days) == \E n \in notes : /\ n.kept /\ n.reminder.days = days
                                         /\ n.reminder.user = u /\ n.reminder.event = e
Due(u, seen, today) == seen # None /\ seen - today \in 0 .. Before

Look(w, e) ==
  LET c == check[w]
      days == c.seen[e] - c.today
      rest == [c EXCEPT !.left = @ \ {e}]
  IN /\ c.phase = "check" /\ e \in c.left
     /\ check' = [check EXCEPT ![w] =
          IF Due(c.user, c.seen[e], c.today) /\ ~ Reminded(c.user, e, days) /\ c.user \in wants
          THEN [rest EXCEPT !.phase = "store",
                            !.reminder = [user |-> c.user, event |-> e, days |-> days, deadline |-> c.seen[e]]]
          ELSE rest]
     /\ UNCHANGED <<now, deadline, open, wants, device, notes, twice, crashes>>

(* After a commit everything that was loaded is read again when used.      *)
Store(w) ==
  LET c == check[w]
  IN /\ c.phase = "store"
     /\ IF \E n \in notes : n.reminder = c.reminder
        THEN twice' = twice \cup {c.reminder} /\ UNCHANGED notes
        ELSE notes' = notes \cup {[reminder |-> c.reminder, read |-> FALSE, kept |-> TRUE, push |-> "pending"]}
             /\ UNCHANGED twice
     /\ check' = [check EXCEPT ![w] = [@ EXCEPT !.phase = "push", !.seen = Loaded(c.events)]]
     /\ UNCHANGED <<now, deadline, open, wants, device, crashes>>

(* deliver_push, with one attempt; a subscription that is gone is removed. *)
Deliver(w) ==
  LET c == check[w]
      u == c.reminder.user
  IN /\ c.phase = "push"
     /\ \E p \in IF device[u] # "works" THEN {"no_device"}
                 ELSE {"pushed"} \cup (IF Failures THEN {"failed"} ELSE {}) :
          notes' = {IF n.reminder = c.reminder THEN [n EXCEPT !.push = p] ELSE n : n \in notes}
     /\ device' = [device EXCEPT ![u] = IF @ = "gone" THEN "none" ELSE @]
     /\ check' = [check EXCEPT ![w] = [@ EXCEPT !.phase = "check", !.reminder = None,
                                                !.seen = Loaded(c.events)]]
     /\ UNCHANGED <<now, deadline, open, wants, twice, crashes>>

Finish(w) ==
  /\ check[w].phase = "check" /\ check[w].users = {} /\ check[w].left = {}
  /\ check' = [check EXCEPT ![w] = NoCheck]
  /\ UNCHANGED <<now, deadline, open, wants, device, notes, twice, crashes>>

Crash(w) ==
  /\ crashes < MaxCrashes /\ check[w].phase # "idle"
  /\ crashes' = crashes + 1
  /\ check' = [check EXCEPT ![w] = NoCheck]
  /\ UNCHANGED <<now, deadline, open, wants, device, notes, twice>>

Next ==
  \/ Tick
  \/ \E s \in Series : \E d \in Days : SetDeadline(s, d)
  \/ \E e \in Events : EndEvent(e)
  \/ \E u \in Users : \/ SetPreference(u) \/ Cleanup(u)
                      \/ \E d \in {"none", "works", "gone"} : SetDevice(u, d)
  \/ \E n \in notes : MarkRead(n)
  \/ \E w \in Workers : \/ Start(w) \/ NextUser(w) \/ Store(w) \/ Deliver(w) \/ Finish(w) \/ Crash(w)
                        \/ \E e \in Events : Look(w, e)

Spec == Init /\ [][Next]_vars

-----------------------------------------------------------------------------
(* Properties.                                                             *)

(* FR-039: no reminder of the same event, deadline and number of days is   *)
(* stored twice for a member.                                              *)
NoDuplicate == twice = {}

LocalDay(u) == (now + Cardinality(Ahead \cap {u}) - Cardinality(Behind \cap {u})) \div 2

(* FR-038 and FR-040: when a check ends that nothing has disturbed, every  *)
(* member has a reminder of each deadline that is near by the member's     *)
(* own day.                                                                *)
CheckedReminds ==
  \A w \in Workers : Finish(w) /\ check[w].calm =>
    \A u \in wants, e \in open :
      deadline[e] # None /\ deadline[e] - LocalDay(u) \in 0 .. Before =>
        \E n \in notes : n.reminder = [user |-> u, event |-> e, deadline |-> deadline[e],
                                       days |-> deadline[e] - LocalDay(u)]
CheckedMeansReminded == [][CheckedReminds]_vars

Busy(n) == \E w \in Workers : check[w].phase = "push" /\ check[w].reminder = n.reminder

(* FR-018: a reminder that is stored is pushed to the member's device.     *)
RemindersPushed == \A n \in notes : n.push = "pending" => Busy(n)

(* FR-020: a push that failed once is tried again.                         *)
FailuresRetried == \A n \in notes : n.push = "failed" => Busy(n)

(* FR-039: a member gets one reminder of a deadline a day, also where      *)
(* several events share it.                                                *)
OneReminderPerDeadline ==
  \A n, m \in notes : \A s \in Series :
    /\ n.reminder.user = m.reminder.user /\ n.reminder.days = m.reminder.days
    /\ n.reminder.deadline = m.reminder.deadline
    /\ {n.reminder.event, m.reminder.event} \subseteq s
    => n.reminder.event = m.reminder.event
=============================================================================
