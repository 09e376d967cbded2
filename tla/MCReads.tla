------------------------------ MODULE MCReads ------------------------------
EXTENDS Reads

\* The proleptic Gregorian calendar, whose day 1 is Monday 0001-01-01.
MCIsLeap(y) == y % 4 = 0 /\ (y % 100 # 0 \/ y % 400 = 0)
MCDaysInMonth(y, m) == CASE m \in {4, 6, 9, 11} -> 30
                         [] m = 2 -> IF MCIsLeap(y) THEN 29 ELSE 28
                         [] OTHER -> 31
DaysBeforeMonth == <<0, 31, 59, 90, 120, 151, 181, 212, 243, 273, 304, 334>>
MCDate(y, m, d) ==
    LET z == y - 1
    IN  365 * z + z \div 4 - z \div 100 + z \div 400 + DaysBeforeMonth[m]
          + (IF m > 2 /\ MCIsLeap(y) THEN 1 ELSE 0) + d

MCLastDay == 3100
MCCivil ==
    [n \in 1..MCLastDay |->
        LET y == CHOOSE z \in (n \div 366)..(n \div 365 + 1) :
                    MCDate(z, 1, 1) <= n /\ n < MCDate(z + 1, 1, 1)
            m == CHOOSE k \in 1..12 : LET d == n - MCDate(y, k, 1)
                                     IN  0 <= d /\ d < MCDaysInMonth(y, k)
        IN  [year |-> y, month |-> m, day |-> n - MCDate(y, m, 1) + 1]]

\* Day 1155 is the leap day of year 4, a Sunday; two ticks make an hour.
At(day, hour) == day * 48 + hour * 2
Leap == 1155

Row == [status |-> "pending", title |-> 1, due |-> None, project |-> None, section |-> None,
        parent |-> None, priority |-> None, someday |-> FALSE, tags |-> {}, order |-> 1,
        created |-> At(1150, 9), updated |-> At(1150, 9), completed |-> None,
        cancelled |-> None, estimate |-> None, actual |-> None, dread |-> None,
        deadline |-> None]

Pressing == [Row EXCEPT !.due = Leap, !.priority = 1, !.estimate = 30, !.dread = 2]
Late == [Pressing EXCEPT !.due = Leap - 1, !.order = 2, !.deadline = At(Leap + 1, 12)]
Done == [Pressing EXCEPT !.status = "completed", !.completed = At(Leap - 2, 12), !.actual = 45]

Shared == [Row EXCEPT !.project = 7, !.due = Leap, !.estimate = 15, !.title = 2,
                      !.created = At(Leap, 8)]
Called == [Shared EXCEPT !.status = "cancelled", !.cancelled = At(Leap - 1, 3)]

Idle == [Row EXCEPT !.project = 7, !.created = At(1100, 1), !.tags = {"g"}]
Coming == [Idle EXCEPT !.due = Leap + 1, !.estimate = 60, !.someday = TRUE]
Past == [Idle EXCEPT !.status = "completed", !.completed = At(Leap, 4), !.estimate = 10,
                     !.actual = 10]

Table(row1, row2, row3) == [t \in {1, 2, 3} |-> CASE t = 1 -> row1 [] t = 2 -> row2 [] t = 3 -> row3]
Tables == {Table(a, b, c) : a \in {Pressing, Late, Done}, b \in {Shared, Called}, c \in {Idle, Past}}
          \cup {Table(Pressing, Shared, Coming), Table(Late, Shared, Idle) @@ (4 :> Done),
                [t \in {1, 2} |-> Table(Late, Shared, Idle)[t]]}

Owner(table, date, start, every, n) ==
    [table |-> table, date |-> date, start |-> start, rule |-> [every |-> every, n |-> n]]
Plain == [table |-> "block", date |-> Leap, start |-> 9, rule |-> None]
NoOwners == [o \in {} |-> Plain]
Series == [o \in 1..7 |-> CASE o = 1 -> Owner("block", 1126, 9, "month", 1)
                            [] o = 2 -> Owner("block", Leap, 9, "year", 1)
                            [] o = 3 -> Owner("slot", 1147, 8, "weekday", 1)
                            [] o = 4 -> Owner("block", 1130, 8, "day", 3)
                            [] o = 5 -> Owner("slot", 1120, 9, "week", 2)
                            [] o = 6 -> Owner("slot", 1156, 9, "year", 1)
                            [] OTHER -> Plain]
Crowd == [o \in 1..3 |-> Owner("block", Leap - o, 7, "day", o)]

Listed == [p \in {7} |-> [archived |-> FALSE]]
Archived == [p \in {7} |-> [archived |-> TRUE]]
Content(tasks, projects, owners) == [tasks |-> tasks, projects |-> projects, owners |-> owners]
MCContents ==
    {Content(tasks, Listed, NoOwners) : tasks \in Tables}
    \cup {Content(Table(Late, Shared, Idle), Archived, owners) : owners \in {Series, Crowd}}

Window(kind, from, to) == [kind |-> kind, from |-> from, to |-> to]
Query(view, sort, limit, filter) ==
    [view |-> view, sort |-> sort, cursor |-> None, limit |-> limit, filter |-> filter]
Foreign == [Query(None, "order", 1, NoFilter) EXCEPT !.cursor = [sort |-> "due", value |-> 1, id |-> 1]]
Tokens == <<[clause |-> "today"], [clause |-> "week"], [clause |-> "tag", value |-> "g"],
            [clause |-> "status", value |-> "pending"], [clause |-> "project", value |-> 7]>>
MCQuestions ==
    {[kind |-> "list", query |-> q] :
        q \in {Query(None, sort, 1, NoFilter) : sort \in {"order", "due", "due_desc", "title"}}
              \cup {Query("today", "priority", 2, NoFilter), Query("inbox", "created_desc", None, NoFilter),
                    Query("upcoming", "created", 1, NoFilter),
                    Query(None, "updated_desc", 1, ParseFilter(Tokens, Leap)),
                    Query("completed", "order", 0, NoFilter), Foreign}}
    \cup {Window("calendar", Leap - 1, Leap + 1) @@ [project |-> p] : p \in {Unset, 7}}
    \cup {[kind |-> "weekly", weekStart |-> w] : w \in {"sunday", "monday"}}
    \cup {[kind |-> k] : k \in {"daily", "end_of_day", "frog", "jar", "menu"}}
    \cup {Window("stats", Leap - 3, Leap), Window("stats", Leap, Leap - 1),
          [kind |-> "nudges", capacity |-> 40]}
    \cup {Window("blocks", from, from + 9) : from \in {1120, 1150, 1177, 1516, 2610, 2978}}
    \cup {Window("blocks", 1150, 1178)}
=============================================================================
