-------------------------------- MODULE Rules --------------------------------
(* When a schedule runs (Rule in controller/scheduler.rs), and the loop that  *)
(* sleeps from one start to the next. Time is counted in half hours of UTC    *)
(* from the start of 2026, dates in days from then, months from year 0. What  *)
(* may be missing is a set of one or none.                                    *)
EXTENDS Integers, FiniteSets

CONSTANTS
    Inputs,  \* the rules people give: records [kind, date, weekdays, day, week, start]
    Zones,   \* time zones: records [base, changes], each change [at, offset]
    Begins,  \* moments the loop may start at
    Until    \* bound: when it stops

VARIABLES
    rule, zone,
    starts,  \* every start of the rule, as the calendar has it
    before, now \* the last tick but one, and the last
vars == <<rule, zone, starts, before, now>>

Day == 48
Least(s) == {a \in s : \A b \in s : a <= b}
Latest(s) == {a \in s : \A b \in s : b <= a}

----------------------------------------------------------------------------
(* The calendar, and local time                                               *)

Months == 12 * 2024..12 * 2031
First(m) ==
    LET y == m \div 12  k == m % 12
        ahead == <<0, 31, 59, 90, 120, 151, 181, 212, 243, 273, 304, 334>>
    IN  365 * (y - 2026) + (y - 2025) \div 4 + ahead[k + 1] + (IF k > 1 /\ y % 4 = 0 THEN 1 ELSE 0)
MonthOf(d) == CHOOSE m \in Months : First(m) <= d /\ d < First(m + 1)
\* Days from Monday.
Weekday(d) == (d + 3) % 7
Offset(z, t) ==
    LET past == {c \in z.changes : c.at <= t}
    IN  IF past = {} THEN z.base ELSE (CHOOSE c \in past : \A b \in past : b.at <= c.at).offset
Local(z, t) == t + Offset(z, t)
\* from_local_datetime: the moments that are this local time.
Moments(z, local) == {t \in {local - o : o \in {z.base} \cup {c.offset : c \in z.changes}} : Local(z, t) = local}

----------------------------------------------------------------------------
(* Rule                                                                       *)

\* Rule::parse: what can be meant.
Parses(r) ==
    CASE r.kind = "once" -> r.date # {}
      [] r.kind = "weekly" -> r.weekdays # {}
      [] r.kind = "monthly" -> /\ (r.day = 0) # (r.week = 0)
                               /\ r.day \in 0..31 /\ r.week \in {-1} \cup 0..4
                               /\ r.week # 0 => Cardinality(r.weekdays) = 1

\* A monthly rule's date in a month, if that month has one.
Ymd(m, day) == {d \in {First(m) + day - 1} : d < First(m + 1)}
in_month(r, m) ==
    IF r.day # 0 THEN Ymd(m, r.day)
    ELSE LET weekday == CHOOSE w \in r.weekdays : TRUE
             last == First(m + 1) - 1
         IN  IF r.week > 0 THEN Ymd(m, 1 + ((weekday + 7 - Weekday(First(m))) % 7) + 7 * (r.week - 1))
             ELSE {last - ((Weekday(last) + 7 - weekday) % 7)}
matches(r, d) ==
    CASE r.kind = "once" -> d \in r.date
      [] r.kind = "weekly" -> Weekday(d) \in r.weekdays
      [] r.kind = "monthly" -> d \in in_month(r, MonthOf(d)) /\ \A first \in r.date : d >= first

\* A time the clocks skip moves to the first after; of two, it is the first.
start_on(r, z, d) ==
    LET naive == Day * d + r.start
        found == {m \in 0..6 : Moments(z, naive + m) # {}}
    IN  UNION {Least(Moments(z, naive + m)) : m \in Least(found)}

\* How far the starts around a moment are looked for.
DaysAround(ahead) == IF ahead THEN -1..8 ELSE -8..1
\* mutant: of the month after this one and this one's only.
NextMonths(ahead) == IF ahead THEN 0..1 ELSE -1..0
MonthsAround(ahead) == IF ahead THEN -1..13 ELSE -13..1
around(r, z, t, ahead) ==
    LET today == Local(z, t) \div Day
        from == IF ahead /\ r.kind = "monthly" THEN Latest({today} \cup r.date) ELSE {today}
    IN  CASE r.kind = "once" -> r.date
          [] r.kind = "weekly" -> {d \in {today + i : i \in DaysAround(ahead)} : matches(r, d)}
          [] r.kind = "monthly" ->
                {d \in UNION {in_month(r, MonthOf(f) + i) : f \in from, i \in MonthsAround(ahead)} : matches(r, d)}
StartsAround(t, ahead) == UNION {start_on(rule, zone, d) : d \in around(rule, zone, t, ahead)}
latest_at_or_before(t) == Latest({s \in StartsAround(t, FALSE) : s <= t})
next_after(t) == Least({s \in StartsAround(t, TRUE) : s > t})

----------------------------------------------------------------------------
(* The loop                                                                   *)

\* What the calendar says: the dates the rule names, and on each the first
\* moment that is not before its time there.
Named(r, d) ==
    LET day == d - First(MonthOf(d)) + 1
    IN  CASE r.kind = "once" -> d \in r.date
          [] r.kind = "weekly" -> Weekday(d) \in r.weekdays
          [] r.kind = "monthly" ->
                /\ \A first \in r.date : d >= first
                /\ CASE r.week = 0 -> day = r.day
                     [] r.week > 0 -> Weekday(d) \in r.weekdays /\ (day + 6) \div 7 = r.week
                     [] r.week < 0 -> Weekday(d) \in r.weekdays /\ d + 7 >= First(MonthOf(d) + 1)
Calendar(r, z) ==
    {CHOOSE t \in Day * d + r.start - 60..Day * d + r.start + 60 :
        Local(z, t) >= Day * d + r.start /\ Local(z, t - 1) < Day * d + r.start :
     d \in {d \in First(12 * 2025 + 11)..Until \div Day + 1 : Named(r, d)}}

Init ==
    /\ rule \in {r \in Inputs : Parses(r)} /\ zone \in Zones
    /\ starts = Calendar(rule, zone) /\ now \in Begins /\ before = now
\* It sleeps until the next start there is, or is woken before.
tick ==
    /\ now < Until /\ before' = now
    /\ \E next \in IF next_after(now) = {} THEN {Until} ELSE next_after(now) :
          now' \in {next - 1, next} \ {now} /\ now' <= Until
    /\ UNCHANGED <<rule, zone, starts>>
Next == tick
Spec == Init /\ [][Next]_vars

----------------------------------------------------------------------------
\* A tick sees the rule's latest start by the calendar, whatever the month's
\* length, the year's or the clocks' changes, and none has passed since the
\* tick before that isn't the one it sees: nothing is missed or made up.
NothingMissed ==
    LET past == {s \in starts : s <= now}
    IN  /\ latest_at_or_before(now) = Latest(past)
        /\ {s \in past : s > before} \subseteq latest_at_or_before(now)
=============================================================================
