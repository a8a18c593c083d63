----------------------------- MODULE CronEngine -----------------------------
(***************************************************************************)
(* The schedule of a cron expression (renderer/src/lib/cronEngine.ts): the *)
(* search for the next occurrences, which skips months, days and hours     *)
(* that do not match, against what the fields denote.                      *)
(*                                                                         *)
(* An expression is a record of five fields, a field the set of the parts  *)
(* between its commas.  A day is numbered from 1 January 2023, a Sunday;   *)
(* the local time has no clock changes.                                    *)
(***************************************************************************)
EXTENDS Naturals, Sequences

CONSTANTS
  Expressions,    \* the expressions the user types
  StartTimes,     \* the moments the user looks at the page
  Count,          \* how many occurrences are asked for; 10 in the code
  MaxIterations,  \* MAX_ITERATIONS
  Months          \* bound on the months searched

VARIABLES cronExpr, startDate, current, results, iterations
cronVars == <<cronExpr, startDate, current, results, iterations>>

-----------------------------------------------------------------------------
(* JavaScript's Date. *)
MonthLength(i) ==
  CASE i % 12 = 1 -> IF (2023 + i \div 12) % 4 = 0 THEN 29 ELSE 28
    [] i % 12 \in {3, 5, 8, 10} -> 30
    [] OTHER -> 31
FirstDay[i \in 0..Months] == IF i = 0 THEN 0 ELSE FirstDay[i - 1] + MonthLength(i - 1)
Days == 0..(FirstDay[Months] - 1)
MonthOf == [d \in Days |-> CHOOSE i \in 0..(Months - 1) : FirstDay[i] <= d /\ d < FirstDay[i + 1]]

Month(d) == (MonthOf[d] % 12) + 1
DayOfMonth(d) == d - FirstDay[MonthOf[d]] + 1
DayOfWeek(d) == d % 7
Instant(t) == (t.day * 24 + t.hour) * 60 + t.minute
At(instant) == [day |-> instant \div 1440, hour |-> (instant \div 60) % 24, minute |-> instant % 60]

-----------------------------------------------------------------------------
AnyValue == [kind |-> "any"]
Every(n) == [kind |-> "every", step |-> n]
StepFrom(a, n) == [kind |-> "from", from |-> a, step |-> n]
RangeStep(a, b, n) == [kind |-> "range step", from |-> a, to |-> b, step |-> n]
Between(a, b) == [kind |-> "range", from |-> a, to |-> b]
Just(a) == [kind |-> "value", from |-> a]

MatchesPart(val, p, min, max) ==
  \/ p.kind = "any"
  \/ p.kind = "every" /\ p.step > 0 /\ (val - min) % p.step = 0
  \/ p.kind = "from" /\ p.step > 0 /\ val >= p.from /\ (val - p.from) % p.step = 0
  \/ p.kind = "range step" /\ p.step > 0 /\ val \in p.from..p.to /\ (val - p.from) % p.step = 0
  \/ p.kind = "range" /\ val \in p.from..p.to
  \/ p.kind = "value" /\ (val = p.from \/ (min = 0 /\ max = 6 /\ p.from = 7 /\ val = 0))

MatchesField(val, field, min, max) == \E p \in field : MatchesPart(val, p, min, max)

(* A star is accepted alone, not in a list; 7 is accepted as a day of the
   week, but not in a step. *)
ValidPart(p, min, max) ==
  LET top == IF max = 6 THEN 7 ELSE max
  IN  \/ p.kind = "every" /\ p.step > 0
      \/ p.kind = "from" /\ p.step > 0 /\ p.from \in min..max
      \/ p.kind = "range step" /\ p.step > 0 /\ min <= p.from /\ p.from <= p.to /\ p.to <= max
      \/ p.kind = "range" /\ min <= p.from /\ p.from <= p.to /\ p.to <= top
      \/ p.kind = "value" /\ p.from \in min..top

ValidField(field, min, max) == field = {AnyValue} \/ \A p \in field : ValidPart(p, min, max)

ValidateCronExpression(e) ==
  /\ ValidField(e.minute, 0, 59) /\ ValidField(e.hour, 0, 23)
  /\ ValidField(e.dayOfMonth, 1, 31) /\ ValidField(e.month, 1, 12)
  /\ ValidField(e.dayOfWeek, 0, 6)

-----------------------------------------------------------------------------
Searching ==
  /\ ValidateCronExpression(cronExpr)
  /\ Len(results) < Count /\ iterations < MaxIterations
  /\ current.day \in Days

MonthMatches == MatchesField(Month(current.day), cronExpr.month, 1, 12)
DayMatches ==
  /\ MatchesField(DayOfMonth(current.day), cronExpr.dayOfMonth, 1, 31)
  /\ MatchesField(DayOfWeek(current.day), cronExpr.dayOfWeek, 0, 6)
HourMatches == MatchesField(current.hour, cronExpr.hour, 0, 23)
MinuteMatches == MatchesField(current.minute, cronExpr.minute, 0, 59)

GoTo(instant) ==
  /\ current' = At(instant) /\ iterations' = iterations + 1
  /\ UNCHANGED <<cronExpr, startDate>>

SkipMonth ==
  /\ Searching /\ ~MonthMatches
  /\ GoTo(FirstDay[MonthOf[current.day] + 1] * 1440)
  /\ UNCHANGED results

SkipDay ==
  /\ Searching /\ MonthMatches /\ ~DayMatches
  /\ GoTo((current.day + 1) * 1440)
  /\ UNCHANGED results

(* Mutant: the minutes are not reset. *)
NextHourSameMinute == Instant(current) + 60

NextHour == (current.day * 24 + current.hour + 1) * 60

SkipHour ==
  /\ Searching /\ MonthMatches /\ DayMatches /\ ~HourMatches
  /\ GoTo(NextHour)
  /\ UNCHANGED results

TryMinute ==
  /\ Searching /\ MonthMatches /\ DayMatches /\ HourMatches
  /\ results' = IF MinuteMatches THEN Append(results, current) ELSE results
  /\ GoTo(Instant(current) + 1)

CronInit ==
  /\ cronExpr \in Expressions /\ startDate \in StartTimes
  /\ current = At(Instant(startDate) + 1)
  /\ results = <<>> /\ iterations = 0

CronNext == SkipMonth \/ SkipDay \/ SkipHour \/ TryMinute

-----------------------------------------------------------------------------
(* What a field denotes, by listing it as crontab does; 7 is Sunday. *)
Steps(a, b, n) == {a + k * n : k \in 0..((b - a) \div n)}
PartDenotes(p, min, max) ==
  CASE p.kind = "any" -> min..max
    [] p.kind = "every" -> Steps(min, max, p.step)
    [] p.kind = "from" -> Steps(p.from, max, p.step)
    [] p.kind = "range step" -> Steps(p.from, p.to, p.step)
    [] p.kind = "range" -> p.from..p.to
    [] p.kind = "value" -> {p.from}
Denotes(field, min, max) == UNION {PartDenotes(p, min, max) : p \in field}

DueBetween(a, b) ==
  LET DueDay(d) ==
        /\ d \in Days
        /\ Month(d) \in Denotes(cronExpr.month, 1, 12)
        /\ DayOfMonth(d) \in Denotes(cronExpr.dayOfMonth, 1, 31)
        /\ DayOfWeek(d) \in {v % 7 : v \in Denotes(cronExpr.dayOfWeek, 0, 6)}
  IN  {t \in [day : {d \in a.day..b.day : DueDay(d)}, hour : Denotes(cronExpr.hour, 0, 23),
              minute : Denotes(cronExpr.minute, 0, 59)] :
        Instant(a) <= Instant(t) /\ Instant(t) < Instant(b)}

(* The search lists every minute at which all five fields hold, in order, and
   no other: a jump over months, days or hours passes over none that is due,
   across the ends of months and years, a leap day, and lists and steps that
   do not divide their range. *)
NoOccurrenceMissed ==
  [][iterations' > iterations =>
       /\ Len(results') > Len(results) => results' = Append(results, current)
       /\ DueBetween(current, current') = {results'[i] : i \in (Len(results) + 1)..Len(results')}
    ]_cronVars
=============================================================================
