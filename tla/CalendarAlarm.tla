---------------------------- MODULE CalendarAlarm ----------------------------
(***************************************************************************)
(* WeekAlarmMgr and its subclass MonthAlarmMgr (srv_common/                *)
(* dailyUpdateMgr.cpp): events that are due once in every week, and events *)
(* that are due once in every month.  Both compare the period of the last  *)
(* run with the present one, and neither counts the periods in between.    *)
(* The weekly manager compares the numbers of the weeks; the monthly one   *)
(* compares calendar months, and the distance in time from one year to the *)
(* next.  Saving and reading the times is AlarmBase's, see DailyAlarm.     *)
(***************************************************************************)
EXTENDS Integers, Sequences

CONSTANTS
  WeekRow,       \* the rows of s_global_weeklyCfgInfo
  MonthRow,      \* the rows of s_global_monthlyCfgInfo
  eventOffset,   \* dayIndex and timeOffset of each row, from its period's start
  Week, Hour,    \* 7 * 24 * 3600 and 3600
  Elapsed,       \* the first moment of each month of a year, and its end
  Days31,        \* 31 * 24 * 3600
  TimeZone,      \* the time zones explored
  Never,         \* no dailyEventInfo for this row yet
  Clock          \* a bound: the readings of the clock

Row == WeekRow \cup MonthRow

Months == 1 .. Len(Elapsed) - 1
MonthLength(m) == Elapsed[m + 1] - Elapsed[m]

(* A year ends with a month of 31 days; the rows' days exist in each month.*)
CalendarAssumption ==
  /\ WeekRow \cap MonthRow = {} /\ Never \notin Int
  /\ eventOffset \in [Row -> Nat]
  /\ Week \in Nat \ {0} /\ \A a \in WeekRow : eventOffset[a] < Week
  /\ Elapsed \in Seq(Nat) /\ Len(Elapsed) > 1 /\ Elapsed[1] = 0
  /\ \A m, n \in DOMAIN Elapsed : m < n => Elapsed[m] < Elapsed[n]
  /\ MonthLength(Len(Elapsed) - 1) = Days31
  /\ \A a \in MonthRow, m \in Months : eventOffset[a] < MonthLength(m)
  /\ Hour \in Nat /\ TimeZone \subseteq Int /\ 0 \in TimeZone
  /\ Clock \subseteq Nat /\ Clock # {}

VARIABLES
  now,           \* app_inst_time
  m_timeZone,
  m_lastRunInfo, \* the lastRunTm of each row
  m_bChanged,    \* of either manager
  calls,         \* history: the calls for a row in its present period
  watch          \* history: whether the row was called since the clock jumped
                 \*   ("called"), and whether this was at its time and Update
                 \*   ran at every reading of the clock since ("ran", "due")

history == <<calls, watch>>
vars == <<now, m_timeZone, m_lastRunInfo, m_bChanged, history>>

Unknown == [calls |-> [a \in Row |-> 0], watch |-> [a \in Row |-> "no"]]

-----------------------------------------------------------------------------
Year == Elapsed[Len(Elapsed)]
tm_year(t) == t \div Year
tm_mon(t) == CHOOSE m \in Months : Elapsed[m] <= (t % Year) /\ (t % Year) < Elapsed[m + 1]

Local(t) == t + m_timeZone * Hour
nd_time_week_index(t) == Local(t) \div Week
MonthOf(t) == <<tm_year(Local(t)), tm_mon(Local(t))>>

nd_time_from_week(offset, t) == (t - (Local(t) % Week)) + offset
nd_time_from_month(offset, t) ==
  (MonthOf(t)[1] * Year + Elapsed[MonthOf(t)[2]] - m_timeZone * Hour) + offset

(* The row's time in the present week or month.                            *)
eventTm(a) == IF a \in WeekRow THEN nd_time_from_week(eventOffset[a], now)
              ELSE nd_time_from_month(eventOffset[a], now)

Registered(a) == m_lastRunInfo[a] # Never

-----------------------------------------------------------------------------
(* The weekly manager finds the clock set back behind the last run.        *)
Behind(a) == a \in WeekRow /\ Registered(a) /\ m_lastRunInfo[a] > now

(* A row that never ran counts as run a week ago.                          *)
lastRenewTm(a) == IF Registered(a) THEN m_lastRunInfo[a] ELSE now - Week

(* Mutation of WeekRuns: the week of the last run is compared by distance. *)
WeekRuns_distance(a) ==
  ~Behind(a) /\ now - lastRenewTm(a) >= Week /\ eventTm(a) <= now

(* Mutation of WeekRuns: the week of the last run is not looked at.        *)
WeekRuns_again(a) == ~Behind(a) /\ eventTm(a) <= now

WeekRuns(a) ==
  /\ ~Behind(a)
  /\ nd_time_week_index(now) # nd_time_week_index(lastRenewTm(a))
  /\ eventTm(a) <= now

(* Mutation of MonthPassed: the distance of the two years is not looked at.*)
MonthPassed_years(a, last) ==
  LET monInterval == tm_mon(Local(now)) - tm_mon(last)
  IN \/ tm_year(Local(now)) # tm_year(last)
     \/ monInterval > 1
     \/ monInterval = 1 /\ Local(now) >= eventTm(a)

(* A row that ran before, at last by the local clock.  The local clock is  *)
(* compared with eventTm, which is not a local time.                       *)
MonthPassed(a, last) ==
  LET monInterval == tm_mon(Local(now)) - tm_mon(last)
  IN CASE tm_year(Local(now)) = tm_year(last) + 1 -> Local(now) - last >= Days31
       [] tm_year(Local(now)) = tm_year(last) ->
            monInterval > 1 \/ (monInterval = 1 /\ Local(now) >= eventTm(a))
       [] OTHER -> TRUE

MonthRuns(a) == IF Registered(a) THEN MonthPassed(a, Local(m_lastRunInfo[a]))
                ELSE now >= eventTm(a)

Runs(a) == IF a \in WeekRow THEN WeekRuns(a) ELSE MonthRuns(a)

-----------------------------------------------------------------------------
Init ==
  /\ now \in Clock /\ m_timeZone = 0
  /\ m_lastRunInfo = [a \in Row |-> Never] /\ m_bChanged = FALSE
  /\ calls = Unknown.calls /\ watch = Unknown.watch

SamePeriod(a, t) == IF a \in WeekRow THEN nd_time_week_index(t) = nd_time_week_index(now)
                    ELSE MonthOf(t) = MonthOf(now)

Tick ==
  /\ now + 1 \in Clock
  /\ now' = now + 1
  /\ calls' = [a \in Row |-> IF SamePeriod(a, now + 1) THEN calls[a] ELSE 0]
  /\ watch' = [a \in Row |-> CASE watch[a] = "ran" -> "due" [] watch[a] = "due" -> "called"
                             [] OTHER -> watch[a]]
  /\ UNCHANGED <<m_timeZone, m_lastRunInfo, m_bChanged>>

Forget == calls' = Unknown.calls /\ watch' = Unknown.watch

(* The operator sets the clock back.                                       *)
SetBack(t) ==
  /\ t < now
  /\ now' = t
  /\ Forget
  /\ UNCHANGED <<m_timeZone, m_lastRunInfo, m_bChanged>>

(* Of the owner's two managers.                                            *)
setTimeZone(zone) ==
  /\ zone # m_timeZone
  /\ m_timeZone' = zone
  /\ Forget
  /\ UNCHANGED <<now, m_lastRunInfo, m_bChanged>>

Watched(a) ==
  CASE watch[a] = "due" -> "ran"
    [] Runs(a) /\ watch[a] # "due" -> IF now = eventTm(a) THEN "ran" ELSE "called"
    [] OTHER -> watch[a]

(* Mutation of Update: the local clock is recorded.                        *)
Update_local(rows) ==
  /\ m_lastRunInfo' = [a \in Row |-> IF a \in rows /\ (Runs(a) \/ Behind(a)) THEN Local(now)
                                     ELSE m_lastRunInfo[a]]
  /\ UNCHANGED <<now, m_timeZone, m_bChanged, history>>

(* One pass of a manager over all its rows; UpdateWeek or UpdateMonth is   *)
(* called for the rows that run.                                           *)
Update(rows) ==
  /\ m_lastRunInfo' = [a \in Row |-> IF a \in rows /\ (Runs(a) \/ Behind(a)) THEN now
                                     ELSE m_lastRunInfo[a]]
  /\ m_bChanged' = (m_bChanged \/ \E a \in rows : Runs(a) \/ Behind(a))
  /\ calls' = [a \in Row |-> IF a \in rows /\ Runs(a) THEN calls[a] + 1 ELSE calls[a]]
  /\ watch' = [a \in Row |-> IF a \in rows THEN Watched(a) ELSE watch[a]]
  /\ UNCHANGED <<now, m_timeZone>>

setEvent(a, lastRun) ==
  /\ m_lastRunInfo' = [m_lastRunInfo EXCEPT ![a] = lastRun]
  /\ m_bChanged' = (m_bChanged \/ ~Registered(a))
  /\ calls' = [calls EXCEPT ![a] = 0] /\ watch' = [watch EXCEPT ![a] = "no"]
  /\ UNCHANGED <<now, m_timeZone>>

(* The owner has saved the times.                                          *)
ClearDataChange ==
  /\ m_bChanged
  /\ m_bChanged' = FALSE
  /\ UNCHANGED <<now, m_timeZone, m_lastRunInfo, history>>

Next ==
  \/ Tick
  \/ \E t \in Clock : SetBack(t)
  \/ \E zone \in TimeZone : setTimeZone(zone)
  \/ Update(WeekRow)
  \/ Update(MonthRow)
  \/ \E a \in Row, t \in Clock : setEvent(a, t)
  \/ ClearDataChange

Spec == Init /\ [][Next]_vars

-----------------------------------------------------------------------------
(* No time is recorded that was not read from the clock or set by an owner.*)
TypeOK ==
  /\ now \in Clock /\ m_timeZone \in TimeZone
  /\ m_lastRunInfo \in [Row -> Clock \cup {Never}]
  /\ m_bChanged \in BOOLEAN
  /\ calls \in [Row -> Nat] /\ watch \in [Row -> {"no", "called", "ran", "due"}]

(* No row is called twice in a period, whatever the gaps between Updates.  *)
OncePerPeriod == \A a \in Row : calls[a] <= 1

(* Whatever weeks Update missed and however late in the week it comes, a   *)
(* weekly row that has run since the clock last jumped has been called for *)
(* the present week, or the next Update calls it, exactly when the row's   *)
(* time has come.                                                          *)
CalledWhenDue ==
  \A a \in WeekRow : watch[a] # "no" =>
    (calls[a] = 1 \/ Runs(a) <=> now >= eventTm(a))

(* In the time zone of the event times, a row that was called at its time  *)
(* and has been updated at every moment since keeps being called at its    *)
(* time in every week or month, also from one year to the next.            *)
StaysOnTime ==
  \A a \in Row : m_timeZone = 0 /\ watch[a] = "ran" =>
    (calls[a] = 1 <=> now >= eventTm(a))
=============================================================================
