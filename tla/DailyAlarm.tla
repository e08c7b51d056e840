----------------------------- MODULE DailyAlarm -----------------------------
(***************************************************************************)
(* DailyUpdateMgr and its base AlarmBase (srv_common/dailyUpdateMgr.cpp):  *)
(* events that are due at given times of every day.  The owner calls       *)
(* Update now and then; Update tells it how many times each event came due *)
(* since it last ran, and keeps the time of that run.  The times are saved *)
(* with the owner's data when the manager says that they changed, and read *)
(* back at a restart.                                                      *)
(*                                                                         *)
(* Time is counted in ticks.  The calendar functions nd_time_* belong to   *)
(* a library and are modelled by what the code uses them for.              *)
(***************************************************************************)
EXTENDS Integers, Sequences, FiniteSets

CONSTANTS
  Alarm,         \* the rows of s_global_updateCfgInfo
  timeOffsets,   \* the times of day of each row
  Day, Hour,     \* 24 * 3600 and 3600
  TimeZone,      \* the time zones explored
  Never,         \* no dailyEventInfo for this row yet
  Clock          \* a bound: the readings of the clock

ASSUME AlarmAssumption ==
  /\ Day \in Nat \ {0} /\ Hour \in Nat
  /\ TimeZone \subseteq Int /\ 0 \in TimeZone
  /\ Clock \subseteq Int /\ Clock # {} /\ Never \notin Int
  /\ timeOffsets \in [Alarm -> Seq(0 .. Day - 1)]
  /\ \A a \in Alarm : timeOffsets[a] # <<>>

VARIABLES
  now,           \* app_inst_time
  m_timeZone,
  m_lastRunInfo, \* the lastRunTm of each row
  m_bChanged,
  saved,         \* what toStream wrote last, and the history that belongs to it
  owed,          \* history: how often each row came due since the owner was told
  steady,        \* history: the clock did not jump since the row was run
  forced         \* history: setEvent moved a row since the last save

time == <<now, m_timeZone>>
vars == <<time, m_lastRunInfo, m_bChanged, saved, owed, steady, forced>>

Local(t) == t + m_timeZone * Hour

(* The number of midnights between two times, and the time of day offset   *)
(* on the day of t.                                                        *)
nd_time_day_interval_ex(to, from) == Local(to) \div Day - Local(from) \div Day
nd_time_from_offset(offset, t) == (t - (Local(t) % Day)) + offset

Number(a) == Len(timeOffsets[a])

(* The times of the row on the day of at, and before them yesterday's last.*)
clock_seconds(a, at) ==
  [i \in 0 .. Number(a) |->
     IF i = 0 THEN nd_time_from_offset(timeOffsets[a][Number(a)], at) - Day
              ELSE nd_time_from_offset(timeOffsets[a][i], at)]

(* Mutation of Index: a time that is reached exactly does not count.       *)
Index_strict(a, at, t) ==
  Cardinality({i \in 0 .. Number(a) : t > clock_seconds(a, at)[i]}) - 1

(* lastIndex and nowtimeIndex.                                             *)
Index(a, at, t) ==
  Cardinality({i \in 0 .. Number(a) : t >= clock_seconds(a, at)[i]}) - 1

(* Mutation of renewTimes: the days in between are not moved over.         *)
renewTimes_unmoved(a, at, last) ==
  LET days == nd_time_day_interval_ex(at, last)
  IN (IF days > 0 THEN days * Number(a) ELSE 0) + Index(a, at, at) - Index(a, at, last)

renewTimes(a, at, last) ==
  LET days  == nd_time_day_interval_ex(at, last)
      moved == IF days > 0 THEN last + days * Day ELSE last
  IN (IF days > 0 THEN days * Number(a) ELSE 0) + Index(a, at, at) - Index(a, at, moved)

Registered(a) == m_lastRunInfo[a] # Never

(* The clock was set back behind the last run.                             *)
Behind(a) == Registered(a) /\ m_lastRunInfo[a] > now

(* What _UpdateNode finds; a row that never ran counts from a day ago.     *)
Times(a) == IF ~Registered(a) THEN renewTimes(a, now, now - Day)
            ELSE IF Behind(a) THEN 0
            ELSE renewTimes(a, now, m_lastRunInfo[a])

Runs(a) == Times(a) > 0

-----------------------------------------------------------------------------
Unsaved == [run |-> [a \in Alarm |-> Never], owed |-> [a \in Alarm |-> 0],
            steady |-> [a \in Alarm |-> FALSE]]

Init ==
  /\ now \in Clock /\ m_timeZone = 0
  /\ m_lastRunInfo = Unsaved.run /\ m_bChanged = FALSE
  /\ saved = Unsaved
  /\ owed = Unsaved.owed /\ steady = Unsaved.steady /\ forced = FALSE

(* How many entries of the row are for the time of day of t.               *)
DueAt(a, t) ==
  Cardinality({i \in 1 .. Number(a) : timeOffsets[a][i] = Local(t) % Day})

(* Both the owner and the owner's saved data are owed it.                  *)
Tick ==
  /\ now + 1 \in Clock
  /\ now' = now + 1
  /\ owed' = [a \in Alarm |-> IF steady[a] THEN owed[a] + DueAt(a, now + 1) ELSE 0]
  /\ saved' = [run |-> saved.run, steady |-> saved.steady,
       owed |-> [a \in Alarm |->
                   IF saved.steady[a] THEN saved.owed[a] + DueAt(a, now + 1) ELSE 0]]
  /\ UNCHANGED <<m_timeZone, m_lastRunInfo, m_bChanged, steady, forced>>

Forget ==
  /\ steady' = Unsaved.steady /\ owed' = Unsaved.owed
  /\ saved' = [Unsaved EXCEPT !.run = saved.run]

(* The operator sets the clock back.                                       *)
SetBack(t) ==
  /\ t < now
  /\ now' = t
  /\ Forget
  /\ UNCHANGED <<m_timeZone, m_lastRunInfo, m_bChanged, forced>>

setTimeZone(zone) ==
  /\ zone # m_timeZone
  /\ m_timeZone' = zone
  /\ Forget
  /\ UNCHANGED <<now, m_lastRunInfo, m_bChanged, forced>>

(* Mutation of Update: the correction of a time in the future is not       *)
(* marked as a change.                                                     *)
Update_unmarked ==
  /\ m_lastRunInfo' = [a \in Alarm |-> IF Runs(a) \/ Behind(a) THEN now
                                       ELSE m_lastRunInfo[a]]
  /\ m_bChanged' = (m_bChanged \/ \E a \in Alarm : Runs(a))
  /\ owed' = [a \in Alarm |-> IF steady[a] THEN owed[a] - Times(a) ELSE 0]
  /\ steady' = [a \in Alarm |-> steady[a] \/ Runs(a) \/ Behind(a)]
  /\ UNCHANGED <<time, saved, forced>>

(* One pass over all rows.  UpdateDaily(Times(a)) is called for the rows   *)
(* that run.                                                               *)
Update ==
  /\ m_lastRunInfo' = [a \in Alarm |-> IF Runs(a) \/ Behind(a) THEN now
                                       ELSE m_lastRunInfo[a]]
  /\ m_bChanged' = (m_bChanged \/ \E a \in Alarm : Runs(a) \/ Behind(a))
  /\ owed' = [a \in Alarm |-> IF steady[a] THEN owed[a] - Times(a) ELSE 0]
  /\ steady' = [a \in Alarm |-> steady[a] \/ Runs(a) \/ Behind(a)]
  /\ UNCHANGED <<time, saved, forced>>

(* Add marks a change only for a row that it adds.                         *)
setEvent(a, lastRun) ==
  /\ m_lastRunInfo' = [m_lastRunInfo EXCEPT ![a] = lastRun]
  /\ m_bChanged' = (m_bChanged \/ ~Registered(a))
  /\ steady' = [steady EXCEPT ![a] = FALSE] /\ owed' = [owed EXCEPT ![a] = 0]
  /\ forced' = (forced \/ Registered(a))
  /\ UNCHANGED <<time, saved>>

(* The owner saves what checkDataChange reports, with its own data.        *)
toStream ==
  /\ m_bChanged
  /\ saved' = [run |-> m_lastRunInfo, owed |-> owed, steady |-> steady]
  /\ m_bChanged' = FALSE /\ forced' = FALSE
  /\ UNCHANGED <<time, m_lastRunInfo, owed, steady>>

(* A new manager reads what was saved, through Add.                        *)
Restart ==
  /\ m_lastRunInfo' = saved.run /\ owed' = saved.owed /\ steady' = saved.steady
  /\ m_bChanged' = (\E a \in Alarm : saved.run[a] # Never)
  /\ forced' = FALSE
  /\ UNCHANGED <<time, saved>>

Next ==
  \/ Tick
  \/ \E t \in Clock : SetBack(t)
  \/ \E zone \in TimeZone : setTimeZone(zone)
  \/ Update
  \/ \E a \in Alarm, t \in Clock : setEvent(a, t)
  \/ toStream \/ Restart

Spec == Init /\ [][Next]_vars

-----------------------------------------------------------------------------
TypeOK ==
  /\ now \in Int /\ m_timeZone \in TimeZone
  /\ m_lastRunInfo \in [Alarm -> Int \cup {Never}]
  /\ m_bChanged \in BOOLEAN /\ forced \in BOOLEAN
  /\ saved \in [run : [Alarm -> Int \cup {Never}], owed : [Alarm -> Nat],
                steady : [Alarm -> BOOLEAN]]
  /\ owed \in [Alarm -> Nat]
  /\ steady \in [Alarm -> BOOLEAN]

(* After every Update the owner has been told of each time a row came due, *)
(* exactly once, however many days and restarts lie between two calls.     *)
EveryTimeOnce ==
  [][Update => \A a \in Alarm : steady'[a] => owed'[a] = 0]_vars

(* What the next Update will report is what came due since.                *)
Pending(a) == steady[a] =>
  /\ Registered(a) /\ ~Behind(a)
  /\ owed[a] = renewTimes(a, now, m_lastRunInfo[a])
NothingLost == \A a \in Alarm : Pending(a)

(* A row that never ran is run with the times of one full day.             *)
FirstDay == \A a \in Alarm : renewTimes(a, now, now - Day) = Number(a)

(* As long as setEvent did not move a row, a manager that reports no       *)
(* change holds what was saved: a restart then changes nothing.            *)
CleanIsSaved == ~m_bChanged /\ ~forced => m_lastRunInfo = saved.run
(* Neither an Update nor a restart loses or repeats a time: the pending    *)
(* ones are those that came due, and what is not saved is reported.        *)
AlarmsKept == NothingLost /\ CleanIsSaved
=============================================================================
