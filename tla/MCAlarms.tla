------------------------------ MODULE MCAlarms ------------------------------
(***************************************************************************)
(* The three alarm managers of an owner: daily, weekly and monthly.  They  *)
(* share nothing; one of them at a time, the others stay as they began.    *)
(* For TLC: days of three ticks; a row with two times a day, one of them   *)
(* midnight, and a row with one; two midnights.  Weeks of three ticks,     *)
(* years of three months with 3, 2 and 3 ticks; a weekly row in the middle *)
(* of the week and a monthly row one tick into the month; two years and a  *)
(* month, so that a row can pass a whole year without a call.  Two time    *)
(* zones one tick apart.                                                   *)
(***************************************************************************)
EXTENDS DailyAlarm

CONSTANTS WeekRow, MonthRow, eventOffset, Week, Elapsed, Days31,  \* of CalendarAlarm
          Dates                                           \* its bound on the clock

VARIABLES part, date, zone, lastRun, changed, calls, watch

MCtimeOffsets == [a \in Alarm |-> IF a = "reset" THEN <<1>> ELSE <<0, 2>>]
MCClock       == 4 .. 9
MCeventOffset == [a \in {"weekly", "monthly"} |-> 1]
MCElapsed     == <<0, 3, 5, 8>>
MCDates       == 0 .. 18

Calendar == INSTANCE CalendarAlarm WITH
  Clock <- Dates, now <- date, m_timeZone <- zone, m_lastRunInfo <- lastRun, m_bChanged <- changed

ASSUME CalendarAssumption == Calendar!CalendarAssumption

calendarVars == <<date, zone, lastRun, changed, calls, watch>>

MCInit ==
  /\ part \in {"daily", "calendar"}
  /\ Init /\ Calendar!Init
  /\ part # "daily" => now = CHOOSE t \in Clock : TRUE
  /\ part # "calendar" => date = CHOOSE t \in Dates : TRUE

MCNext ==
  /\ UNCHANGED part
  /\ \/ part = "daily" /\ Next /\ UNCHANGED calendarVars
     \/ part = "calendar" /\ Calendar!Next /\ UNCHANGED vars

MCSpec == MCInit /\ [][MCNext]_<<part, vars, calendarVars>>
-----------------------------------------------------------------------------
(* Weekly and monthly rows are called when their time has come and once in *)
(* their period, through clocks that are set back and Updates that are     *)
(* missed.                                                                 *)
CalendarExact ==
  Calendar!TypeOK /\ Calendar!OncePerPeriod /\ Calendar!CalledWhenDue /\ Calendar!StaysOnTime
=============================================================================
