SPECIFICATION MCSpec
CONSTANTS
  Alarm = {"reset", "gift"}
  timeOffsets <- MCtimeOffsets
  Day = 3
  Hour = 1
  TimeZone = {0, 1}
  Never = Never
  Clock <- MCClock
  WeekRow = {"weekly"}
  MonthRow = {"monthly"}
  eventOffset <- MCeventOffset
  Week = 3
  Elapsed <- MCElapsed
  Days31 = 3
  Dates <- MCDates
INVARIANTS TypeOK AlarmsKept CalendarExact
