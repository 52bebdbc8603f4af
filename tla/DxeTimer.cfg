\* Two timers, ticks of one or two units, delays 0 and 2, periods 1 and 2, no wrap-around;
\* liveness too, so no symmetry.
SPECIFICATION FairSpec
CONSTANTS
  e1 = e1
  e2 = e2
  Event = {e1, e2}
  NoEvent = NoEvent
  TriggerTimes = {0, 2}
  Durations = {1, 2}
  TimerPeriod = 1
  TIME = 100
  MaxTime = 3
INVARIANTS TimerListOK NotEarly
PROPERTIES ExpiredIsTaken CheckTimersEnds
