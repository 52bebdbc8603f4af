\* The application waits for a wait event and a plain timer event.
CONSTANTS
  timer = timer  idle = idle  cb = cb  g1 = g1  g2 = g2  w = w  p = p
  G = G  IdleGroup = IdleGroup  NoGroup = NoGroup  NoEvent = NoEvent
  Event = {timer, idle, w, p}
  CheckTimerEvent = timer
  IdleEvent = idle
  NotifyTpl <- MCNotifyTpl
  EventType <- MCEventType
  EventGroup <- MCEventGroup
  TimerEvent = {p}
  WaitList <- MCWait
  RaiseLevels = {16}
  MaxCalls = 1
  NestedTicks = FALSE
  MaxStack = 20
  ReloadPending = FALSE
  Disciplined = TRUE
SPECIFICATION FairSpec
PROPERTIES QueuedIsNotified WaitNotices
