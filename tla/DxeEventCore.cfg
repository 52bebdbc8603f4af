\* Two members of one event group, at levels 8 and 16, the timer and the idle event.
CONSTANTS
  timer = timer  idle = idle  cb = cb  g1 = g1  g2 = g2  w = w  p = p
  G = G  IdleGroup = IdleGroup  NoGroup = NoGroup  NoEvent = NoEvent
  Event = {timer, idle, g1, g2}
  CheckTimerEvent = timer
  IdleEvent = idle
  NotifyTpl <- MCNotifyTpl
  EventType <- MCEventType
  EventGroup <- MCEventGroup
  TimerEvent = {g1}
  WaitList <- MCWaitNone
  RaiseLevels = {16, 31}
  MaxCalls = 1
  NestedTicks = FALSE
  MaxStack = 20
  ReloadPending = FALSE
  Disciplined = TRUE
SPECIFICATION Spec
INVARIANTS TypeOK TplExclusion LevelsKept QueuesSound SignalNotLost NoStaleEvent
