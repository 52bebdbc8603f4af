----------------------------- MODULE MCDxeEvent -----------------------------
(***************************************************************************)
(* Instances of DxeEvent for TLC.                                          *)
(***************************************************************************)
EXTENDS DxeEvent

CONSTANTS timer, idle,  \* the events of the core
          cb,           \* a callback-level signal event, with a timer
          g1, g2,       \* two members of one event group, levels 8 and 16
          w, p,         \* a wait event (level 8) and one without function
          G, IdleGroup  \* event groups

MCNotifyTpl ==
  [e \in Event |-> CASE e = timer -> TPL_TIMER
                     [] e \in {idle, g2} -> TPL_NOTIFY
                     [] e \in {cb, g1, w} -> TPL_CALLBACK
                     [] OTHER -> 0]
MCEventType ==
  [e \in Event |-> CASE e = w -> "wait" [] e = p -> "plain"
                     [] OTHER -> "signal"]
MCEventGroup ==
  [e \in Event |-> CASE e \in {g1, g2} -> G [] e = idle -> IdleGroup
                     [] OTHER -> NoGroup]
MCWaitNone == << >>
MCWait == <<w, p>>
=============================================================================
