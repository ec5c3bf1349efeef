SPECIFICATION Spec
CONSTANTS
  f1 = f1
  f2 = f2
  e1 = e1
  e2 = e2
  e3 = e3
  b1 = b1
  b2 = b2
  s1 = s1
  s2 = s2
  sKill = sKill
  t1 = t1
  t2 = t2
  t3 = t3
  t4 = t4
  t5 = t5
  t6 = t6
  Fds <- MCFds
  Events <- MCEvents
  Of <- MCOf
  Conditions <- MCConditions
  INITIAL_NEVENT = 1
  MAX_NEVENT = 2
  Signals = {s1, s2, sKill}
  Uncatchable = {sKill}
  Lives <- MCLives
  MAX_PENDING = 2
  PIPE = 2
  Listeners <- MCListeners
  MAX_BACKLOG = 2
  MAX_CALLS = 4
  Timers <- MCTimers
  Schedules <- MCSchedules
  MAX_COMMON_TIMEOUTS = 2
INVARIANTS
  MapAgrees
  HandlersRestored
  SignalsArrive
  ListenerSound
  TimersFire
PROPERTIES
  ImplementsPoller
CHECK_DEADLOCK FALSE
