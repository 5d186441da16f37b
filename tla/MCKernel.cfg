CONSTANTS
  Threads = {idle, t1, t2, t3}
  Idle = idle
  t1 = t1
  t2 = t2
  t3 = t3
  m1 = m1
  m2 = m2
  Priorities = {1, 2}
  Queues = {q1}
  Msgs = {m1, m2}
  MsgCount = 2
  NoMsg = NoMsg
  NoCall = NoCall
  NoQueue = NoQueue
SYMMETRY Symmetry
CONSTRAINT FewDestroyed
SPECIFICATION Spec
INVARIANTS TypeOK InOneSortedQueue HighestRuns SleepsForItsCall NoLostWakeup
PROPERTIES FirstComeFirstServed MailboxSpec
