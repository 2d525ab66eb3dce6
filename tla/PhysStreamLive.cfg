SPECIFICATION FairSpec
CONSTANTS
  t1 = t1
  t2 = t2
  s1 = s1
  s2 = s2
  host = host
  sink = sink
  None = None
  Threads = {t1, t2}
  Streams = {s1, s2}
  LogStreams = {s1, s2}
  getPhysStream <- OwnStream
  Buffers = {}
  Events = {1, 2, 3}
  DomainBuffers <- SinkBuffers
  Users <- FirstOnly
  WaitUsers <- OwnThread
  AliasedBuffers = {}
  Destroyable = {s2}
  Freeable = {}
  MaxUserEvents = 1
  Policy = "BUFFERS"
  CountWidth = 2
  FiniteTimeOut = FALSE
PROPERTIES EnqueuedActionsRun WaitingCallsReturn ImplementsPromise
