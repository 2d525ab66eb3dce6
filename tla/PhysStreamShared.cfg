SPECIFICATION Spec
CONSTANTS
  t1 = t1
  t2 = t2
  s1 = s1
  s2 = s2
  host = host
  sink = sink
  None = None
  Threads = {t1, t2}
  Streams = {s1}
  LogStreams = {s1, s2}
  getPhysStream <- OneStream
  Buffers = {host, sink}
  Events = {1, 2, 3}
  DomainBuffers <- SinkBuffers
  Users <- AllThreads
  WaitUsers <- NoThread
  AliasedBuffers = {sink}
  Destroyable = {s1, s2}
  Freeable = {host, sink}
  MaxUserEvents = 0
  Policy = "BUFFERS"
  CountWidth = 3
  FiniteTimeOut = TRUE
INVARIANTS ConflictOrder SyncCoversStreams BufferOutlivesItsActions DestroyedStreamIsQuiet
