---------------------------- MODULE MCPublicApi ----------------------------
(* Instances of PublicApi: functions that differ in their locks or in how  *)
(* they are counted, and the app API's shortcut.                           *)
EXTENDS PublicApi

CONSTANTS c1, c2

MCFunctions ==
  {hStreams_RmLogDomains, hStreams_StreamCreate,
   hStreams_EnqueueCompute, hStreams_AddBufferLogDomains,
   hStreams_GetCurrentOptions, hStreams_GetLastError,
   hStreams_SetLibrariesToLoad,
   hStreams_app_event_wait}

MCAppFunctions == {hStreams_app_memset, hStreams_app_invoke}

CallsOf(functions) == {f.does : f \in functions} \ {NoCall}
MCCalls == CallsOf(MCFunctions)
MCAppCalls == CallsOf(MCAppFunctions)
=============================================================================
