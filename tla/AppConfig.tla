----------------------------- MODULE AppConfig -----------------------------
(***************************************************************************)
(* AppConfig::LoadFromIni and PipelineConfig::LoadFromIni: from the entries *)
(* of the INI file to the configuration of the program, or an exception.    *)
(* Every exception ends Run before anything has been acquired, so which of  *)
(* several comes first makes no difference.                                 *)
(***************************************************************************)
EXTENDS IniFile, PatchLayout, FiniteSets

\* sfc::FULL_PAYLOAD: 16 blocks of 512 x 512 pixels of 3 channels.
FullPayload == 16 * 512 * 512 * 3

Key(section, key, default, min, max) ==
  [section |-> section, key |-> key, default |-> default, min |-> min, max |-> max]

\* The keys read with U32, and the range each has to be in.
U32Key ==
  [stripWidth   |-> Key("Source", "StripWidth", 512, 1, 65535),
   stripHeight  |-> Key("Source", "StripHeight", 8192, 1, 2^20),
   channels     |-> Key("Source", "Channels", 3, 1, 3),
   patchHeight  |-> Key("Patches", "PatchHeight", 512, 1, 65535),
   overlap      |-> Key("Patches", "Overlap", 32, 0, 65534),
   count        |-> Key("Patches", "Count", 17, 1, 4096),
   rawFrames    |-> Key("Pipeline", "RawFrames", 3, 1, 256),
   qRawCap      |-> Key("Pipeline", "QueueRawCapacity", 4, 1, 1024),
   qPrepCap     |-> Key("Pipeline", "QueuePrepCapacity", 4, 1, 1024),
   qInfCap      |-> Key("Pipeline", "QueueInfCapacity", 4, 1, 1024),
   prepThreads  |-> Key("Pipeline", "PrepThreads", 1, 1, 64),
   inferThreads |-> Key("Pipeline", "InferenceThreads", 1, 1, 4),
   postThreads  |-> Key("Pipeline", "PostThreads", 1, 1, 64),
   openCvThreads |-> Key("Pipeline", "OpenCvThreads", 0, 0, 64),
   readTimeoutMs |-> Key("Pipeline", "ReadTimeoutMs", 100, 1, 60000),
   slots        |-> Key("Pipeline", "Slots", 0, 0, 1024),
   logMaxChars  |-> Key("Logger", "maxMessageChars", 480, 32, 8192),
   logQueueCap  |-> Key("Logger", "queueCapacity", 4096, 8, 2^20),
   logFlushMs   |-> Key("Logger", "flushIntervalMs", 200, 0, 60000),
   logNotify    |-> Key("Logger", "notifyThreshold", 1024, 0, 2^20),
   metricsWindow |-> Key("Metrics", "WindowDimension", 100, 1, 100000),
   metricsPrintMs |-> Key("Metrics", "PrintEveryMs", 2000, 0, 600000)]

\* The keys read as a flag or as they are.
PlainKey ==
  [mapAtModelRes |-> Key("Output", "MapAtModelResolution", 1, 0, 0),
   drawMask      |-> Key("Output", "DrawMask", 0, 0, 0),
   resizeAntialias |-> Key("Preprocessing", "ResizeAntialias", 1, 0, 0),
   elevateProcess |-> Key("RealTime", "ElevateProcess", 1, 0, 0),
   batchSize     |-> Key("Model", "BatchSize", 1, 0, 0),
   loopBatch1    |-> Key("Model", "LoopBatch1", 0, 0, 0),
   warmupRuns    |-> Key("Model", "WarmupRuns", 10, 0, 0),
   provider      |-> Key("Hardware", "Provider", 1, 0, 0),
   deviceId      |-> Key("Hardware", "DeviceId", 0, 0, 0),
   trtWorkspaceMB |-> Key("Hardware", "TrtWorkspaceMB", 2048, 0, 0),
   builderOptLevel |-> Key("Hardware", "TrtBuilderOptLevel", 3, 0, 0)]

PriorityKey ==
  [ingest |-> Key("RealTime", "IngestPriority", 15, 0, 0),
   infer  |-> Key("RealTime", "InferencePriority", 2, 0, 0),
   prep   |-> Key("RealTime", "PrepPriority", 1, 0, 0),
   post   |-> Key("RealTime", "PostPriority", 0, 0, 0)]

ThreadPriorities == {-15, -2, -1, 0, 1, 2, 15}
LongMin == -2147483647 - 1

LegacyKeys == {"PrepRealtime", "InferenceRealtime", "PostRealtime"}

GetInt(ini, k) == GetLongValue(ini, k.section, k.key, k.default)
-----------------------------------------------------------------------------
MinimumSlots(c) ==
  c.prepThreads + c.qPrepCap + c.inferThreads + c.qInfCap + c.postThreads

\* [Model] Path: the text between its quotes if it has a pair of them.
ModelPath(ini) ==
  LET path == GetValue(ini, "Model", "Path", [quotes |-> 0, name |-> ""])
  IN IF path.quotes = 1 THEN "\"" \o path.name ELSE path.name

\* The values LoadFromIni reads; 0 slots means as few as will do.
Read(ini) ==
  LET u == [f \in DOMAIN U32Key |-> GetInt(ini, U32Key[f])]
  IN [f \in DOMAIN U32Key \cup DOMAIN PlainKey |->
        IF f \in DOMAIN PlainKey THEN GetInt(ini, PlainKey[f])
        ELSE IF f = "slots" /\ u.slots = 0 THEN MinimumSlots(u)
        ELSE u[f]]

\* U32, ThreadPriority and the legacy keys: the exceptions while reading.  A
\* legacy key counts only if its value is a number.
KeysInRange(ini) ==
  /\ \A f \in DOMAIN U32Key :
       GetInt(ini, U32Key[f]) \in U32Key[f].min .. U32Key[f].max
  /\ \A f \in DOMAIN PriorityKey : GetInt(ini, PriorityKey[f]) \in ThreadPriorities
  /\ \A key \in LegacyKeys : GetLongValue(ini, "RealTime", key, LongMin) = LongMin

\* PipelineConfig::LoadFromIni and Validate.
ModelAccepts(ini, c) ==
  /\ c.provider \in 0 .. 2 /\ c.trtWorkspaceMB >= 0
  /\ ModelPath(ini) # ""
  /\ c.batchSize > 0 /\ c.deviceId >= 0
  /\ c.builderOptLevel \in 0 .. 5
  /\ c.provider = 2 => c.trtWorkspaceMB # 0

\* logical is what hardware_concurrency returns, 0 if it does not know.
ValidateCrossConstraints(c, logical) ==
  LET perStage == IF c.openCvThreads = 0 THEN 1 ELSE c.openCvThreads
      demanded == (c.prepThreads + c.postThreads) * perStage + c.inferThreads + 1
  IN /\ c.channels = 3
     /\ LayoutAccepts(c)
     /\ PayloadBytes(c) = FullPayload
     /\ c.qRawCap >= c.rawFrames
     /\ c.rawFrames >= c.prepThreads + 1
     /\ c.slots >= MinimumSlots(c)
     /\ logical > 0 => demanded =< logical

LoadAccepts(ini, logical) ==
  /\ KeysInRange(ini)
  /\ ModelAccepts(ini, Read(ini))
  /\ ValidateCrossConstraints(Read(ini), logical)
=============================================================================
