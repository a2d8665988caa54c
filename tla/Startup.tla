------------------------------ MODULE Startup ------------------------------
(***************************************************************************)
(* Run (textile_inference_gpu.cpp) as a sequence of constructors that each  *)
(* may throw, the keyboard loop as one state, and the destructors in        *)
(* reverse order of declaration.                                            *)
(*                                                                         *)
(* A resource is a CUDA allocation, an operating-system handle, a thread,   *)
(* or an object that others hold a reference to: `of` and `nr` name the     *)
(* object that acquires it, `what` and `k` the resource.  A step of the     *)
(* construction asks for one resource or only checks something, and any     *)
(* step may throw.  The ingest thread comes and goes within "running": it   *)
(* is the subject of Pipeline and IngestController.                         *)
(***************************************************************************)
EXTENDS AppConfig

CONSTANTS Files,    \* the INI files to start with
          Logical,  \* what hardware_concurrency may return
          Models    \* the ONNX models there may be at [Model] Path

\* A file is a sequence of lines, so the name between the brackets of a header
\* contains no line break, and no header is one FindEntry opens without a bracket.
ASSUME FilesAssumption ==
  \A f \in Files : /\ f \in Seq(ToSet(f))
                   /\ \A i \in DOMAIN f : f[i].kind = "section" => f[i].name # Garbage

VARIABLES
  pc,       \* "load", "configure", "build", "running", "unwind", "gone"
  file,     \* the INI file, until it has been read
  ini,      \* its entries, until the configuration has been built
  cfg,      \* the configuration
  model,    \* the ONNX model
  todo,     \* the steps of the construction still to be made
  built,    \* the objects whose destructor will run, the newest first
  held,     \* the resources the system has granted and not got back
  cleanup   \* what the handler and the destructors have still to release, in order

vars == <<pc, file, ini, cfg, model, todo, built, held, cleanup>>

\* Steps: "ask" for a resource, "request" one whose refusal is only logged, "check"
\* something, "fail" a check that cannot succeed, "complete" the object.
Step1(kind, of, nr, what, k) ==
  <<[kind |-> kind, of |-> of, nr |-> nr, what |-> what, k |-> k]>>

Ask(of, nr, what, k) == Step1("ask", of, nr, what, k)
Check(of, nr, ok)    == Step1(IF ok THEN "check" ELSE "fail", of, nr, "", 0)
Complete(of, nr)     == Step1("complete", of, nr, "", 0)
Whole(of, what)      == Ask(of, 0, what, 0) \o Complete(of, 0)

Granted(step) == [of |-> step.of, nr |-> step.nr, what |-> step.what, k |-> step.k]
Object(step)  == [of |-> step.of, nr |-> step.nr]

Each(n, Steps(_)) == FlattenSeq([k \in 1 .. n |-> Steps(k)])
When(c, steps)    == IF c THEN steps ELSE <<>>
-----------------------------------------------------------------------------
(* A definition named Bug... is a plausible mistake in the one that follows  *)
(* it; it shows that a property would notice, and nothing else uses it.     *)

\* ReadModelGeometry: a dynamic batch (0) is replaced by the configured one.
BatchOf(c, m) == IF m.batch > 0 THEN m.batch ELSE c.batchSize

\* ContractMetadata::Load: all four calibration values, readable and in order.
ContractLoads(m) == /\ {"min", "max", "threshold", "pixelThreshold"} \subseteq m.metadata
                    /\ "malformed" \notin m.metadata /\ "inverted" \notin m.metadata

\* ReadModelGeometry: one input with fixed channels, height and width, and a
\* score and a map among one or two outputs, told apart by their rank.
GeometryLoads(c, m) ==
  /\ m.inputs = 1
  /\ BatchOf(c, m) > 0 /\ m.channels > 0 /\ m.height > 0 /\ m.width > 0
  /\ Len(m.outputs) =< 2 /\ {"score", "map"} \subseteq ToSet(m.outputs)

Native(c, m) == m.height = c.patchHeight /\ m.width = c.stripWidth
Half(c, m)   == 2 * m.height = c.patchHeight /\ 2 * m.width = c.stripWidth

BugCrossChecks(c, m) == /\ m.channels = c.channels
                        /\ Native(c, m) \/ Half(c, m)

\* The checks of Run between the sessions and SlotStore.
CrossChecks(c, m) == /\ m.channels = c.channels
                     /\ BatchOf(c, m) = c.count
                     /\ Native(c, m) \/ Half(c, m)

\* RealTimeScope: neither the priority class nor the timer has to be granted, and
\* a class that cannot be restored is not held.
RealTimeScope == Step1("request", "rtScope", 0, "class", 0)
                   \o Step1("request", "rtScope", 0, "timer", 0) \o Complete("rtScope", 0)

RawFrameStore(c) ==
  Each(c.rawFrames, LAMBDA k : Ask("rawStore", 0, "strip", k)
                                 \o Ask("rawStore", 0, "patches", k))
    \o Complete("rawStore", 0)

\* The full-batch binding is made by BuildTensors, the other by each run.
OrtSessionConfig(c, m, i) ==
  Check("session", i, c.provider # 0)
    \o Ask("session", i, "stream", 0)
    \o Ask("session", i, "session", 0) \o Ask("session", i, "binding", 0)
    \o Check("session", i, ContractLoads(m)) \o Check("session", i, GeometryLoads(c, m))
    \o Each(4, LAMBDA k : Ask("session", i, "event", k))
    \o Ask("session", i, "device", 1) \o Ask("session", i, "device", 2)
    \o Ask("session", i, "device", 3)
    \o Ask("session", i, "tensors", 0)
    \o When(c.loopBatch1 = 0, Ask("session", i, "bound", 0))
    \o Complete("session", i)

SlotStore(c) ==
  Each(c.slots, LAMBDA k : Ask("slotStore", 0, "pinned", 3 * k - 2)
                             \o Ask("slotStore", 0, "pinned", 3 * k - 1)
                             \o Ask("slotStore", 0, "pinned", 3 * k)
                             \o Ask("slotStore", 0, "host", 2 * k - 1)
                             \o When(c.drawMask # 0, Ask("slotStore", 0, "host", 2 * k)))
    \o Complete("slotStore", 0)

MmfFrameSource ==
  Ask("source", 0, "mapping", 0) \o Ask("source", 0, "view", 0)
    \o Check("source", 0, TRUE) \o Ask("source", 0, "event", 0)
    \o Complete("source", 0)

Warmup(c, i) ==
  IF c.warmupRuns =< 0 THEN <<>>
  ELSE When(c.loopBatch1 # 0, Ask("session", i, "bound", 0)) \o Check("session", i, TRUE)

\* ConsoleKeys: the console is checked, then its mode is changed.
ConsoleKeys == Check("keys", 0, TRUE) \o Whole("keys", "mode")

\* The logger and the workers are complete before they get their threads.
Run(c, m) ==
  Complete("logger", 0) \o Ask("logger", 0, "thread", 0)
    \o When(c.elevateProcess # 0, RealTimeScope)
    \o Check("run", 0, TRUE)                                 \* cudaSetDevice
    \o RawFrameStore(c) \o Whole("qRaw", "object") \o Whole("env", "env")
    \o Each(c.inferThreads, LAMBDA i : OrtSessionConfig(c, m, i))
    \o Check("run", 0, CrossChecks(c, m))
    \o SlotStore(c) \o Whole("qPrep", "object") \o Whole("qInf", "object")
    \o Whole("metrics", "object") \o Whole("sink", "object")
    \o MmfFrameSource
    \o Each(c.inferThreads, LAMBDA i : Warmup(c, i))
    \o ConsoleKeys
    \o Complete("workers", 0)
    \o Each(c.prepThreads, LAMBDA k : Ask("workers", 0, "prep", k))
    \o Each(c.inferThreads, LAMBDA k : Ask("workers", 0, "infer", k))
    \o Each(c.postThreads, LAMBDA k : Ask("workers", 0, "post", k))
-----------------------------------------------------------------------------
(* The way back.                                                           *)

\* The device buffers go before the tensors that point into them.
BugCleanup == <<"bound", "device", "tensors", "event", "stream">>

\* OrtSessionConfig::Cleanup
Cleanup == <<"bound", "tensors", "device", "event", "stream">>

\* What the destructor of an object releases, in order, its members included.
Destructor(of) ==
  CASE of = "session"   -> Cleanup \o <<"binding", "session">>
    [] of = "rawStore"  -> <<"patches", "strip">>
    [] of = "slotStore" -> <<"pinned", "host">>
    [] of = "source"    -> <<"event", "view", "mapping">>
    [] of = "workers"   -> <<"prep", "infer", "post">>
    [] of = "rtScope"   -> <<"class", "timer">>
    [] of = "logger"    -> <<"thread">>
    [] of = "keys"      -> <<"mode">>
    [] of = "env"       -> <<"env">>
    [] OTHER            -> <<"object">>

\* The handler of CreateFileMapping is copied to the later steps.
BugRollback(of) == IF of = "source" THEN <<"mapping">> ELSE Destructor(of)

\* What an unfinished object releases before its exception leaves the constructor:
\* the stores and the session clean up as their destructors do, MmfFrameSource
\* spells out at each step what it has got so far.
Rollback(of) == IF of = "source" THEN <<"view", "mapping">> ELSE Destructor(of)

Names(object, what) ==
  [i \in DOMAIN what |-> [of |-> object.of, nr |-> object.nr, what |-> what[i]]]

Destructors == FlattenSeq([i \in DOMAIN built |-> Names(built[i], Destructor(built[i].of))])
-----------------------------------------------------------------------------
Init == /\ pc = "load" /\ file \in Files
        /\ ini = [k \in {} |-> 0] /\ cfg = <<>> /\ model = <<>>
        /\ todo = <<>> /\ built = <<>> /\ held = {} /\ cleanup = <<>>

Leave == pc' = "gone" /\ ini' = [k \in {} |-> 0]

Load == /\ pc = "load"
        /\ pc' = "configure" /\ ini' = LoadData(file)
        /\ UNCHANGED <<file, cfg, model, todo, built, held, cleanup>>

\* The file does not exist or cannot be decoded.
LoadFails == /\ pc = "load"
             /\ Leave /\ file' = <<>>
             /\ UNCHANGED <<cfg, model, todo, built, held, cleanup>>

Configure ==
  /\ pc = "configure"
  /\ file' = <<>>
  /\ \E logical \in Logical :
       IF LoadAccepts(ini, logical)
       THEN /\ cfg' = Read(ini) /\ model' \in Models
            /\ todo' = Run(cfg', model')
            /\ pc' = "build" /\ ini' = [k \in {} |-> 0]
       ELSE Leave /\ UNCHANGED <<cfg, model, todo>>
  /\ UNCHANGED <<built, held, cleanup>>

Advance(granted) ==
  LET step == Head(todo)
  IN /\ held' = held \cup granted
     /\ built' = IF step.kind = "complete" THEN <<Object(step)>> \o built ELSE built
     /\ todo' = Tail(todo)
     /\ pc' = IF todo' = <<>> THEN "running" ELSE "build"
     /\ UNCHANGED <<file, ini, cfg, model, cleanup>>

Build == /\ pc = "build" /\ Head(todo).kind # "fail"
         /\ Advance(IF Head(todo).what = "" THEN {} ELSE {Granted(Head(todo))})

NotGranted == pc = "build" /\ Head(todo).kind = "request" /\ Advance({})

\* An exception: the handler of the unfinished object, if it has one, then the
\* destructors of the finished ones.
Throw ==
  /\ pc = "build" /\ Head(todo).kind \in {"ask", "check", "fail"}
  /\ LET object == Object(Head(todo))
     IN cleanup' = When(object \notin ToSet(built), Names(object, Rollback(object.of)))
                     \o Destructors
  /\ pc' = "unwind" /\ todo' = <<>>
  /\ UNCHANGED <<file, ini, cfg, model, built, held>>

\* 'q': Drain joins the stage threads in order, then Run returns.
Quit == /\ pc = "running"
        /\ pc' = "unwind" /\ cleanup' = Destructors
        /\ UNCHANGED <<file, ini, cfg, model, todo, built, held>>

Release ==
  /\ pc = "unwind"
  /\ IF cleanup = <<>> THEN Leave /\ UNCHANGED <<held, cleanup>>
     ELSE LET c == Head(cleanup)
          IN /\ held' = {r \in held : ~(r.of = c.of /\ r.nr = c.nr /\ r.what = c.what)}
             /\ cleanup' = Tail(cleanup)
             /\ UNCHANGED <<pc, ini>>
  /\ UNCHANGED <<file, cfg, model, todo, built>>

Next == Load \/ LoadFails \/ Configure \/ Build \/ NotGranted \/ Throw \/ Quit \/ Release

Spec == Init /\ [][Next]_vars
-----------------------------------------------------------------------------
\* The nearest header above a line, of the kinds that count as one.
Above(i, kinds) == LET above == {j \in 1 .. i - 1 : file[j].kind \in kinds}
                   IN IF above = {} THEN [kind |-> "section", name |-> ""]
                      ELSE file[Max(above)]

Header(i) == Above(i, {"section", "unclosed"})

Says(i, section, key) == /\ file[i].kind = "entry" /\ file[i].key = key
                         /\ Header(i).kind = "section" /\ Header(i).name = section

\* What stands below a broken header is the subject of InvalidLineIsSkipped.
Disputed(key) == \E j \in DOMAIN file : /\ file[j].kind = "entry" /\ file[j].key = key
                                        /\ Header(j).kind = "unclosed"

\* What the parser finds is what the file says: the last value given to a key
\* below the nearest header above it, unless the key is also given one below a
\* broken header (SimpleIni.h:1475-1797; a wrong entry would silently become a
\* default).
LastAssignmentWins ==
  pc = "configure" =>
    \A i \in DOMAIN file :
      file[i].kind = "entry" /\ file[i].key # "" /\ ~Disputed(file[i].key)
        /\ Header(i).kind = "section" =>
        LET section == Header(i).name
            key == file[i].key
        IN GetValue(ini, section, key, <<>>)
             = file[Max({j \in DOMAIN file : Says(j, section, key)})].text

\* SimpleIni.h:1689, of a header without its bracket: "if it's an invalid line,
\* just skip it", so the keys below belong to the section that was open before.
InvalidLineIsSkipped ==
  pc = "configure" =>
    \A i \in DOMAIN file :
      LET section == Above(i, {"section"}).name
          key == file[i].key
          same == {j \in DOMAIN file : /\ file[j].kind = "entry" /\ file[j].key = key
                                       /\ Above(j, {"section"}).name = section}
      IN file[i].kind = "entry" /\ key # "" =>
           GetValue(ini, section, key, <<>>) = file[Max(same)].text

\* The threads run only on sizes that fit each other: the patches tile the strip
\* of the contract, every patch of a slot is filled and scored (min(batch, count)
\* of Stages.cpp:412 leaves none out), the resize is one PrepStage knows, and the
\* numbers are those under which Pipeline never waits for a slot.
RunsOnlyIfEverythingFits ==
  pc = "running" =>
    /\ PatchesTileStrip(cfg) /\ PayloadBytes(cfg) = FullPayload
    /\ BatchOf(cfg, model) = cfg.count
    /\ \E scale \in {1, 2} : /\ scale * model.height = cfg.patchHeight
                             /\ scale * model.width = cfg.stripWidth
    /\ model.channels = cfg.channels
    /\ cfg.slots >= cfg.prepThreads + cfg.qPrepCap + cfg.inferThreads
                      + cfg.qInfCap + cfg.postThreads
    /\ cfg.qRawCap >= cfg.rawFrames /\ cfg.rawFrames > cfg.prepThreads

\* Whichever step throws, Run gives back all it has acquired: pinned memory,
\* streams, events, handles, the console mode and the priority class
\* (the handlers at RawFrame.cpp:54, OrtSession.cpp:163, PipelineSlot.cpp:106 and
\* MmfFrameSource.cpp:38-68).
AllReleased == pc = "gone" => held = {}

\* The provider options of a session name its stream, and the binding is one of that
\* session (OrtSession.cpp:76, 86, 147-148).
GivenStream(r, s) == /\ r.of = "session" /\ r.what \in {"session", "binding"}
                     /\ s.of = "session" /\ s.what = "stream" /\ r.nr = s.nr

\* r refers to s.  StageWorkers holds the queues and pools for Abort; the threads get
\* the metrics, the first session as proto or their own, and post the sink
\* (textile_inference_gpu.cpp:186-207).
Refers(r, s) ==
  \/ s.of = "logger" /\ r.of # "logger"        \* every destructor may log
  \/ r.what = "patches" /\ s.what = "strip" /\ r.k = s.k
  \/ /\ r.of = "session" /\ s.of = "session" /\ r.nr = s.nr
     /\ \/ r.what = "tensors" /\ s.what = "device"
        \/ r.what = "bound" /\ s.what \in {"tensors", "binding"}
        \/ r.what = "binding" /\ s.what = "session"
  \/ GivenStream(r, s)
  \/ r.what = "session" /\ s.of = "env"
  \/ r.of = "source" /\ s.of \in {"rawStore", "qRaw"}
  \/ r.of = "workers" /\ s.of \in {"rawStore", "qRaw", "slotStore", "qPrep", "qInf", "metrics"}
  \/ r.what \in {"prep", "post"} /\ s.of = "session" /\ s.nr = 1
  \/ r.what = "infer" /\ s.of = "session" /\ s.nr = r.k
  \/ r.what = "post" /\ s.of = "sink"

Acquired == held' \ held
Released == held \ held'
Kept     == held \cap held'

\* Nothing is acquired that something already there refers to, and nothing released
\* that something still there refers to, with one exception: Cleanup destroys the
\* stream of a session before the session and its binding, though not before the
\* infer thread that runs on it has ended (OrtSession.cpp:180-204, RawFrame.cpp:70,
\* textile_inference_gpu.cpp:61, 155-167, 179-181).
NoDangling ==
  [][/\ \A s \in Acquired, r \in Kept : ~Refers(r, s)
     /\ \A s \in Released, r \in Kept : Refers(r, s) => GivenStream(r, s)]_vars
=============================================================================
