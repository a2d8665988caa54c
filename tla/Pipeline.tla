------------------------------ MODULE Pipeline ------------------------------
(***************************************************************************)
(* The threads of the inference pipeline and the ring buffers that connect  *)
(* them: the ingest thread, the prep, infer and post threads (Stages.cpp),  *)
(* StageWorkers and the main thread (textile_inference_gpu.cpp).            *)
(*                                                                         *)
(*   rawPool -> ingest -> qRaw -> prep -> qPrep -> infer -> qInf -> post    *)
(*      ^___________________________|                                       *)
(*              slotPool -> prep ... (qPrep, infer, qInf) ... post -> slotPool*)
(*                                                                         *)
(* A ring buffer is the closable channel of BoundedChannel: one call is one *)
(* step.  Raw frames and slots are numbers, a frame's pixels are the        *)
(* sequence number of the batch read into it, and each step of a worker     *)
(* takes the code from one queue operation to the next.                     *)
(***************************************************************************)
EXTENDS Integers, Sequences, FiniteSets

CONSTANTS Prep, Infer, Post,             \* the stage threads
          NumFrames, NumSlots,           \* rawFrames_, slots_
          QRawCap, QPrepCap, QInfCap,    \* queue capacities
          MaxSeq                         \* bound: frames the producer offers

\* AppConfig::MinimumSlots
MinimumSlots == Cardinality(Prep) + QPrepCap + Cardinality(Infer) + QInfCap
                  + Cardinality(Post)

Worker == Prep \cup Infer \cup Post

\* Every stage has a thread: LoadFromIni accepts 1 to 64 prep and post threads
\* and 1 to 4 infer threads (AppConfig.cpp:78-80).
ASSUME ThreadAssumption ==
  /\ IsFiniteSet(Prep) /\ IsFiniteSet(Infer) /\ IsFiniteSet(Post)
  /\ Prep # {} /\ Infer # {} /\ Post # {}
  /\ Prep \cap Infer = {} /\ Prep \cap Post = {} /\ Infer \cap Post = {}

\* The ranges LoadFromIni accepts, every queue being at least one place long.
ASSUME SizeAssumption ==
  /\ NumFrames \in Nat \ {0} /\ NumSlots \in Nat \ {0} /\ MaxSeq \in Nat
  /\ QRawCap \in Nat \ {0} /\ QPrepCap \in Nat \ {0} /\ QInfCap \in Nat \ {0}

\* AppConfig::ValidateCrossConstraints: the three checks on the sizes.
ASSUME CrossConstraints ==
  /\ QRawCap >= NumFrames
  /\ NumFrames >= Cardinality(Prep) + 1
  /\ NumSlots >= MinimumSlots

VARIABLES
  q,          \* channel -> the frames or slots queued in it, oldest first
  stopped,    \* channel -> stop() has been called on it
  pc,         \* where each stage thread is
  frame,      \* the local variable `raw` of a prep thread, 0 when it has none
  slot,       \* the local variable `slot` of a stage thread, 0 when none
  strip,      \* frame -> the batch whose pixels it holds (raw->seq with it)
  input,      \* slot -> the batch prep filled it from (slot->seq with it)
  result,     \* slot -> the batch its scores and maps were computed from
  ingest,     \* where the ingest thread is in ReadFrame
  inFrame,    \* the local variable `raw` of ReadFrame
  srcStopped, \* MmfFrameSource::stopped_
  framesRead, \* framesRead_, and seq_, which always has the same value
  sunk,       \* the batches handed to IResultSink::Publish, in order
  failed,     \* the batches InferStage has given up
  completed,  \* PerformanceMetrics::completedBatches
  main        \* where the main thread is in Run

frames  == <<frame, strip>>
slots   == <<slot, input, result>>
source  == <<ingest, inFrame, srcStopped, framesRead>>
outcome == <<sunk, failed, completed>>
vars == <<q, stopped, pc, frame, slot, strip, input, result, ingest, inFrame,
          srcStopped, framesRead, sunk, failed, completed, main>>

Frame   == 1 .. NumFrames
Slot    == 1 .. NumSlots
Batch   == 1 .. MaxSeq
Channel == {"rawPool", "qRaw", "slotPool", "qPrep", "qInf"}

Cap == [c \in Channel |-> CASE c = "rawPool"  -> NumFrames
                            [] c = "qRaw"     -> QRawCap
                            [] c = "slotPool" -> NumSlots
                            [] c = "qPrep"    -> QPrepCap
                            [] c = "qInf"     -> QInfCap]
-----------------------------------------------------------------------------
(* A definition named Bug... is a plausible mistake in the one that follows  *)
(* it; it shows that a property would notice, and nothing else uses it.     *)

(* The channel operations.                                                 *)

CanPush(c) == ~stopped[c] /\ Len(q[c]) < Cap[c]

BugPushInFront(c, x) == q' = [q EXCEPT ![c] = <<x>> \o @]

PushTo(c, x) == q' = [q EXCEPT ![c] = Append(@, x)]

\* try_push whose result the caller ignores: a refused item is let go.
TryPush(c, x) == IF CanPush(c) THEN PushTo(c, x) ELSE UNCHANGED q

CanPop(c) == q[c] # <<>>

PopFrom(c) == q' = [q EXCEPT ![c] = Tail(@)]

BugPopRefusedEarly(c) == stopped[c]

\* pop returns false: stopped and empty.
PopRefused(c) == stopped[c] /\ q[c] = <<>>

GoTo(w, l) == pc' = [pc EXCEPT ![w] = l]
-----------------------------------------------------------------------------
(* RawFrameStore and SlotStore have filled their pools; no thread exists.  *)

Init == /\ q = [c \in Channel |->
                  CASE c = "rawPool"  -> [i \in Frame |-> i]
                    [] c = "slotPool" -> [i \in Slot |-> i]
                    [] OTHER          -> <<>>]
        /\ stopped = [c \in Channel |-> FALSE]
        /\ pc = [w \in Worker |-> "unborn"]
        /\ frame = [w \in Prep |-> 0] /\ slot = [w \in Worker |-> 0]
        /\ strip = [f \in Frame |-> 0]
        /\ input = [s \in Slot |-> 0] /\ result = [s \in Slot |-> 0]
        /\ ingest = "off" /\ inFrame = 0
        /\ srcStopped = FALSE /\ framesRead = 0
        /\ sunk = <<>> /\ failed = {} /\ completed = 0
        /\ main = "spawn"
-----------------------------------------------------------------------------
(* PrepStage                                                               *)

PrepPopRaw(w) ==
  /\ pc[w] = "popRaw"
  /\ \/ /\ CanPop("qRaw")
        /\ frame' = [frame EXCEPT ![w] = Head(q["qRaw"])]
        /\ PopFrom("qRaw")
        /\ GoTo(w, "popSlot")
     \/ PopRefused("qRaw") /\ GoTo(w, "done") /\ UNCHANGED <<q, frame>>
  /\ UNCHANGED <<stopped, slots, strip, source, outcome, main>>

PrepPopSlot(w) ==
  /\ pc[w] = "popSlot"
  /\ \/ /\ CanPop("slotPool")
        /\ slot' = [slot EXCEPT ![w] = Head(q["slotPool"])]
        /\ PopFrom("slotPool")
        /\ GoTo(w, "fill")
     \/ PopRefused("slotPool") /\ GoTo(w, "dropRaw") /\ UNCHANGED <<q, slot>>
  /\ UNCHANGED <<stopped, frames, input, result, source, outcome, main>>

PrepFill(w) ==
  /\ pc[w] = "fill"
  /\ input' = [input EXCEPT ![slot[w]] = strip[frame[w]]]
  /\ GoTo(w, "retRaw")
  /\ UNCHANGED <<q, stopped, frames, slot, result, source, outcome, main>>

\* Not giving the frame back after the copy.
BugKeepsRaw(w) ==
  /\ pc[w] \in {"retRaw", "dropRaw"}
  /\ IF pc[w] = "dropRaw" THEN TryPush("rawPool", frame[w]) ELSE UNCHANGED q
  /\ frame' = [frame EXCEPT ![w] = 0]
  /\ GoTo(w, IF pc[w] = "retRaw" THEN "pushPrep" ELSE "done")
  /\ UNCHANGED <<stopped, strip, slots, source, outcome, main>>

\* The frame goes back before the slot moves on; on the way out ("dropRaw")
\* it goes back because there is no slot to move.
PrepReturnRaw(w) ==
  /\ pc[w] \in {"retRaw", "dropRaw"}
  /\ TryPush("rawPool", frame[w])
  /\ frame' = [frame EXCEPT ![w] = 0]
  /\ GoTo(w, IF pc[w] = "retRaw" THEN "pushPrep" ELSE "done")
  /\ UNCHANGED <<stopped, strip, slots, source, outcome, main>>

BugPrepPushLeaks(w) ==
  /\ pc[w] = "pushPrep"
  /\ slot' = [slot EXCEPT ![w] = 0]
  /\ \/ CanPush("qPrep") /\ PushTo("qPrep", slot[w]) /\ GoTo(w, "popRaw")
     \/ stopped["qPrep"] /\ GoTo(w, "done") /\ UNCHANGED q
  /\ UNCHANGED <<stopped, frames, input, result, source, outcome, main>>

PrepPush(w) ==
  /\ pc[w] = "pushPrep"
  /\ \/ /\ CanPush("qPrep")
        /\ PushTo("qPrep", slot[w])
        /\ slot' = [slot EXCEPT ![w] = 0]
        /\ GoTo(w, "popRaw")
     \/ stopped["qPrep"] /\ GoTo(w, "dropSlot") /\ UNCHANGED <<q, slot>>
  /\ UNCHANGED <<stopped, frames, input, result, source, outcome, main>>

BugFailedSlotLeaks(w) ==
  /\ pc[w] \in {"dropSlot", "giveUp"}
  /\ IF pc[w] = "dropSlot" THEN TryPush("slotPool", slot[w]) ELSE UNCHANGED q
  /\ slot' = [slot EXCEPT ![w] = 0]
  /\ GoTo(w, IF pc[w] = "giveUp" THEN "popPrep" ELSE "done")
  /\ UNCHANGED <<stopped, frames, input, result, source, outcome, main>>

\* The slot of a thread that gives up: prep and infer leave their loop, the
\* infer thread of a failed batch ("giveUp") takes the next one.
DropSlot(w) ==
  /\ pc[w] \in {"dropSlot", "giveUp"}
  /\ TryPush("slotPool", slot[w])
  /\ slot' = [slot EXCEPT ![w] = 0]
  /\ GoTo(w, IF pc[w] = "giveUp" THEN "popPrep" ELSE "done")
  /\ UNCHANGED <<stopped, frames, input, result, source, outcome, main>>
-----------------------------------------------------------------------------
(* InferStage                                                              *)

InferPop(w) ==
  /\ pc[w] = "popPrep"
  /\ \/ /\ CanPop("qPrep")
        /\ slot' = [slot EXCEPT ![w] = Head(q["qPrep"])]
        /\ PopFrom("qPrep")
        /\ GoTo(w, "run")
     \/ PopRefused("qPrep") /\ GoTo(w, "done") /\ UNCHANGED <<q, slot>>
  /\ UNCHANGED <<stopped, frames, input, result, source, outcome, main>>

\* A catch that forgets to give the batch up; a catch outside the loop.
BugRunSwallows(w) ==
  /\ pc[w] = "run"
  /\ GoTo(w, "pushInf")
  /\ \/ result' = [result EXCEPT ![slot[w]] = input[slot[w]]]
     \/ UNCHANGED result
  /\ UNCHANGED <<q, stopped, frames, slot, input, source, outcome, main>>

BugRunEndsThread(w) ==
  /\ pc[w] = "run"
  /\ \/ /\ result' = [result EXCEPT ![slot[w]] = input[slot[w]]]
        /\ GoTo(w, "pushInf")
        /\ UNCHANGED failed
     \/ /\ result' = [result EXCEPT ![slot[w]] = 0]
        /\ failed' = failed \cup {input[slot[w]]}
        /\ GoTo(w, "dropSlot")
  /\ UNCHANGED <<q, stopped, frames, slot, input, source, sunk, completed, main>>

\* RunBatch fills the slot's results or throws; what it throws over is lost.
InferRun(w) ==
  /\ pc[w] = "run"
  /\ \/ /\ result' = [result EXCEPT ![slot[w]] = input[slot[w]]]
        /\ GoTo(w, "pushInf")
        /\ UNCHANGED failed
     \/ /\ result' = [result EXCEPT ![slot[w]] = 0]
        /\ failed' = failed \cup {input[slot[w]]}
        /\ GoTo(w, "giveUp")
  /\ UNCHANGED <<q, stopped, frames, slot, input, source, sunk, completed, main>>

InferPush(w) ==
  /\ pc[w] = "pushInf"
  /\ \/ /\ CanPush("qInf")
        /\ PushTo("qInf", slot[w])
        /\ slot' = [slot EXCEPT ![w] = 0]
        /\ GoTo(w, "popPrep")
     \/ stopped["qInf"] /\ GoTo(w, "dropSlot") /\ UNCHANGED <<q, slot>>
  /\ UNCHANGED <<stopped, frames, input, result, source, outcome, main>>
-----------------------------------------------------------------------------
(* PostStage                                                               *)

PostPop(w) ==
  /\ pc[w] = "popInf"
  /\ \/ /\ CanPop("qInf")
        /\ slot' = [slot EXCEPT ![w] = Head(q["qInf"])]
        /\ PopFrom("qInf")
        /\ GoTo(w, "publish")
     \/ PopRefused("qInf") /\ GoTo(w, "done") /\ UNCHANGED <<q, slot>>
  /\ UNCHANGED <<stopped, frames, input, result, source, outcome, main>>

\* Giving the slot back by hand as well as by the guard.
BugPublishReleases(w) ==
  /\ pc[w] = "publish"
  /\ sunk' = Append(sunk, [seq |-> input[slot[w]], scores |-> result[slot[w]]])
  /\ TryPush("slotPool", slot[w])
  /\ GoTo(w, "release")
  /\ UNCHANGED <<stopped, frames, slots, source, failed, completed, main>>

PostPublish(w) ==
  /\ pc[w] = "publish"
  /\ sunk' = Append(sunk, [seq |-> input[slot[w]], scores |-> result[slot[w]]])
  /\ GoTo(w, "release")
  /\ UNCHANGED <<q, stopped, frames, slots, source, failed, completed, main>>

\* addPostprocessingTime, then ~SlotGuard at the end of the scope.
PostRelease(w) ==
  /\ pc[w] = "release"
  /\ completed' = completed + 1
  /\ TryPush("slotPool", slot[w])
  /\ slot' = [slot EXCEPT ![w] = 0]
  /\ GoTo(w, "popInf")
  /\ UNCHANGED <<stopped, frames, input, result, source, sunk, failed, main>>

Step(w) == \/ w \in Prep /\ \/ PrepPopRaw(w) \/ PrepPopSlot(w) \/ PrepFill(w)
                            \/ PrepReturnRaw(w) \/ PrepPush(w) \/ DropSlot(w)
           \/ w \in Infer /\ \/ InferPop(w) \/ InferRun(w) \/ InferPush(w)
                             \/ DropSlot(w)
           \/ w \in Post /\ (PostPop(w) \/ PostPublish(w) \/ PostRelease(w))
-----------------------------------------------------------------------------
(* The ingest thread: MmfFrameSource::ReadFrame in a loop.  The shared      *)
(* memory itself is MmfIngest; here a frame is offered or it is not.        *)

\* stopped_ on entry and again after the wait.
IngestStops ==
  /\ ingest = "check" /\ srcStopped
  /\ ingest' = "exited"
  /\ UNCHANGED <<q, stopped, pc, frames, slots, inFrame, srcStopped, framesRead,
                 outcome, main>>

\* A frame is there and stopped_ was still false when it was looked at.
IngestSees ==
  /\ ingest = "check" /\ ~srcStopped /\ framesRead < MaxSeq
  /\ ingest' = "take"
  /\ UNCHANGED <<q, stopped, pc, frames, slots, inFrame, srcStopped, framesRead,
                 outcome, main>>

\* WaitForSingleObject fails and ReadFrame reports Stopped.
IngestBreaks ==
  /\ ingest = "check"
  /\ ingest' = "exited"
  /\ UNCHANGED <<q, stopped, pc, frames, slots, inFrame, srcStopped, framesRead,
                 outcome, main>>

\* No raw buffer: the frame is dropped (counted by droppedNoBuffer_ alone).
IngestDrops ==
  /\ ingest = "take" /\ q["rawPool"] = <<>>
  /\ ingest' = "check"
  /\ UNCHANGED <<q, stopped, pc, frames, slots, inFrame, srcStopped, framesRead,
                 outcome, main>>

IngestTakes ==
  /\ ingest = "take" /\ CanPop("rawPool")
  /\ inFrame' = Head(q["rawPool"])
  /\ PopFrom("rawPool")
  /\ framesRead' = framesRead + 1
  /\ strip' = [strip EXCEPT ![Head(q["rawPool"])] = framesRead + 1]
  /\ ingest' = "push"
  /\ UNCHANGED <<stopped, pc, frame, slots, srcStopped, outcome, main>>

\* try_push to qRaw; a refusal returns the buffer and ends the thread.
IngestPushes ==
  /\ ingest = "push"
  /\ IF CanPush("qRaw")
     THEN PushTo("qRaw", inFrame) /\ ingest' = "check"
     ELSE TryPush("rawPool", inFrame) /\ ingest' = "exited"
  /\ inFrame' = 0
  /\ UNCHANGED <<stopped, pc, frames, slots, srcStopped, framesRead, outcome, main>>

IngestStep == \/ IngestStops \/ IngestSees \/ IngestBreaks
              \/ IngestDrops \/ IngestTakes \/ IngestPushes
-----------------------------------------------------------------------------
(* The main thread.                                                        *)

FirstPc(w) == IF w \in Prep THEN "popRaw"
              ELSE IF w \in Infer THEN "popPrep" ELSE "popInf"

Unborn(S) == \E w \in S : pc[w] = "unborn"
Joined(S) == \A w \in S : pc[w] \in {"unborn", "done"}

\* Prep threads first, then infer, then post; creating one may throw, and
\* then ~StageWorkers runs Abort.
Spawn(w) ==
  /\ main = "spawn" /\ pc[w] = "unborn"
  /\ w \in Infer => ~Unborn(Prep)
  /\ w \in Post => ~Unborn(Prep \cup Infer)
  /\ \/ GoTo(w, FirstPc(w)) /\ UNCHANGED main
     \/ main' = "abort" /\ UNCHANGED pc
  /\ UNCHANGED <<q, stopped, frames, slots, source, outcome>>

Ready ==
  /\ main = "spawn" /\ ~Unborn(Worker)
  /\ main' = "console"
  /\ UNCHANGED <<q, stopped, pc, frames, slots, source, outcome>>

\* 's': IngestController::Start re-arms the source, then creates the thread,
\* which may throw.
KeyS ==
  /\ main = "console" /\ ingest = "off"
  /\ srcStopped' = FALSE
  /\ \/ ingest' = "check" /\ UNCHANGED main
     \/ main' = "abort" /\ UNCHANGED ingest
  /\ UNCHANGED <<q, stopped, pc, frames, slots, inFrame, framesRead, outcome>>

\* 'x', and the liveness check that finds the ingest thread gone:
\* IngestController::Stop, whose join is a step of its own.
KeyX ==
  /\ main = "console" /\ ingest # "off"
  /\ srcStopped' = TRUE
  /\ main' = "joinX"
  /\ UNCHANGED <<q, stopped, pc, frames, slots, ingest, inFrame, framesRead, outcome>>

ReapIngest == ingest = "exited" /\ KeyX

BugKeyQNoJoin ==
  /\ main = "console"
  /\ main' = "drainRaw"
  /\ srcStopped' = TRUE
  /\ UNCHANGED <<q, stopped, pc, frames, slots, ingest, inFrame, framesRead, outcome>>

\* 'q'; Stop does nothing when there is no thread to join.
KeyQ ==
  /\ main = "console"
  /\ main' = "joinQ"
  /\ srcStopped' = (srcStopped \/ ingest # "off")
  /\ UNCHANGED <<q, stopped, pc, frames, slots, ingest, inFrame, framesRead, outcome>>

JoinIngest ==
  /\ main \in {"joinX", "joinQ"}
  /\ ingest \in {"off", "exited"}
  /\ ingest' = "off"
  /\ main' = IF main = "joinX" THEN "console" ELSE "drainRaw"
  /\ UNCHANGED <<q, stopped, pc, frames, slots, inFrame, srcStopped, framesRead, outcome>>

StopChannel(c) == stopped' = [stopped EXCEPT ![c] = TRUE]

BugDrainStage == [drainRaw  |-> [chan |-> "qRaw",  join |-> Prep,  next |-> "drainPrep"],
                  drainPrep |-> [chan |-> "qPrep", join |-> Infer, next |-> "drainInf"],
                  drainInf  |-> [chan |-> "qPrep", join |-> Post,  next |-> "drainPools"]]

\* StageWorkers::Drain: stop a queue, join the stage that reads it, go on to
\* the next one.
DrainStage == [drainRaw  |-> [chan |-> "qRaw",  join |-> Prep,  next |-> "drainPrep"],
               drainPrep |-> [chan |-> "qPrep", join |-> Infer, next |-> "drainInf"],
               drainInf  |-> [chan |-> "qInf",  join |-> Post,  next |-> "drainPools"]]

DrainStop ==
  /\ main \in DOMAIN DrainStage
  /\ ~stopped[DrainStage[main].chan]
  /\ StopChannel(DrainStage[main].chan)
  /\ UNCHANGED <<q, pc, frames, slots, source, outcome, main>>

BugDrainNoJoin ==
  /\ main \in DOMAIN DrainStage
  /\ stopped[DrainStage[main].chan]
  /\ main' = DrainStage[main].next
  /\ UNCHANGED <<q, stopped, pc, frames, slots, source, outcome>>

DrainJoin ==
  /\ main \in DOMAIN DrainStage
  /\ stopped[DrainStage[main].chan]
  /\ Joined(DrainStage[main].join)
  /\ main' = DrainStage[main].next
  /\ UNCHANGED <<q, stopped, pc, frames, slots, source, outcome>>

\* Nobody is left to see the two pools being stopped one after the other.
DrainPools ==
  /\ main = "drainPools"
  /\ stopped' = [stopped EXCEPT !["slotPool"] = TRUE, !["rawPool"] = TRUE]
  /\ main' = "report"
  /\ UNCHANGED <<q, pc, frames, slots, source, outcome>>

\* logFinalReport has been given its numbers; ~StageWorkers finds every queue
\* stopped and every thread joined.
Return ==
  /\ main = "report"
  /\ main' = "returned"
  /\ UNCHANGED <<q, stopped, pc, frames, slots, source, outcome>>

BugAbortOrder == <<"qRaw", "qInf", "slotPool", "rawPool">>
BugAbortPoolFirst == <<"qRaw", "slotPool", "rawPool", "qPrep", "qInf">>

\* StageWorkers::Abort: every queue stopped, one after the other, then every
\* stage joined.
AbortOrder == <<"qRaw", "qPrep", "qInf", "slotPool", "rawPool">>

AbortStop ==
  /\ main = "abort"
  /\ \E i \in DOMAIN AbortOrder :
       /\ ~stopped[AbortOrder[i]]
       /\ \A j \in 1 .. i - 1 : stopped[AbortOrder[j]]
       /\ StopChannel(AbortOrder[i])
  /\ UNCHANGED <<q, pc, frames, slots, source, outcome, main>>

BugAbortSkipsPost ==
  /\ main = "abort"
  /\ \A c \in Channel : stopped[c]
  /\ Joined(Prep \cup Infer)
  /\ main' = "aborted"
  /\ UNCHANGED <<q, stopped, pc, frames, slots, source, outcome>>

AbortJoin ==
  /\ main = "abort"
  /\ \A c \in Channel : stopped[c]
  /\ Joined(Worker)
  /\ main' = "aborted"
  /\ UNCHANGED <<q, stopped, pc, frames, slots, source, outcome>>

\* Leaving the scope destroys the queues, the stores and the slots in them.
Gone == main \in {"returned", "aborted"} /\ UNCHANGED vars

Keys == KeyS \/ KeyX \/ KeyQ

\* What the main thread does without anybody pressing a key.
MainStep == \/ \E w \in Worker : Spawn(w)
            \/ Ready \/ ReapIngest \/ JoinIngest
            \/ DrainStop \/ DrainJoin \/ DrainPools \/ Return
            \/ AbortStop \/ AbortJoin

Next == (\E w \in Worker : Step(w)) \/ IngestStep \/ MainStep \/ Keys \/ Gone

Spec == Init /\ [][Next]_vars

\* Every thread that can take a step is eventually scheduled.  No frame ever
\* has to arrive, no key has to be pressed, no call has to fail.
FairSpec ==
  /\ Spec
  /\ \A w \in Worker : WF_vars(Step(w))
  /\ WF_vars(IngestStops \/ IngestDrops \/ IngestTakes \/ IngestPushes)
  /\ WF_vars(MainStep)
-----------------------------------------------------------------------------
(* Properties.                                                             *)

\* The pcs at which a prep thread holds a frame, and any thread a slot.
FramePcs == {"popSlot", "fill", "retRaw", "dropRaw"}
FrameHolders == {w \in Prep : pc[w] \in FramePcs}
SlotPcs == {"fill", "retRaw", "pushPrep", "run", "pushInf", "publish", "release",
            "dropSlot", "giveUp"}
SlotHolders == {w \in Worker : pc[w] \in SlotPcs}

PrepPcs  == {"unborn", "popRaw", "popSlot", "fill", "retRaw", "dropRaw",
             "pushPrep", "dropSlot", "done"}
InferPcs == {"unborn", "popPrep", "run", "pushInf", "giveUp", "dropSlot", "done"}
PostPcs  == {"unborn", "popInf", "publish", "release", "done"}
MainPcs  == {"spawn", "console", "joinX", "joinQ", "drainRaw", "drainPrep",
             "drainInf", "drainPools", "report", "returned", "abort", "aborted"}

Items(c) == IF c \in {"rawPool", "qRaw"} THEN Frame ELSE Slot

ChannelsOK ==
  /\ q \in [Channel -> Seq(Nat)]
  /\ \A c \in Channel : q[c] \in Seq(Items(c)) /\ Len(q[c]) =< Cap[c]

PcOK ==
  /\ pc \in [Worker -> PrepPcs \cup InferPcs \cup PostPcs]
  /\ \A w \in Prep : pc[w] \in PrepPcs
  /\ \A w \in Infer : pc[w] \in InferPcs
  /\ \A w \in Post : pc[w] \in PostPcs

FrameHeldOK == /\ frame \in [Prep -> Frame \cup {0}]
               /\ \A w \in Prep : w \in FrameHolders <=> frame[w] \in Frame

SlotHeldOK == /\ slot \in [Worker -> Slot \cup {0}]
              /\ \A w \in Worker : w \in SlotHolders <=> slot[w] \in Slot

IngestOK ==
  /\ ingest \in {"off", "check", "take", "push", "exited"}
  /\ inFrame \in Frame \cup {0}
  /\ ingest = "push" <=> inFrame \in Frame
  /\ framesRead \in 0 .. MaxSeq
  /\ ingest = "take" => framesRead < MaxSeq

DataOK ==
  /\ strip \in [Frame -> Batch \cup {0}]
  /\ input \in [Slot -> Batch \cup {0}]
  /\ result \in [Slot -> Batch \cup {0}]
  /\ sunk \in Seq([seq : Batch \cup {0}, scores : Batch \cup {0}])
  /\ failed \subseteq Batch \cup {0}
  /\ completed \in Nat

MainOK ==
  /\ stopped \in [Channel -> BOOLEAN]
  /\ srcStopped \in BOOLEAN
  /\ main \in MainPcs

TypeOK == /\ ChannelsOK /\ PcOK /\ FrameHeldOK /\ SlotHeldOK
          /\ IngestOK /\ DataOK /\ MainOK

\* The frames, and the slots, that are in a channel or in a thread's hands.
FramesInPlace == Len(q["rawPool"]) + Len(q["qRaw"]) + Cardinality(FrameHolders)
                   + (IF ingest = "push" THEN 1 ELSE 0)
SlotsInPlace  == Len(q["slotPool"]) + Len(q["qPrep"]) + Len(q["qInf"])
                   + Cardinality(SlotHolders)

FrameCount == /\ FramesInPlace =< NumFrames
              /\ ~stopped["rawPool"] => FramesInPlace = NumFrames

SlotCount == /\ SlotsInPlace =< NumSlots
             /\ ~stopped["slotPool"] => SlotsInPlace = NumSlots

\* Nothing is stopped, and the ingest thread exists, only while the main thread
\* is in the keyboard loop or on its way into Drain.
OpenWhileListening ==
  /\ main \in {"spawn", "console", "joinX", "joinQ"} => \A c \in Channel : ~stopped[c]
  /\ ingest # "off" => main \in {"console", "joinX", "joinQ"}

\* The inductive invariant of PipelineProofs: buffers are counted, not named.
IndInv == TypeOK /\ FrameCount /\ SlotCount /\ OpenWhileListening

\* How often x occurs in channel c.
Occurs(c, x) == Cardinality({i \in DOMAIN q[c] : q[c][i] = x})

\* Ownership is implicit (PipelineSlot.h:16): a frame is in one queue or in the
\* hands of one thread, never in two places; none leaks before Abort or the
\* end of Drain stops the pool it goes back to.
FramesOwnedOnce ==
  \A f \in Frame :
    LET places == Occurs("rawPool", f) + Occurs("qRaw", f)
                    + Cardinality({w \in Prep : frame[w] = f})
                    + (IF inFrame = f THEN 1 ELSE 0)
    IN  places =< 1 /\ (~stopped["rawPool"] => places = 1)

\* The same for slots, across the pool, two queues and all stage threads.
SlotsOwnedOnce ==
  \A s \in Slot :
    LET places == Occurs("slotPool", s) + Occurs("qPrep", s) + Occurs("qInf", s)
                    + Cardinality({w \in Worker : slot[w] = s})
    IN  places =< 1 /\ (~stopped["slotPool"] => places = 1)

\* The reason for MinimumSlots: a prep thread that asks for a slot finds one at
\* once, however many batches the other threads and the queues hold, so
\* slotPool.pop (Stages.cpp:406) neither waits nor, when Abort has stopped the
\* pool and buffers no longer come back, fails.
PrepNeverWaitsForSlot ==
  (\E w \in Prep : pc[w] = "popSlot") => q["slotPool"] # <<>>

\* The reason for QueueRawCapacity >= RawFrames: "the reader's push cannot fail"
\* (AppConfig.cpp:140), also while keys are pressed and the pipeline stops.
ReaderPushFits == ingest = "push" => CanPush("qRaw")

\* The reason for RawFrames >= PrepThreads + 1: the reader drops a frame only
\* while prep has work waiting, so a drop never finds prep idle.
DropImpliesBacklog ==
  ingest = "take" /\ q["rawPool"] = <<>> =>
    /\ Len(q["qRaw"]) >= NumFrames - Cardinality(FrameHolders)
    /\ Len(q["qRaw"]) > 0

\* What SlotGuard calls impossible by design (Stages.cpp:39): giving a slot or
\* a frame back is refused only by a stopped pool, never by a full one.
PoolsHaveRoom ==
  /\ SlotHolders # {} => Len(q["slotPool"]) < NumSlots
  /\ FrameHolders # {} \/ ingest = "push" => Len(q["rawPool"]) < NumFrames

\* A batch is published at most once, never after it failed, and with the
\* scores computed from its own frame although slots are recycled.
SinkExact ==
  /\ \A i \in DOMAIN sunk : /\ sunk[i].scores = sunk[i].seq
                            /\ sunk[i].seq \in 1 .. framesRead
                            /\ sunk[i].seq \notin failed
  /\ \A i, j \in DOMAIN sunk : i # j => sunk[i].seq # sunk[j].seq

\* "Every frame already in qRaw reaches the sink" (StageWorkers.h:15), or
\* failed in RunBatch: when the report is made the counters account for every
\* frame read and all buffers are back in their pools.
DrainDeliversAll ==
  main = "report" =>
    /\ framesRead = completed + Cardinality(failed)
    /\ completed = Len(sunk)
    /\ Len(q["rawPool"]) = NumFrames /\ Len(q["slotPool"]) = NumSlots

\* Nobody uses a queue, a store or a session once Run leaves the scope that
\* declares them (StageWorkers.h:19), on the normal path and after a throw.
NoThreadOutlivesStores ==
  main \in {"returned", "aborted"} => Joined(Worker) /\ ingest = "off"

\* With one thread per stage the batches reach the sink in the order they were
\* read; ResultSink.h:37-40 gives this up only for concurrent stages.
SunkInOrder ==
  \A i, j \in DOMAIN sunk : i < j => sunk[i].seq < sunk[j].seq

\* The batch ledger: where each batch read from the source has got to.  The
\* buffers that carry a batch are the frames still to be copied and the slots
\* still to be published.
Held(c) == {q[c][i] : i \in DOMAIN q[c]}

RawPcs  == {"popSlot", "fill"}
SlotBatchPcs == {"retRaw", "pushPrep", "run", "pushInf", "publish"}

RawCarriers  == Held("qRaw") \cup {frame[w] : w \in {v \in Prep : pc[v] \in RawPcs}}
                  \cup ({inFrame} \ {0})
SlotCarriers == Held("qPrep") \cup Held("qInf")
                  \cup {slot[w] : w \in {v \in Worker : pc[v] \in SlotBatchPcs}}

InFlight  == {strip[f] : f \in RawCarriers} \cup {input[s] : s \in SlotCarriers}
Published == {sunk[i].seq : i \in DOMAIN sunk}

Fate == [n \in Batch |->
           IF n \in Published THEN "published"
           ELSE IF n \in failed THEN "failed"
           ELSE IF n \in InFlight THEN "accepted"
           ELSE IF n =< framesRead THEN "lost" ELSE "unread"]

Ledger == INSTANCE FrameLedger
            WITH fate <- Fate,
                 aborting <- main \in {"abort", "aborted"},
                 settled <- main \in {"report", "returned"}

LedgerSpec == Ledger!Spec

\* 'q' always ends in the final report and the return, whatever is in flight
\* (Run:264-277): no join of Drain hangs.
QuitReturns == main = "joinQ" ~> main = "returned"

\* "The joins cannot hang even if a stage is missing" (StageWorkers.h:17).
AbortEnds == main = "abort" ~> main = "aborted"

\* "Frames already in the pipeline complete normally" (Run:241): every frame
\* read is published or fails, with or without further frames and keys, unless
\* the run is aborted.
EveryFrameSettles ==
  \A n \in Batch :
    framesRead >= n ~> \/ n \in failed
                       \/ n \in Published
                       \/ main = "aborted"
=============================================================================
