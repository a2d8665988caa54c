------------------------------ MODULE OrtBatch ------------------------------
(***************************************************************************)
(* OrtSessionConfig::Warmup and RunBatch (OrtSession.cpp).  Every copy, run *)
(* and event is enqueued on one CUDA stream that the device works off in    *)
(* order while the host goes on; any call may fail, and the device itself   *)
(* may die.  The slots go round as in InferStage: prep fills a slot of the  *)
(* pool, the infer thread hands its pinned buffers to RunBatch, post reads  *)
(* the outputs, and a slot whose call has thrown goes straight back.        *)
(*                                                                         *)
(* A buffer holds, patch by patch, the number of the batch its contents     *)
(* come from; running the model on a patch copies that number.  Sessions    *)
(* share neither stream nor device buffers, so one of them is modelled.     *)
(***************************************************************************)
EXTENDS Integers, Sequences

CONSTANTS BatchSize,    \* batch_
          NumSlots,     \* slots in circulation
          WarmupRuns,   \* the argument of Warmup
          MaxBatch      \* bound: batches prep fills

ASSUME BatchAssumption ==
  /\ BatchSize \in Nat \ {0} /\ NumSlots \in Nat \ {0}
  /\ WarmupRuns \in Nat /\ MaxBatch \in Nat

VARIABLES
  loopBatch1,  \* [Model] LoopBatch1
  place,       \* slot -> who has it: pool, queued for infer, infer, done (post)
  seq,         \* the last batch prep has filled a slot with
  input,       \* slot -> pinned input: patch -> batch
  scores, map, \* slot -> pinned outputs: patch -> batch
  dev,         \* dInput_, dScore_, dMap_: buffer -> patch -> batch
  stream,      \* the operations the device has yet to do, oldest first
  dead,        \* a sticky error has killed the device context
  pc,          \* where the infer thread is
  todo,        \* the calls RunBatchImpl or Warmup has still to make
  slot         \* the slot RunBatch is called on, 0 outside it

host == <<input, scores, map>>
vars == <<loopBatch1, place, seq, input, scores, map, dev, stream, dead, pc, todo, slot>>

Slot  == 1 .. NumSlots
Patch == 1 .. BatchSize
Blank == [p \in Patch |-> 0]

\* A stream operation during a call on slot s (0: outside any); `slot` is the slot
\* whose host memory it reads or writes (0: none), `patches` the part of the device
\* buffers a run works on.
Op(s) == [kind : {"event", "memset", "h2d", "run", "score", "map"},
          slot : {0, s}, patches : SUBSET Patch]

OnDevice(kind, patches) == [kind |-> kind, slot |-> 0, patches |-> patches]
Copy(kind, s) == [kind |-> kind, slot |-> s, patches |-> Patch]
Event == OnDevice("event", {})
-----------------------------------------------------------------------------
(* A definition named Bug... is a plausible mistake in the one that follows  *)
(* it; it shows that a property would notice, and nothing else uses it.     *)

\* BuildTensors: the views of the device buffers, one per patch or one in all.
Tensors == IF loopBatch1 THEN [p \in Patch |-> {p}] ELSE <<Patch>>

\* The binding is done once for all runs.
BugBindsOnce == [i \in DOMAIN Tensors |-> OnDevice("run", Tensors[1])]

\* RunAllBound: one run for each view, bound afresh.
RunAllBound == [i \in DOMAIN Tensors |-> OnDevice("run", Tensors[i])]

\* RunBatchImpl up to the synchronisation, in order.
RunBatchImpl(s) ==
  <<Event, Copy("h2d", s), Event>> \o RunAllBound
     \o <<Event, Copy("score", s), Copy("map", s), Event>>

WarmupCalls == IF WarmupRuns = 0 THEN <<>>
               ELSE <<OnDevice("memset", Patch)>>
                      \o [k \in 1 .. WarmupRuns * Len(RunAllBound) |->
                            RunAllBound[((k - 1) % Len(RunAllBound)) + 1]]

Init == /\ loopBatch1 \in BOOLEAN
        /\ place = [s \in Slot |-> "pool"] /\ seq = 0
        /\ input = [s \in Slot |-> Blank]
        /\ scores = [s \in Slot |-> Blank] /\ map = [s \in Slot |-> Blank]
        /\ dev = [b \in {"input", "score", "map"} |-> Blank]
        /\ stream = <<>> /\ dead = FALSE
        /\ pc = "warmup" /\ todo = WarmupCalls /\ slot = 0
-----------------------------------------------------------------------------
(* The stages before and after.                                            *)

Prep(s) == /\ place[s] = "pool" /\ seq < MaxBatch
           /\ place' = [place EXCEPT ![s] = "queued"]
           /\ seq' = seq + 1
           /\ input' = [input EXCEPT ![s] = [p \in Patch |-> seq + 1]]
           /\ UNCHANGED <<loopBatch1, scores, map, dev, stream, dead, pc, todo, slot>>

Post(s) == /\ place[s] = "done"
           /\ place' = [place EXCEPT ![s] = "pool"]
           /\ UNCHANGED <<loopBatch1, seq, host, dev, stream, dead, pc, todo, slot>>
-----------------------------------------------------------------------------
(* The host: Warmup, then RunBatch for one slot after the other.           *)

RunBatch(s) ==
  /\ pc = "idle" /\ place[s] = "queued"
  /\ place' = [place EXCEPT ![s] = "infer"]
  /\ slot' = s
  /\ pc' = "calls" /\ todo' = RunBatchImpl(s)
  /\ UNCHANGED <<loopBatch1, seq, host, dev, stream, dead>>

\* A call is accepted by a device that is alive.
Accepted ==
  /\ pc \in {"warmup", "calls"} /\ todo # <<>>
  /\ ~dead
  /\ stream' = Append(stream, Head(todo))
  /\ todo' = Tail(todo)
  /\ UNCHANGED <<loopBatch1, place, seq, host, dev, dead, pc, slot>>

\* An exception leaves RunBatchImpl for the handler in RunBatch; Warmup has no
\* handler, it leaves Run.
Unwind == /\ pc' = IF pc = "warmup" THEN "gone" ELSE "catch"
          /\ todo' = <<>>

\* A call fails; what it asked for may be on the stream or not, because it also
\* reports errors of work enqueued earlier.
Refused ==
  /\ pc \in {"warmup", "calls"} /\ todo # <<>>
  /\ \/ UNCHANGED stream
     \/ ~dead /\ stream' = Append(stream, Head(todo))
  /\ Unwind
  /\ UNCHANGED <<loopBatch1, place, seq, host, dev, dead, slot>>

\* The end of a call: the slot goes to post, or back to the pool.
Leave(to) ==
  /\ place' = IF slot = 0 THEN place ELSE [place EXCEPT ![slot] = to]
  /\ pc' = "idle" /\ slot' = 0

\* cudaStreamSynchronize returns success once the stream is empty.
Synchronize ==
  /\ pc \in {"warmup", "calls"} /\ todo = <<>>
  /\ ~dead /\ stream = <<>>
  /\ Leave("done")
  /\ UNCHANGED <<loopBatch1, seq, host, dev, stream, dead, todo>>

SynchronizeFails ==
  /\ pc \in {"warmup", "calls"} /\ todo = <<>>
  /\ dead
  /\ Unwind
  /\ UNCHANGED <<loopBatch1, place, seq, host, dev, stream, dead, slot>>

\* The exception goes straight to InferStage.
BugRethrow ==
  /\ pc = "catch"
  /\ Leave("pool")
  /\ UNCHANGED <<loopBatch1, seq, host, dev, stream, dead, todo>>

\* The handler waits for the stream, whatever that returns, and rethrows.
Rethrow ==
  /\ pc = "catch"
  /\ stream = <<>>
  /\ Leave("pool")
  /\ UNCHANGED <<loopBatch1, seq, host, dev, stream, dead, todo>>

Host == Accepted \/ Synchronize \/ SynchronizeFails \/ Rethrow
          \/ \E s \in Slot : RunBatch(s)
-----------------------------------------------------------------------------
(* The device.                                                             *)

Effect(o) ==
  CASE o.kind = "event"  -> UNCHANGED <<host, dev>>
    [] o.kind = "memset" -> /\ dev' = [dev EXCEPT !["input"] = Blank]
                            /\ UNCHANGED host
    [] o.kind = "h2d"    -> /\ dev' = [dev EXCEPT !["input"] = input[o.slot]]
                            /\ UNCHANGED host
    [] o.kind = "run"    -> LET Result(b) == [p \in Patch |-> IF p \in o.patches
                                                THEN dev["input"][p] ELSE dev[b][p]]
                            IN /\ dev' = [dev EXCEPT !["score"] = Result("score"),
                                                     !["map"] = Result("map")]
                               /\ UNCHANGED host
    [] o.kind = "score"  -> /\ scores' = [scores EXCEPT ![o.slot] = dev["score"]]
                            /\ UNCHANGED <<input, map, dev>>
    [] o.kind = "map"    -> /\ map' = [map EXCEPT ![o.slot] = dev["map"]]
                            /\ UNCHANGED <<input, scores, dev>>

Device == /\ stream # <<>>
          /\ Effect(Head(stream))
          /\ stream' = Tail(stream)
          /\ UNCHANGED <<loopBatch1, place, seq, dead, pc, todo, slot>>

\* A sticky error: every later call fails, and nothing queued is done any more.
DeviceDies == /\ ~dead
              /\ dead' = TRUE /\ stream' = <<>>
              /\ UNCHANGED <<loopBatch1, place, seq, host, dev, pc, todo, slot>>

Next == \/ \E s \in Slot : Prep(s) \/ Post(s)
        \/ Host \/ Refused \/ Device \/ DeviceDies

Spec == Init /\ [][Next]_vars

\* The infer thread is scheduled and the device works off what it has accepted;
\* nothing has to fail.
FairSpec == Spec /\ WF_vars(Host \/ Refused) /\ WF_vars(Device)
-----------------------------------------------------------------------------
TypeOK ==
  /\ loopBatch1 \in BOOLEAN /\ dead \in BOOLEAN
  /\ place \in [Slot -> {"pool", "queued", "infer", "done"}]
  /\ seq \in Nat /\ slot \in 0 .. NumSlots
  /\ stream \in Seq(Op(slot)) /\ todo \in Seq(Op(slot))
  /\ pc \in {"warmup", "idle", "calls", "catch", "gone"}

\* No copy queued on the stream touches the pinned memory of a slot unless the
\* call on that very slot is still in progress: when RunBatch has returned or
\* thrown, prep may refill the slot and post may read it
\* (OrtSession.cpp:352-361, 384-387; the slot goes back at Stages.cpp:453).
HostBuffersQuiescent ==
  \A k \in 1 .. Len(stream) :
    stream[k].slot # 0 => stream[k].slot = slot /\ place[slot] = "infer"

\* The inductive form: everything queued or still to be queued belongs to the call
\* in progress, and there is nothing of either outside a call.
QuiescentInv ==
  /\ TypeOK
  /\ pc = "idle" => stream = <<>>
  /\ pc \in {"idle", "catch", "gone"} => todo = <<>>
  /\ pc \in {"calls", "catch"} => slot \in Slot /\ place[slot] = "infer"
  /\ pc \in {"idle", "warmup", "gone"} => slot = 0

\* RunBatch implements BatchCall: the call ends, and what post finds in every
\* patch of scores and map is the result of the batch in this slot's input, not
\* of an earlier batch in a recycled buffer.  -1 stands for a mixture.
Outputs(s) == {scores[s][p] : p \in Patch} \cup {map[s][p] : p \in Patch}

Found(s) == IF place[s] # "done" THEN 0
            ELSE IF Outputs(s) = {input[s][1]} THEN input[s][1] ELSE -1

Call == INSTANCE BatchCall WITH batch <- [s \in Slot |-> input[s][1]],
                                out <- [s \in Slot |-> Found(s)]
CallSpec == Call!Spec
=============================================================================
