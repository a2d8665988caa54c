--------------------------- MODULE OrtBatchProofs ---------------------------
(***************************************************************************)
(* For every batch size, number of slots and warm-up runs: no copy is left  *)
(* on the CUDA stream for the host memory of a slot that is not in a call,  *)
(* and RunBatch implements the atomic call of BatchCall, fairness aside.    *)
(*                                                                         *)
(* The second rests on CallInv: what the device and the host have still to  *)
(* do for the call (Rest) is in the right order, and every result that is   *)
(* not in its place yet has an operation in Rest that will put it there.    *)
(***************************************************************************)
EXTENDS OrtBatch, SequenceTheorems, TLAPS

\* The runs touch no host memory, whatever the views.
LEMMA RunsAreOps ==
  ASSUME loopBatch1 \in BOOLEAN, NEW s \in Nat
  PROVE  /\ RunAllBound \in Seq(Op(s))
         /\ Len(RunAllBound) \in Nat \ {0}
         /\ \A i \in 1 .. Len(RunAllBound) : RunAllBound[i] \in Op(s)
<1>1. PICK n \in Nat \ {0} : /\ Tensors \in [1 .. n -> SUBSET Patch]
                             /\ DOMAIN Tensors = 1 .. n
  <2>1. CASE loopBatch1
    <3>1. /\ Tensors \in [1 .. BatchSize -> SUBSET Patch] /\ DOMAIN Tensors = 1 .. BatchSize
      BY <2>1 DEF Tensors, Patch
    <3> QED BY <3>1, BatchAssumption
  <2>2. CASE ~loopBatch1
    <3>1. /\ Tensors \in [1 .. 1 -> SUBSET Patch] /\ DOMAIN Tensors = 1 .. 1
      BY <2>2 DEF Tensors
    <3> QED BY <3>1
  <2> QED BY <2>1, <2>2
<1>2. ASSUME NEW i \in 1 .. n
      PROVE  OnDevice("run", Tensors[i]) \in Op(s)
  BY <1>1 DEF OnDevice, Op
<1>3. RunAllBound \in [1 .. n -> Op(s)] /\ DOMAIN RunAllBound = 1 .. n
  BY <1>1, <1>2 DEF RunAllBound
<1>4. RunAllBound \in Seq(Op(s))
  BY <1>3, SeqDef
<1>5. DOMAIN RunAllBound = 1 .. Len(RunAllBound) /\ Len(RunAllBound) \in Nat
  BY <1>4, LenProperties
<1>6. 1 \in 1 .. Len(RunAllBound)
  BY <1>1, <1>3, <1>5
<1> QED BY <1>4, <1>5, <1>6, ElementOfSeq

\* What RunBatch enqueues belongs to the slot it is called on.
LEMMA CallsAreOps ==
  ASSUME loopBatch1 \in BOOLEAN, NEW s \in Slot
  PROVE  RunBatchImpl(s) \in Seq(Op(s))
<1>1. Event \in Op(s) /\ \A kind \in {"h2d", "score", "map"} : Copy(kind, s) \in Op(s)
  BY DEF Event, OnDevice, Copy, Op
<1>2. /\ <<Event, Copy("h2d", s), Event>> \in Seq(Op(s))
      /\ <<Event, Copy("score", s), Copy("map", s), Event>> \in Seq(Op(s))
  BY <1>1
<1>3. RunAllBound \in Seq(Op(s))
  BY RunsAreOps DEF Slot
<1> QED BY <1>2, <1>3, ConcatProperties DEF RunBatchImpl

\* What Warmup enqueues touches no slot.
LEMMA WarmupIsOps ==
  ASSUME loopBatch1 \in BOOLEAN
  PROVE  WarmupCalls \in Seq(Op(0))
<1>1. CASE WarmupRuns = 0
  BY <1>1 DEF WarmupCalls
<1>2. CASE WarmupRuns # 0
  <2> DEFINE n == Len(RunAllBound)
             runs == [k \in 1 .. WarmupRuns * n |-> RunAllBound[((k - 1) % n) + 1]]
  <2>1. n \in Nat \ {0} /\ \A i \in 1 .. n : RunAllBound[i] \in Op(0)
    BY RunsAreOps
  <2>2. WarmupRuns * n \in Nat
    BY <2>1, BatchAssumption
  <2> HIDE DEF n
  <2>3. \A k \in 1 .. WarmupRuns * n : ((k - 1) % n) + 1 \in 1 .. n
    BY <2>1, <2>2
  <2>4. runs \in [1 .. WarmupRuns * n -> Op(0)]
    BY <2>1, <2>3
  <2>5. runs \in Seq(Op(0))
    BY <2>2, <2>4, SeqDef
  <2>6. <<OnDevice("memset", Patch)>> \in Seq(Op(0))
    <3>1. OnDevice("memset", Patch) \in Op(0)
      BY DEF OnDevice, Op
    <3> QED BY <3>1
  <2>7. WarmupCalls = <<OnDevice("memset", Patch)>> \o runs
    BY <1>2 DEF WarmupCalls, n
  <2> QED BY <2>5, <2>6, <2>7, ConcatProperties
<1> QED BY <1>1, <1>2

LEMMA InitQuiescent == Init => QuiescentInv
<1> SUFFICES ASSUME Init
             PROVE  QuiescentInv
  OBVIOUS
<1>1. slot = 0 /\ 0 \in 0 .. NumSlots
  BY BatchAssumption DEF Init
<1>2. todo \in Seq(Op(slot)) /\ stream \in Seq(Op(slot))
  BY <1>1, WarmupIsOps, EmptySeq DEF Init
<1> QED BY <1>1, <1>2 DEF Init, QuiescentInv, TypeOK

\* A step that moves no slot in or out of a call and adds nothing to the stream.
LEMMA StepQuiescent == QuiescentInv /\ [Next]_vars => QuiescentInv'
<1> SUFFICES ASSUME QuiescentInv, [Next]_vars
             PROVE  QuiescentInv'
  OBVIOUS
<1> USE DEF QuiescentInv, TypeOK
<1>0. stream # <<>> => Tail(stream) \in Seq(Op(slot))
  BY HeadTailProperties
<1>1. CASE UNCHANGED vars
  BY <1>1 DEF vars
<1>2. ASSUME NEW s \in Slot, Prep(s)
      PROVE  QuiescentInv'
  BY <1>2 DEF Prep
<1>3. ASSUME NEW s \in Slot, Post(s)
      PROVE  QuiescentInv'
  BY <1>3 DEF Post
<1>4. CASE Accepted
  <2>1. Head(todo) \in Op(slot) /\ Tail(todo) \in Seq(Op(slot))
    BY <1>4, HeadTailProperties DEF Accepted
  <2>2. Append(stream, Head(todo)) \in Seq(Op(slot))
    BY <2>1, AppendProperties
  <2> QED BY <1>4, <2>1, <2>2 DEF Accepted
<1>5. CASE Refused
  <2>1. Head(todo) \in Op(slot)
    BY <1>5, HeadTailProperties DEF Refused
  <2>2. Append(stream, Head(todo)) \in Seq(Op(slot)) /\ <<>> \in Seq(Op(slot))
    BY <2>1, AppendProperties, EmptySeq
  <2> QED BY <1>5, <2>2 DEF Refused, Unwind
<1>6. CASE Synchronize
  <2>1. <<>> \in Seq(Op(0)) /\ 0 \in 0 .. NumSlots
    BY EmptySeq, BatchAssumption
  <2> QED BY <1>6, <2>1 DEF Synchronize, Leave
<1>7. CASE SynchronizeFails
  BY <1>7 DEF SynchronizeFails, Unwind
<1>8. CASE Rethrow
  <2>1. <<>> \in Seq(Op(0)) /\ 0 \in 0 .. NumSlots
    BY EmptySeq, BatchAssumption
  <2> QED BY <1>8, <2>1 DEF Rethrow, Leave
<1>9. ASSUME NEW s \in Slot, RunBatch(s)
      PROVE  QuiescentInv'
  <2>1. RunBatchImpl(s) \in Seq(Op(s)) /\ <<>> \in Seq(Op(s)) /\ s \in 0 .. NumSlots
    BY CallsAreOps, EmptySeq DEF Slot
  <2> QED BY <1>9, <2>1 DEF RunBatch
<1>10. CASE Device
  <2>1. UNCHANGED <<loopBatch1, place, seq, dead, pc, todo, slot>> /\ stream' = Tail(stream) /\ stream # <<>>
    BY <1>10 DEF Device
  <2> QED BY <1>0, <2>1
<1>11. CASE DeviceDies
  BY <1>11, EmptySeq DEF DeviceDies
<1> QED BY <1>1, <1>2, <1>3, <1>4, <1>5, <1>6, <1>7, <1>8, <1>9, <1>10, <1>11 DEF Next, Host

\* When RunBatch has returned or thrown the device no longer reads or writes the
\* slot's pinned memory, whichever call has failed and however much was enqueued:
\* the wait of the handler is what makes it true (OrtSession.cpp:352-361).
THEOREM Quiescent == Spec => []HostBuffersQuiescent
<1>1. QuiescentInv => HostBuffersQuiescent
  <2> SUFFICES ASSUME QuiescentInv, NEW k \in 1 .. Len(stream), stream[k].slot # 0
               PROVE  stream[k].slot = slot /\ place[slot] = "infer"
    BY DEF HostBuffersQuiescent
  <2>1. stream[k] \in Op(slot)
    BY ElementOfSeq DEF QuiescentInv, TypeOK
  <2>2. stream[k].slot = slot /\ slot # 0
    BY <2>1 DEF Op
  <2> QED BY <2>2 DEF QuiescentInv, TypeOK
<1> QED BY <1>1, InitQuiescent, StepQuiescent, PTL DEF Spec
-----------------------------------------------------------------------------
(* What a call leaves in the outputs of its slot.                           *)

Of(b)  == [p \in Patch |-> b]
Buffer == [Patch -> Nat]

\* What the device has still to do in this call.
Rest == stream \o todo

Copies == {"h2d", "score", "map"}

\* The input is there before a run, and all runs before the outputs are fetched.
Rank == [event |-> 0, h2d |-> 1, run |-> 2, score |-> 3, map |-> 3]

DataOK == /\ \A s \in Slot : \E b \in Nat : input[s] = Of(b)
          /\ input \in [Slot -> Buffer] /\ scores \in [Slot -> Buffer]
          /\ map \in [Slot -> Buffer]
          /\ dev \in [{"input", "score", "map"} -> Buffer]

CopiesOwn == \A i \in 1 .. Len(Rest) :
               Rest[i].kind \in Copies => Rest[i].slot = slot /\ slot # 0

Orderly ==
  /\ \A i \in 1 .. Len(Rest) : Rest[i].kind # "memset"
  /\ \A i, j \in 1 .. Len(Rest) :
       i < j /\ Rest[j].kind # "event" => Rank[Rest[i].kind] =< Rank[Rest[j].kind]

Waits(kind) == \E i \in 1 .. Len(Rest) : Rest[i].kind = kind

Reaches(p) == \E i \in 1 .. Len(Rest) : Rest[i].kind = "run" /\ p \in Rest[i].patches

\* What is not in its place yet has still to be put there.
OnItsWay ==
  /\ Waits("h2d") \/ dev["input"] = input[slot]
  /\ \A p \in Patch : \/ Reaches(p)
                      \/ dev["score"][p] = input[slot][p] /\ dev["map"][p] = input[slot][p]
  /\ Waits("score") \/ scores[slot] = input[slot]
  /\ Waits("map") \/ map[slot] = input[slot]

Delivered == \A s \in Slot :
  /\ place[s] = "done" => scores[s] = input[s] /\ map[s] = input[s]
  /\ place[s] = "infer" => s = slot

CallInv == /\ QuiescentInv /\ DataOK /\ CopiesOwn /\ Delivered
           /\ pc = "calls" /\ ~dead => Orderly /\ OnItsWay

LEMMA OpFields ==
  ASSUME NEW s, NEW o \in Op(s)
  PROVE  /\ o.kind \in {"event", "memset", "h2d", "run", "score", "map"}
         /\ o.slot \in {0, s} /\ o.patches \in SUBSET Patch
BY DEF Op

\* The device does the first of what is left ...
LEMMA RestTail ==
  ASSUME TypeOK, stream # <<>>
  PROVE  /\ Rest \in Seq(Op(slot)) /\ Len(Rest) \in Nat \ {0} /\ Rest[1] = Head(stream)
         /\ Tail(stream) \in Seq(Op(slot))
         /\ Len(Tail(stream) \o todo) = Len(Rest) - 1
         /\ \A i \in 1 .. Len(Rest) - 1 : (Tail(stream) \o todo)[i] = Rest[i + 1]
<1> DEFINE a == stream
           b == todo
<1>1. a \in Seq(Op(slot)) /\ b \in Seq(Op(slot)) /\ a # <<>>
  BY DEF TypeOK
<1>2. /\ Tail(a) \in Seq(Op(slot)) /\ Len(Tail(a)) = Len(a) - 1 /\ Len(a) \in Nat \ {0}
      /\ Head(a) = a[1] /\ Len(b) \in Nat
      /\ \A i \in 1 .. Len(a) - 1 : Tail(a)[i] = a[i + 1]
  BY <1>1, HeadTailProperties, LenProperties, EmptySeq
<1>3. /\ Rest \in Seq(Op(slot)) /\ Len(Rest) = Len(a) + Len(b)
      /\ \A i \in 1 .. Len(a) + Len(b) :
           Rest[i] = IF i =< Len(a) THEN a[i] ELSE b[i - Len(a)]
  BY <1>1, ConcatProperties DEF Rest
<1>4. /\ Len(Tail(a) \o b) = Len(a) - 1 + Len(b)
      /\ \A i \in 1 .. Len(a) - 1 + Len(b) :
           (Tail(a) \o b)[i] = IF i =< Len(a) - 1 THEN Tail(a)[i] ELSE b[i - (Len(a) - 1)]
  BY <1>1, <1>2, ConcatProperties
<1> HIDE DEF a, b
<1>5. \A i \in 1 .. Len(Rest) - 1 : (Tail(a) \o b)[i] = Rest[i + 1]
  <2> SUFFICES ASSUME NEW i \in 1 .. Len(Rest) - 1 PROVE (Tail(a) \o b)[i] = Rest[i + 1]
    OBVIOUS
  <2>1. CASE i =< Len(a) - 1
    BY <2>1, <1>2, <1>3, <1>4
  <2>2. CASE ~(i =< Len(a) - 1)
    <3>1. i - (Len(a) - 1) = i + 1 - Len(a)
      BY <1>2
    <3>2. Rest[i + 1] = b[i + 1 - Len(a)]
      <4>1. i + 1 \in 1 .. Len(a) + Len(b) /\ ~(i + 1 =< Len(a))
        BY <2>2, <1>2, <1>3
      <4> QED BY <4>1, <1>3
    <3>3. (Tail(a) \o b)[i] = b[i - (Len(a) - 1)]
      <4>1. i \in 1 .. Len(a) - 1 + Len(b) /\ ~(i =< Len(a) - 1)
        BY <2>2, <1>2, <1>3
      <4> QED BY <4>1, <1>4
    <3> QED BY <3>1, <3>2, <3>3
  <2> QED BY <2>1, <2>2
<1>6. Rest[1] = Head(a) /\ Len(Rest) \in Nat \ {0} /\ Len(Tail(a) \o b) = Len(Rest) - 1
  BY <1>2, <1>3, <1>4
<1> QED BY <1>2, <1>3, <1>5, <1>6 DEF a, b

\* ... and the host only moves it from its list to the stream.
LEMMA RestAccepted ==
  ASSUME TypeOK, todo # <<>>
  PROVE  Append(stream, Head(todo)) \o Tail(todo) = Rest
<1>1. stream \in Seq(Op(slot)) /\ todo \in Seq(Op(slot))
  BY DEF TypeOK
<1>2. /\ Tail(todo) \in Seq(Op(slot)) /\ Len(Tail(todo)) = Len(todo) - 1
      /\ Head(todo) = todo[1] /\ Head(todo) \in Op(slot)
      /\ \A i \in 1 .. Len(todo) - 1 : Tail(todo)[i] = todo[i + 1]
      /\ Len(todo) \in Nat \ {0} /\ Len(stream) \in Nat
  BY <1>1, HeadTailProperties, LenProperties, EmptySeq
<1> DEFINE a == Append(stream, Head(todo))
           b == Tail(todo)
           m == Len(stream)
           n == Len(todo)
<1>3. /\ a \in Seq(Op(slot)) /\ Len(a) = m + 1 /\ a[m + 1] = todo[1]
      /\ \A i \in 1 .. m : a[i] = stream[i]
  BY <1>1, <1>2, AppendProperties
<1>4. /\ Rest \in Seq(Op(slot)) /\ Len(Rest) = m + n
      /\ \A i \in 1 .. m + n : Rest[i] = IF i =< m THEN stream[i] ELSE todo[i - m]
  BY <1>1, ConcatProperties DEF Rest
<1>5. /\ a \o b \in Seq(Op(slot)) /\ Len(a \o b) = Len(a) + Len(b)
      /\ \A i \in 1 .. Len(a) + Len(b) :
           (a \o b)[i] = IF i =< Len(a) THEN a[i] ELSE b[i - Len(a)]
  BY <1>2, <1>3, ConcatProperties
<1> HIDE DEF a, b, m, n
<1>6. m \in Nat /\ n \in Nat \ {0} /\ Len(a) = m + 1 /\ Len(b) = n - 1
  BY <1>2, <1>3 DEF b, m, n
<1>7. \A i \in 1 .. m + n : (a \o b)[i] = Rest[i]
  <2> SUFFICES ASSUME NEW i \in 1 .. m + n PROVE (a \o b)[i] = Rest[i]
    OBVIOUS
  <2>1. CASE i =< m
    <3>1. Rest[i] = stream[i] /\ a[i] = stream[i]
      BY <2>1, <1>3, <1>4, <1>6
    <3>2. i \in 1 .. Len(a) + Len(b) /\ i =< Len(a)
      BY <2>1, <1>6
    <3> QED BY <3>1, <3>2, <1>5
  <2>2. CASE i = m + 1
    <3>1. i - m = 1
      BY <2>2, <1>6
    <3> QED BY <2>2, <3>1, <1>3, <1>4, <1>5, <1>6
  <2>3. CASE i > m + 1
    <3>1. i - (m + 1) \in 1 .. n - 1 /\ i - (m + 1) + 1 = i - m
      BY <2>3, <1>6
    <3>2. b[i - (m + 1)] = todo[i - m]
      BY <3>1, <1>2 DEF b, n
    <3>3. Rest[i] = todo[i - m]
      BY <2>3, <1>4, <1>6
    <3>4. i \in 1 .. Len(a) + Len(b) /\ ~(i =< Len(a)) /\ Len(a) = m + 1
      BY <2>3, <1>6
    <3>5. (a \o b)[i] = b[i - Len(a)]
      BY <3>4, <1>5
    <3> QED BY <3>2, <3>3, <3>4, <3>5
  <2>4. i =< m \/ i = m + 1 \/ i > m + 1
    BY <1>6
  <2> QED BY <2>1, <2>2, <2>3, <2>4
<1>8. Len(a \o b) = m + n
  BY <1>5, <1>6
<1>9. a \o b = Rest
  BY <1>4, <1>5, <1>7, <1>8, SeqEqual
<1> QED BY <1>9 DEF a, b

\* What the first operation on the stream changes.
LEMMA Effects ==
  ASSUME CallInv, Device, NEW o, o = Head(stream)
  PROVE  /\ input' = input /\ DataOK'
         /\ dev'["input"] = (IF o.kind = "memset" THEN Blank
                             ELSE IF o.kind = "h2d" THEN input[slot] ELSE dev["input"])
         /\ \A p \in Patch : \A b \in {"score", "map"} :
              dev'[b][p] = IF o.kind = "run" /\ p \in o.patches THEN dev["input"][p]
                           ELSE dev[b][p]
         /\ scores' = IF o.kind = "score" THEN [scores EXCEPT ![slot] = dev["score"]] ELSE scores
         /\ map' = IF o.kind = "map" THEN [map EXCEPT ![slot] = dev["map"]] ELSE map
<1>1. /\ TypeOK /\ stream # <<>> /\ Effect(o)
      /\ input \in [Slot -> Buffer] /\ scores \in [Slot -> Buffer] /\ map \in [Slot -> Buffer]
      /\ dev \in [{"input", "score", "map"} -> Buffer]
  BY DEF CallInv, QuiescentInv, DataOK, Device
<1>2. o = Rest[1] /\ 1 \in 1 .. Len(Rest) /\ Rest[1] \in Op(slot)
  BY <1>1, RestTail, ElementOfSeq
<1>3. o.kind \in Copies => o.slot = slot /\ slot \in Slot
  BY <1>1, <1>2 DEF CallInv, CopiesOwn, TypeOK, Slot
<1>4. Blank \in Buffer
  BY DEF Blank, Buffer
<1>5. CASE o.kind = "event"
  BY <1>1, <1>5 DEF Effect, host, CallInv, DataOK, Buffer
<1>6. CASE o.kind = "memset"
  <2>1. dev' = [dev EXCEPT !["input"] = Blank] /\ UNCHANGED <<input, scores, map>>
    BY <1>1, <1>6 DEF Effect, host
  <2>2. dev' \in [{"input", "score", "map"} -> Buffer]
    BY <1>1, <1>4, <2>1
  <2> QED BY <1>1, <1>6, <2>1, <2>2 DEF CallInv, DataOK
<1>7. CASE o.kind = "h2d"
  <2>1. dev' = [dev EXCEPT !["input"] = input[slot]] /\ UNCHANGED <<input, scores, map>>
    BY <1>1, <1>3, <1>7 DEF Effect, host, Copies
  <2>2. dev' \in [{"input", "score", "map"} -> Buffer]
    BY <1>1, <1>3, <1>7, <2>1 DEF Copies
  <2> QED BY <1>1, <1>7, <2>1, <2>2 DEF CallInv, DataOK
<1>8. CASE o.kind = "run"
  <2> DEFINE Result(b) == [p \in Patch |-> IF p \in o.patches THEN dev["input"][p] ELSE dev[b][p]]
  <2>1. /\ dev' = [dev EXCEPT !["score"] = Result("score"), !["map"] = Result("map")]
        /\ UNCHANGED <<input, scores, map>>
    BY <1>1, <1>8 DEF Effect, host
  <2>2. Result("score") \in Buffer /\ Result("map") \in Buffer
    BY <1>1 DEF Buffer
  <2>3. \A p \in Patch : \A b \in {"score", "map"} :
          Result(b)[p] = IF p \in o.patches THEN dev["input"][p] ELSE dev[b][p]
    OBVIOUS
  <2> HIDE DEF Result
  <2>4. /\ dev' \in [{"input", "score", "map"} -> Buffer] /\ dev'["input"] = dev["input"]
        /\ dev'["score"] = Result("score") /\ dev'["map"] = Result("map")
    BY <1>1, <2>1, <2>2
  <2> QED BY <1>1, <1>8, <2>1, <2>3, <2>4 DEF CallInv, DataOK
<1>9. CASE o.kind = "score"
  <2>1. scores' = [scores EXCEPT ![slot] = dev["score"]] /\ UNCHANGED <<input, map, dev>>
    BY <1>1, <1>3, <1>9 DEF Effect, Copies
  <2>2. scores' \in [Slot -> Buffer]
    BY <1>1, <1>3, <1>9, <2>1 DEF Copies
  <2> QED BY <1>1, <1>9, <2>1, <2>2 DEF CallInv, DataOK
<1>10. CASE o.kind = "map"
  <2>1. map' = [map EXCEPT ![slot] = dev["map"]] /\ UNCHANGED <<input, scores, dev>>
    BY <1>1, <1>3, <1>10 DEF Effect, Copies
  <2>2. map' \in [Slot -> Buffer]
    BY <1>1, <1>3, <1>10, <2>1 DEF Copies
  <2> QED BY <1>1, <1>10, <2>1, <2>2 DEF CallInv, DataOK
<1> QED BY <1>2, <1>5, <1>6, <1>7, <1>8, <1>9, <1>10, OpFields

LEMMA DeviceKeeps ==
  ASSUME CallInv, Device
  PROVE  CallInv'
<1> DEFINE o == Head(stream)
           n == Len(Rest)
<1>1. /\ TypeOK /\ stream # <<>> /\ stream' = Tail(stream)
      /\ UNCHANGED <<loopBatch1, place, seq, dead, pc, todo, slot>>
  BY DEF CallInv, QuiescentInv, Device
<1>2. /\ n \in Nat \ {0} /\ Rest[1] = o /\ Len(Rest') = n - 1
      /\ \A i \in 1 .. n - 1 : Rest'[i] = Rest[i + 1]
  BY <1>1, RestTail DEF Rest
<1>3. /\ input' = input /\ DataOK'
      /\ dev'["input"] = (IF o.kind = "memset" THEN Blank
                          ELSE IF o.kind = "h2d" THEN input[slot] ELSE dev["input"])
      /\ \A p \in Patch : \A b \in {"score", "map"} :
           dev'[b][p] = IF o.kind = "run" /\ p \in o.patches THEN dev["input"][p]
                        ELSE dev[b][p]
      /\ scores' = IF o.kind = "score" THEN [scores EXCEPT ![slot] = dev["score"]] ELSE scores
      /\ map' = IF o.kind = "map" THEN [map EXCEPT ![slot] = dev["map"]] ELSE map
  BY Effects
<1> HIDE DEF o, n
<1>4. QuiescentInv'
  BY StepQuiescent DEF CallInv, Next
<1>5. \A i \in 1 .. n - 1 : i + 1 \in 1 .. n
  BY <1>2
<1>6. CopiesOwn'
  BY <1>1, <1>2, <1>5 DEF CallInv, CopiesOwn, n
<1>7. Delivered'
  <2>1. o.kind \in Copies => slot # 0
    BY <1>2 DEF CallInv, CopiesOwn, n
  <2>2. slot # 0 => slot \in Slot /\ place[slot] = "infer"
    BY DEF CallInv, QuiescentInv, TypeOK
  <2>3. \A s \in Slot : place[s] = "done" => scores'[s] = scores[s] /\ map'[s] = map[s]
    BY <1>3, <2>1, <2>2 DEF CallInv, DataOK, Copies
  <2> QED BY <1>1, <1>3, <2>3 DEF CallInv, Delivered
<1>8. ASSUME pc = "calls", ~dead PROVE Orderly' /\ OnItsWay'
  <2>1. Orderly /\ OnItsWay /\ slot \in Slot
    BY <1>8 DEF CallInv, QuiescentInv
  <2>2. 1 \in 1 .. n /\ o.kind # "memset"
    BY <2>1, <1>2 DEF Orderly, n
  <2>3. Orderly'
    <3>1. \A i \in 1 .. n - 1 : Rest'[i].kind # "memset"
      BY <2>1, <1>2, <1>5 DEF Orderly, n
    <3>2. ASSUME NEW i \in 1 .. n - 1, NEW j \in 1 .. n - 1, i < j, Rest'[j].kind # "event"
          PROVE  Rank[Rest'[i].kind] =< Rank[Rest'[j].kind]
      <4>1. i + 1 < j + 1
        BY <3>2
      <4> QED BY <4>1, <3>2, <2>1, <1>2, <1>5 DEF Orderly, n
    <3> QED BY <1>2, <3>1, <3>2 DEF Orderly
  <2>4. \A kind : Waits(kind) /\ kind # o.kind => \E i \in 1 .. n - 1 : Rest'[i].kind = kind
    <3> SUFFICES ASSUME NEW kind, NEW i \in 1 .. n, Rest[i].kind = kind, kind # o.kind
                 PROVE  \E k \in 1 .. n - 1 : Rest'[k].kind = kind
      BY DEF Waits, n
    <3>1. i # 1
      BY <1>2
    <3>2. i - 1 \in 1 .. n - 1 /\ (i - 1) + 1 = i
      BY <1>2, <3>1
    <3> QED BY <3>2, <1>2
  <2>5. \A j \in 1 .. n : Rest[j].kind # "event" => Rank[o.kind] =< Rank[Rest[j].kind]
    <3> SUFFICES ASSUME NEW j \in 1 .. n, Rest[j].kind # "event"
                 PROVE  Rank[o.kind] =< Rank[Rest[j].kind]
      OBVIOUS
    <3>1. CASE j = 1
      <4>1. o.kind \in {"h2d", "run", "score", "map"}
        <5>1. o \in Op(slot)
          BY <1>1, HeadTailProperties DEF o, TypeOK
        <5> QED BY <5>1, <3>1, <2>2, <1>2, OpFields
      <4> QED BY <4>1, <3>1, <1>2 DEF Rank
    <3>2. CASE j # 1
      BY <3>2, <2>1, <1>2 DEF Orderly, n
    <3> QED BY <3>1, <3>2
  <2>6. o.kind = "run" => dev["input"] = input[slot]
    <3>1. ASSUME o.kind = "run", Waits("h2d") PROVE FALSE
      BY <3>1, <2>5 DEF Waits, Rank, n
    <3> QED BY <3>1, <2>1 DEF OnItsWay
  <2>7. o.kind \in {"score", "map"} => dev["score"] = input[slot] /\ dev["map"] = input[slot]
    <3>1. ASSUME o.kind \in {"score", "map"}, NEW p \in Patch, Reaches(p) PROVE FALSE
      BY <3>1, <2>5 DEF Reaches, Rank, n
    <3>2. dev["score"] \in Buffer /\ dev["map"] \in Buffer /\ input[slot] \in Buffer
      BY <2>1 DEF CallInv, DataOK
    <3> QED BY <3>1, <3>2, <2>1 DEF OnItsWay, Buffer
  <2>8. Waits("h2d")' \/ dev'["input"] = input'[slot']
    BY <1>1, <1>2, <1>3, <2>1, <2>2, <2>4 DEF OnItsWay, Waits
  <2>9. ASSUME NEW p \in Patch
        PROVE  \/ Reaches(p)'
               \/ dev'["score"][p] = input'[slot'][p] /\ dev'["map"][p] = input'[slot'][p]
    <3>1. CASE o.kind = "run" /\ p \in o.patches
      BY <3>1, <1>1, <1>3, <2>6
    <3>2. CASE ~(o.kind = "run" /\ p \in o.patches) /\ Reaches(p)
      <4>1. PICK i \in 1 .. n : Rest[i].kind = "run" /\ p \in Rest[i].patches
        BY <3>2 DEF Reaches, n
      <4>2. i # 1
        BY <4>1, <3>2, <1>2
      <4>3. i - 1 \in 1 .. n - 1 /\ (i - 1) + 1 = i
        BY <1>2, <4>2
      <4>4. Rest'[i - 1].kind = "run" /\ p \in Rest'[i - 1].patches
        BY <4>1, <4>3, <1>2
      <4> QED BY <4>3, <4>4, <1>2 DEF Reaches
    <3>3. CASE ~(o.kind = "run" /\ p \in o.patches) /\ ~Reaches(p)
      BY <3>3, <1>1, <1>3, <2>1 DEF OnItsWay
    <3> QED BY <3>1, <3>2, <3>3
  <2>10. Waits("score")' \/ scores'[slot'] = input'[slot']
    <3>1. CASE o.kind = "score"
      BY <3>1, <1>1, <1>3, <2>1, <2>7 DEF CallInv, DataOK
    <3>2. CASE o.kind # "score"
      BY <3>2, <1>1, <1>2, <1>3, <2>1, <2>4 DEF OnItsWay, Waits
    <3> QED BY <3>1, <3>2
  <2>11. Waits("map")' \/ map'[slot'] = input'[slot']
    <3>1. CASE o.kind = "map"
      BY <3>1, <1>1, <1>3, <2>1, <2>7 DEF CallInv, DataOK
    <3>2. CASE o.kind # "map"
      BY <3>2, <1>1, <1>2, <1>3, <2>1, <2>4 DEF OnItsWay, Waits
    <3> QED BY <3>1, <3>2
  <2> QED BY <2>3, <2>8, <2>9, <2>10, <2>11 DEF OnItsWay
<1> QED BY <1>1, <1>3, <1>4, <1>6, <1>7, <1>8 DEF CallInv

\* What RunAllBound runs: every patch once, whether one by one or all together.
LEMMA RunsCover ==
  ASSUME loopBatch1 \in BOOLEAN
  PROVE  /\ \A i \in 1 .. Len(RunAllBound) : RunAllBound[i].kind = "run"
         /\ \A p \in Patch : \E i \in 1 .. Len(RunAllBound) : p \in RunAllBound[i].patches
<1>1. DOMAIN RunAllBound = 1 .. Len(RunAllBound) /\ DOMAIN RunAllBound = DOMAIN Tensors
  <2>1. RunAllBound \in Seq(Op(0))
    BY RunsAreOps
  <2> QED BY <2>1, LenProperties DEF RunAllBound
<1>2. \A i \in DOMAIN RunAllBound : /\ RunAllBound[i].kind = "run"
                                    /\ RunAllBound[i].patches = Tensors[i]
  BY DEF RunAllBound, OnDevice
<1>3. \A p \in Patch : \E i \in DOMAIN Tensors : p \in Tensors[i]
  <2>1. CASE loopBatch1
    BY <2>1 DEF Tensors
  <2>2. CASE ~loopBatch1
    <3>1. DOMAIN Tensors = {1} /\ Tensors[1] = Patch
      BY <2>2 DEF Tensors
    <3> QED BY <3>1
  <2> QED BY <2>1, <2>2
<1> QED BY <1>1, <1>2, <1>3

\* Where the calls of RunBatch are, one by one.
CallsOf(s, q, n) ==
  /\ n \in Nat \ {0} /\ Len(q) = n + 7
  /\ q[2] = Copy("h2d", s) /\ q[n + 5] = Copy("score", s) /\ q[n + 6] = Copy("map", s)
  /\ \A i \in {1, 3, n + 4, n + 7} : q[i] = Event
  /\ \A i \in 4 .. n + 3 : q[i] = RunAllBound[i - 3]

LEMMA ImplShape ==
  ASSUME loopBatch1 \in BOOLEAN, NEW s \in Slot
  PROVE  CallsOf(s, RunBatchImpl(s), Len(RunAllBound))
<1> DEFINE q == RunBatchImpl(s)
           n == Len(RunAllBound)
<1> SUFFICES CallsOf(s, q, n)
  OBVIOUS
<1> DEFINE a == <<Event, Copy("h2d", s), Event>>
           b == RunAllBound
           c == <<Event, Copy("score", s), Copy("map", s), Event>>
<1>1. Event \in Op(s) /\ \A kind \in {"h2d", "score", "map"} : Copy(kind, s) \in Op(s)
  BY DEF Event, OnDevice, Copy, Op
<1>2. /\ a \in Seq(Op(s)) /\ Len(a) = 3
      /\ a[1] = Event /\ a[2] = Copy("h2d", s) /\ a[3] = Event
      /\ c \in Seq(Op(s)) /\ Len(c) = 4
      /\ c[1] = Event /\ c[2] = Copy("score", s) /\ c[3] = Copy("map", s) /\ c[4] = Event
  BY <1>1
<1>3. b \in Seq(Op(s)) /\ Len(b) = n /\ n \in Nat \ {0}
  BY RunsAreOps DEF Slot
<1>4. q = (a \o b) \o c
  BY DEF RunBatchImpl
<1> HIDE DEF a, b, c, q, n
<1>5. /\ a \o b \in Seq(Op(s)) /\ Len(a \o b) = n + 3
      /\ \A i \in 1 .. n + 3 : (a \o b)[i] = IF i =< 3 THEN a[i] ELSE b[i - 3]
  <2>1. /\ a \o b \in Seq(Op(s)) /\ Len(a \o b) = Len(a) + Len(b)
        /\ \A i \in 1 .. Len(a) + Len(b) :
             (a \o b)[i] = IF i =< Len(a) THEN a[i] ELSE b[i - Len(a)]
    BY <1>2, <1>3, ConcatProperties
  <2>2. Len(a) + Len(b) = n + 3 /\ Len(a) = 3
    BY <1>2, <1>3
  <2> QED BY <2>1, <2>2
<1>6. /\ Len(q) = n + 7
      /\ \A i \in 1 .. n + 7 : q[i] = IF i =< n + 3 THEN (a \o b)[i] ELSE c[i - (n + 3)]
  <2> DEFINE d == a \o b
  <2>1. d \in Seq(Op(s)) /\ Len(d) = n + 3
    BY <1>5
  <2> HIDE DEF d
  <2>2. /\ Len(d \o c) = Len(d) + Len(c)
        /\ \A i \in 1 .. Len(d) + Len(c) :
             (d \o c)[i] = IF i =< Len(d) THEN d[i] ELSE c[i - Len(d)]
    BY <1>2, <2>1, ConcatProperties
  <2>3. Len(d) + Len(c) = n + 7 /\ q = d \o c
    BY <1>2, <1>3, <1>4, <2>1 DEF d
  <2> QED BY <2>1, <2>2, <2>3 DEF d
<1>7. \A i \in 1 .. 3 : q[i] = a[i]
  BY <1>3, <1>5, <1>6
<1>8. \A i \in 4 .. n + 3 : q[i] = b[i - 3]
  BY <1>3, <1>5, <1>6
<1>9. \A k \in 1 .. 4 : q[n + 3 + k] = c[k]
  <2> SUFFICES ASSUME NEW k \in 1 .. 4 PROVE q[n + 3 + k] = c[k]
    OBVIOUS
  <2>1. PICK i \in 1 .. n + 7 : i = n + 3 + k /\ ~(i =< n + 3) /\ i - (n + 3) = k
    BY <1>3
  <2>2. q[i] = c[i - (n + 3)]
    BY <2>1, <1>6
  <2> QED BY <2>1, <2>2
<1>10. /\ n + 3 + 1 = n + 4 /\ n + 3 + 2 = n + 5 /\ n + 3 + 3 = n + 6 /\ n + 3 + 4 = n + 7
  BY <1>3
<1>11. /\ q[n + 4] = Event /\ q[n + 5] = Copy("score", s) /\ q[n + 6] = Copy("map", s)
       /\ q[n + 7] = Event
  BY <1>2, <1>9, <1>10
<1> QED BY <1>2, <1>3, <1>6, <1>7, <1>8, <1>11 DEF b, CallsOf

LEMMA RunBatchKeeps ==
  ASSUME CallInv, NEW s \in Slot, RunBatch(s)
  PROVE  CallInv'
<1> DEFINE q == RunBatchImpl(s)
           n == Len(RunAllBound)
<1>1. /\ pc = "idle" /\ place[s] = "queued" /\ place' = [place EXCEPT ![s] = "infer"]
      /\ slot' = s /\ pc' = "calls" /\ todo' = q
      /\ UNCHANGED <<loopBatch1, seq, host, dev, stream, dead>>
  BY DEF RunBatch
<1>2. stream = <<>> /\ loopBatch1 \in BOOLEAN /\ slot = 0 /\ s # 0
  BY <1>1 DEF CallInv, QuiescentInv, TypeOK, Slot
<1>3. /\ n \in Nat \ {0} /\ Len(q) = n + 7
      /\ q[2] = Copy("h2d", s) /\ q[n + 5] = Copy("score", s) /\ q[n + 6] = Copy("map", s)
      /\ \A i \in {1, 3, n + 4, n + 7} : q[i] = Event
      /\ \A i \in 4 .. n + 3 : q[i] = RunAllBound[i - 3]
  <2>1. CallsOf(s, q, n)
    BY <1>2, ImplShape
  <2> HIDE DEF q, n
  <2> QED BY <2>1 DEF CallsOf
<1>4. Rest' = q
  <2>1. q \in Seq(Op(s))
    BY <1>2, CallsAreOps
  <2> HIDE DEF q
  <2>2. <<>> \o q = q
    BY <2>1, ConcatEmptySeq
  <2>3. stream' = <<>> /\ todo' = q
    BY <1>1, <1>2
  <2>4. Rest' = stream' \o todo'
    BY DEF Rest
  <2> QED BY <2>2, <2>3, <2>4
<1>5. /\ \A i \in 1 .. n : RunAllBound[i].kind = "run"
      /\ \A p \in Patch : \E i \in 1 .. n : p \in RunAllBound[i].patches
      /\ \A i \in 1 .. n : RunAllBound[i] \in Op(s)
  BY <1>2, RunsCover, RunsAreOps DEF Slot
<1> HIDE DEF q, n
<1>6. /\ \A i \in 1 .. n + 7 : i \in {1, 2, 3, n + 4, n + 5, n + 6, n + 7} \/ i \in 4 .. n + 3
      /\ \A i \in 4 .. n + 3 : i - 3 \in 1 .. n
      /\ \A i \in 1 .. n : i + 3 \in 4 .. n + 3 /\ (i + 3) - 3 = i /\ i + 3 \in 1 .. n + 7
      /\ {2, n + 5, n + 6} \subseteq 1 .. n + 7
  BY <1>3
<1>7. /\ \A i \in {1, 3, n + 4, n + 7} : q[i].kind = "event" /\ q[i].slot = 0
      /\ q[2].kind = "h2d" /\ q[n + 5].kind = "score" /\ q[n + 6].kind = "map"
      /\ \A i \in {2, n + 5, n + 6} : q[i].slot = s
      /\ \A i \in 4 .. n + 3 : q[i].kind = "run"
  BY <1>3, <1>5, <1>6 DEF Copy, Event, OnDevice
<1>8. CopiesOwn'
  BY <1>1, <1>2, <1>3, <1>4, <1>6, <1>7 DEF CopiesOwn, Copies
<1>9. Orderly'
  <2>1. \A i \in 1 .. n + 7 : q[i].kind # "memset"
    BY <1>6, <1>7
  <2>2. ASSUME NEW i \in 1 .. n + 7, NEW j \in 1 .. n + 7, i < j, q[j].kind # "event"
        PROVE  Rank[q[i].kind] =< Rank[q[j].kind]
    <3>1. /\ Rank["event"] = 0 /\ Rank["h2d"] = 1 /\ Rank["run"] = 2
          /\ Rank["score"] = 3 /\ Rank["map"] = 3
      BY DEF Rank
    <3>2. CASE j = 2
      <4>1. i = 1
        BY <3>2, <2>2
      <4> QED BY <4>1, <3>1, <3>2, <1>7
    <3>3. CASE j \in 4 .. n + 3
      <4>1. i \in {1, 2, 3} \/ i \in 4 .. n + 3
        BY <3>3, <2>2, <1>3
      <4> QED BY <4>1, <3>1, <3>3, <1>7
    <3>4. CASE j \in {n + 5, n + 6}
      <4>1. Rank[q[i].kind] \in {0, 1, 2, 3}
        BY <3>1, <1>6, <1>7
      <4> QED BY <4>1, <3>1, <3>4, <1>7
    <3> QED BY <2>2, <3>2, <3>3, <3>4, <1>6, <1>7
  <2> QED BY <1>3, <1>4, <2>1, <2>2 DEF Orderly
<1>10. OnItsWay'
  <2>1. Waits("h2d")' /\ Waits("score")' /\ Waits("map")'
    BY <1>3, <1>4, <1>6, <1>7 DEF Waits
  <2>2. ASSUME NEW p \in Patch PROVE Reaches(p)'
    <3>1. PICK i \in 1 .. n : p \in RunAllBound[i].patches
      BY <1>5
    <3>2. i + 3 \in 4 .. n + 3 /\ (i + 3) - 3 = i /\ i + 3 \in 1 .. n + 7
      BY <1>6
    <3>3. q[i + 3] = RunAllBound[i] /\ q[i + 3].kind = "run"
      BY <3>2, <1>3, <1>7
    <3> QED BY <3>1, <3>2, <3>3, <1>3, <1>4 DEF Reaches
  <2> QED BY <2>1, <2>2 DEF OnItsWay
<1>11. DataOK'
  BY <1>1 DEF CallInv, DataOK, host
<1>12. Delivered'
  <2>1. place \in [Slot -> {"pool", "queued", "infer", "done"}] /\ slot \notin Slot
    BY <1>2 DEF CallInv, QuiescentInv, TypeOK, Slot
  <2> QED BY <1>1, <2>1 DEF CallInv, Delivered, host
<1>13. QuiescentInv'
  BY StepQuiescent DEF CallInv, Next, Host
<1> QED BY <1>8, <1>9, <1>10, <1>11, <1>12, <1>13 DEF CallInv

LEMMA WarmupHasNoCopies ==
  ASSUME loopBatch1 \in BOOLEAN
  PROVE  \A i \in 1 .. Len(WarmupCalls) : WarmupCalls[i].kind \notin Copies
<1>1. CASE WarmupRuns = 0
  <2>1. WarmupCalls = <<>> /\ Len(<<>>) = 0
    BY <1>1 DEF WarmupCalls
  <2> QED BY <2>1
<1>2. CASE WarmupRuns # 0
  <2> DEFINE n == Len(RunAllBound)
             runs == [k \in 1 .. WarmupRuns * n |-> RunAllBound[((k - 1) % n) + 1]]
             first == OnDevice("memset", Patch)
  <2>1. /\ n \in Nat \ {0} /\ \A i \in 1 .. n : RunAllBound[i] \in Op(0)
        /\ \A i \in 1 .. n : RunAllBound[i].kind = "run"
    BY RunsAreOps, RunsCover
  <2>2. WarmupRuns * n \in Nat
    BY <2>1, BatchAssumption
  <2> HIDE DEF n
  <2>3. \A k \in 1 .. WarmupRuns * n : ((k - 1) % n) + 1 \in 1 .. n
    BY <2>1, <2>2
  <2>4. /\ runs \in [1 .. WarmupRuns * n -> Op(0)] /\ DOMAIN runs = 1 .. WarmupRuns * n
        /\ \A k \in 1 .. WarmupRuns * n : runs[k].kind = "run"
    BY <2>1, <2>3
  <2>5. WarmupCalls = <<first>> \o runs
    BY <1>2 DEF WarmupCalls, n
  <2> HIDE DEF runs
  <2>6. runs \in Seq(Op(0)) /\ Len(runs) = WarmupRuns * n
    <3>1. runs \in Seq(Op(0))
      BY <2>2, <2>4, SeqDef
    <3>2. DOMAIN runs = 1 .. Len(runs) /\ Len(runs) \in Nat
      BY <3>1, LenProperties
    <3> QED BY <3>1, <3>2, <2>2, <2>4
  <2>7. <<first>> \in Seq(Op(0)) /\ Len(<<first>>) = 1 /\ <<first>>[1] = first
    <3>1. first \in Op(0)
      BY DEF OnDevice, Op
    <3> HIDE DEF first
    <3> QED BY <3>1
  <2>8. first.kind = "memset"
    BY DEF OnDevice
  <2> HIDE DEF first
  <2>9. /\ Len(WarmupCalls) = 1 + Len(runs)
        /\ \A i \in 1 .. 1 + Len(runs) :
             WarmupCalls[i] = IF i =< 1 THEN <<first>>[i] ELSE runs[i - 1]
    BY <2>5, <2>6, <2>7, ConcatProperties
  <2>10. \A i \in 1 .. 1 + Len(runs) : i = 1 \/ (~(i =< 1) /\ i - 1 \in 1 .. Len(runs))
    BY <2>2, <2>6
  <2> QED BY <2>4, <2>6, <2>7, <2>8, <2>9, <2>10 DEF Copies
<1> QED BY <1>1, <1>2

LEMMA InitCall == Init => CallInv
<1> SUFFICES ASSUME Init PROVE CallInv
  OBVIOUS
<1>1. Rest = WarmupCalls /\ slot = 0 /\ loopBatch1 \in BOOLEAN
  <2>1. stream = <<>> /\ todo = WarmupCalls /\ loopBatch1 \in BOOLEAN /\ slot = 0
    BY DEF Init
  <2>2. WarmupCalls \in Seq(Op(0))
    BY <2>1, WarmupIsOps
  <2>3. <<>> \o WarmupCalls = WarmupCalls
    BY <2>2, ConcatEmptySeq
  <2> QED BY <2>1, <2>3 DEF Rest
<1>2. CopiesOwn
  BY <1>1, WarmupHasNoCopies DEF CopiesOwn
<1>3. DataOK
  <2>1. Blank = Of(0) /\ Blank \in Buffer
    BY DEF Blank, Of, Buffer
  <2> QED BY <2>1 DEF Init, DataOK
<1>4. Delivered
  BY DEF Init, Delivered
<1> QED BY <1>2, <1>3, <1>4, InitQuiescent DEF CallInv, Init

LEMMA AcceptedKeeps ==
  ASSUME CallInv, Accepted
  PROVE  CallInv'
<1>1. /\ todo # <<>> /\ stream' = Append(stream, Head(todo)) /\ todo' = Tail(todo)
      /\ UNCHANGED <<loopBatch1, place, seq, host, dev, dead, pc, slot>>
  BY DEF Accepted
<1>2. Rest' = Rest
  BY <1>1, RestAccepted DEF Rest, CallInv, QuiescentInv
<1>3. QuiescentInv'
  BY StepQuiescent DEF CallInv, Next, Host
<1>4. DataOK' /\ CopiesOwn' /\ Delivered'
  BY <1>1, <1>2 DEF CallInv, DataOK, CopiesOwn, Delivered, host
<1>5. (Orderly <=> Orderly') /\ (OnItsWay <=> OnItsWay')
  BY <1>1, <1>2 DEF Orderly, OnItsWay, Waits, Reaches, host
<1> QED BY <1>1, <1>3, <1>4, <1>5 DEF CallInv

\* A failing call: the call in progress has no more to do than what is on the stream.
LEMMA ThrownKeeps ==
  ASSUME CallInv, Refused \/ SynchronizeFails \/ DeviceDies
  PROVE  CallInv'
<1>1. QuiescentInv'
  BY StepQuiescent DEF CallInv, Next, Host
<1>2. UNCHANGED <<place, host, dev, slot>>
  BY DEF Refused, SynchronizeFails, DeviceDies
<1>3. DataOK' /\ Delivered'
  BY <1>2 DEF CallInv, DataOK, Delivered, host
<1>4. ~(pc' = "calls" /\ ~dead')
  BY DEF Refused, SynchronizeFails, DeviceDies, Unwind
<1>5. CopiesOwn'
  <2>1. /\ stream \in Seq(Op(slot)) /\ todo \in Seq(Op(slot))
        /\ \A i \in 1 .. Len(Rest) :
             Rest[i].kind \in Copies => Rest[i].slot = slot /\ slot # 0
    BY DEF CallInv, QuiescentInv, TypeOK, CopiesOwn
  <2>2. /\ Len(Rest) = Len(stream) + Len(todo) /\ Len(stream) \in Nat /\ Len(todo) \in Nat
        /\ \A i \in 1 .. Len(stream) + Len(todo) :
             Rest[i] = IF i =< Len(stream) THEN stream[i] ELSE todo[i - Len(stream)]
    BY <2>1, ConcatProperties, LenProperties DEF Rest
  <2>3. CASE Refused /\ stream' = stream
    <3>1. todo' = <<>>
      BY <2>3 DEF Refused, Unwind
    <3>2. Rest' = stream
      BY <3>1, <2>1, <2>3, ConcatEmptySeq DEF Rest
    <3>3. \A i \in 1 .. Len(stream) : i \in 1 .. Len(Rest) /\ stream[i] = Rest[i]
      BY <2>2
    <3> QED BY <3>2, <3>3, <2>1, <1>2 DEF CopiesOwn
  <2>4. CASE Refused /\ stream' = Append(stream, Head(todo))
    <3>1. todo' = <<>> /\ todo # <<>>
      BY <2>4 DEF Refused, Unwind
    <3>2. /\ Head(todo) \in Op(slot) /\ Head(todo) = todo[1] /\ Len(todo) # 0
      BY <3>1, <2>1, HeadTailProperties, EmptySeq
    <3>3. /\ stream' \in Seq(Op(slot)) /\ Len(stream') = Len(stream) + 1
          /\ stream'[Len(stream) + 1] = todo[1]
          /\ \A i \in 1 .. Len(stream) : stream'[i] = stream[i]
      BY <3>2, <2>1, <2>4, AppendProperties
    <3>4. Rest' = stream'
      BY <3>1, <3>3, ConcatEmptySeq DEF Rest
    <3>5. \A i \in 1 .. Len(stream) + 1 : i \in 1 .. Len(Rest) /\ stream'[i] = Rest[i]
      <4> SUFFICES ASSUME NEW i \in 1 .. Len(stream) + 1
                   PROVE  i \in 1 .. Len(Rest) /\ stream'[i] = Rest[i]
        OBVIOUS
      <4>1. CASE i =< Len(stream)
        BY <4>1, <3>3, <2>2
      <4>2. CASE i = Len(stream) + 1
        <5>1. i - Len(stream) = 1 /\ i \in 1 .. Len(Rest) /\ ~(i =< Len(stream))
          BY <4>2, <3>2, <2>2
        <5> QED BY <4>2, <5>1, <3>3, <2>2
      <4> QED BY <4>1, <4>2, <2>2
    <3> QED BY <3>3, <3>4, <3>5, <2>1, <1>2 DEF CopiesOwn
  <2>5. CASE SynchronizeFails
    <3>1. todo = <<>> /\ todo' = <<>> /\ stream' = stream
      BY <2>5 DEF SynchronizeFails, Unwind
    <3>2. Rest' = Rest
      BY <3>1 DEF Rest
    <3> QED BY <3>2, <2>1, <1>2 DEF CopiesOwn
  <2>6. CASE DeviceDies
    <3>1. stream' = <<>> /\ todo' = todo
      BY <2>6 DEF DeviceDies
    <3>2. Rest' = todo
      BY <3>1, <2>1, ConcatEmptySeq DEF Rest
    <3>3. \A i \in 1 .. Len(todo) : /\ Len(stream) + i \in 1 .. Len(Rest)
                                   /\ Rest[Len(stream) + i] = todo[i]
      <4> SUFFICES ASSUME NEW i \in 1 .. Len(todo)
                   PROVE  /\ Len(stream) + i \in 1 .. Len(Rest)
                          /\ Rest[Len(stream) + i] = todo[i]
        OBVIOUS
      <4>1. /\ Len(stream) + i \in 1 .. Len(stream) + Len(todo)
            /\ ~(Len(stream) + i =< Len(stream)) /\ Len(stream) + i - Len(stream) = i
        BY <2>2
      <4> QED BY <4>1, <2>2
    <3> QED BY <3>2, <3>3, <2>1, <1>2 DEF CopiesOwn
  <2> QED BY <2>3, <2>4, <2>5, <2>6 DEF Refused
<1> QED BY <1>1, <1>3, <1>4, <1>5 DEF CallInv

\* Outside a call there is nothing to do.
LEMMA NothingLeft ==
  ASSUME stream = <<>>, todo = <<>>
  PROVE  Rest = <<>> /\ Len(Rest) = 0
<1>1. <<>> \in Seq({}) /\ Len(<<>>) = 0
  OBVIOUS
<1>2. <<>> \o <<>> = <<>>
  BY <1>1, ConcatEmptySeq
<1> QED BY <1>1, <1>2 DEF Rest

LEMMA LeaveKeepsCall ==
  ASSUME CallInv, Synchronize \/ Rethrow
  PROVE  CallInv'
<1>1. QuiescentInv'
  BY StepQuiescent DEF CallInv, Next, Host
<1>2. /\ UNCHANGED <<host, dev, dead, todo, stream>> /\ stream = <<>> /\ todo = <<>>
      /\ pc' = "idle" /\ slot' = 0
  BY DEF Synchronize, Rethrow, Leave, CallInv, QuiescentInv
<1>3. DataOK'
  BY <1>2 DEF CallInv, DataOK, host
<1>4. CopiesOwn'
  <2>1. Rest' = Rest /\ Len(Rest) = 0
    BY <1>2, NothingLeft DEF Rest
  <2> QED BY <2>1 DEF CopiesOwn
<1>5. Delivered'
  <2>1. place \in [Slot -> {"pool", "queued", "infer", "done"}]
    BY DEF CallInv, QuiescentInv, TypeOK
  <2>2. CASE Rethrow
    <3>1. slot # 0 /\ place' = [place EXCEPT ![slot] = "pool"] /\ slot \in Slot
      BY <2>2 DEF Rethrow, Leave, CallInv, QuiescentInv, Slot
    <3> QED BY <3>1, <2>1, <1>2 DEF CallInv, Delivered, host
  <2>3. CASE Synchronize /\ pc = "warmup"
    <3>1. slot = 0 /\ place' = place
      BY <2>3 DEF Synchronize, Leave, CallInv, QuiescentInv
    <3> QED BY <3>1, <1>2 DEF CallInv, Delivered, host
  <2>4. CASE Synchronize /\ pc = "calls"
    <3>1. /\ slot # 0 /\ place' = [place EXCEPT ![slot] = "done"] /\ slot \in Slot
          /\ OnItsWay
      BY <2>4 DEF Synchronize, Leave, CallInv, QuiescentInv, Slot
    <3>2. Len(Rest) = 0
      BY <1>2, NothingLeft
    <3>3. scores[slot] = input[slot] /\ map[slot] = input[slot]
      BY <3>1, <3>2 DEF OnItsWay, Waits
    <3> QED BY <3>1, <3>3, <2>1, <1>2 DEF CallInv, Delivered, host
  <2> QED BY <2>2, <2>3, <2>4 DEF Synchronize
<1> QED BY <1>1, <1>2, <1>3, <1>4, <1>5 DEF CallInv

LEMMA StagesKeepCall ==
  ASSUME CallInv, NEW s \in Slot, Prep(s) \/ Post(s)
  PROVE  CallInv'
<1>1. QuiescentInv'
  BY StepQuiescent DEF CallInv, Next
<1>2. UNCHANGED <<scores, map, dev, stream, dead, pc, todo, slot>>
  BY DEF Prep, Post, host
<1>3. Rest' = Rest
  BY <1>2 DEF Rest
<1>4. /\ place \in [Slot -> {"pool", "queued", "infer", "done"}] /\ seq \in Nat
      /\ input \in [Slot -> Buffer]
  BY DEF CallInv, QuiescentInv, TypeOK, DataOK
<1>5. /\ place[s] # "infer" /\ place'[s] \notin {"infer", "done"}
      /\ \A t \in Slot \ {s} : place'[t] = place[t] /\ input'[t] = input[t]
  BY <1>4 DEF Prep, Post, host
<1>6. DataOK'
  <2>1. CASE Prep(s)
    <3>1. input' = [input EXCEPT ![s] = Of(seq + 1)]
      BY <2>1 DEF Prep, Of
    <3>2. Of(seq + 1) \in Buffer /\ seq + 1 \in Nat
      BY <1>4 DEF Of, Buffer
    <3>3. input' \in [Slot -> Buffer] /\ input'[s] = Of(seq + 1)
      BY <3>1, <3>2, <1>4
    <3> QED BY <3>2, <3>3, <1>2, <1>5 DEF CallInv, DataOK
  <2>2. CASE Post(s)
    BY <2>2, <1>2 DEF Post, host, CallInv, DataOK
  <2> QED BY <2>1, <2>2
<1>7. CopiesOwn'
  BY <1>2, <1>3 DEF CallInv, CopiesOwn
<1>8. Delivered'
  BY <1>2, <1>5 DEF CallInv, Delivered
<1>9. ASSUME pc = "calls", ~dead PROVE Orderly' /\ OnItsWay'
  <2>1. slot \in Slot \ {s}
    BY <1>5, <1>9 DEF CallInv, QuiescentInv
  <2>2. input'[slot'] = input[slot]
    BY <2>1, <1>2, <1>5
  <2>3. Orderly /\ OnItsWay
    BY <1>9 DEF CallInv
  <2>4. Orderly'
    BY <2>3, <1>3 DEF Orderly
  <2>5. OnItsWay'
    BY <2>2, <2>3, <1>2, <1>3 DEF OnItsWay, Waits, Reaches
  <2> QED BY <2>4, <2>5
<1> QED BY <1>1, <1>2, <1>6, <1>7, <1>8, <1>9 DEF CallInv

LEMMA StepCall == CallInv /\ [Next]_vars => CallInv'
<1> SUFFICES ASSUME CallInv, [Next]_vars
             PROVE  CallInv'
  OBVIOUS
<1>1. CASE UNCHANGED vars
  <2>1. QuiescentInv'
    BY StepQuiescent DEF CallInv
  <2>2. UNCHANGED <<loopBatch1, place, seq, input, scores, map, dev, stream, dead, pc, todo, slot>>
    BY <1>1 DEF vars
  <2>3. Rest' = Rest
    BY <2>2 DEF Rest
  <2>4. (DataOK /\ CopiesOwn /\ Delivered)'
    BY <2>2, <2>3 DEF CallInv, DataOK, CopiesOwn, Delivered
  <2>5. Orderly' = Orderly
    BY <2>3 DEF Orderly
  <2>6. OnItsWay' = OnItsWay
    BY <2>2, <2>3 DEF OnItsWay, Waits, Reaches
  <2> QED BY <2>1, <2>2, <2>4, <2>5, <2>6 DEF CallInv
<1>2. CASE \E s \in Slot : Prep(s) \/ Post(s)
  BY <1>2, StagesKeepCall
<1>3. CASE Accepted
  BY <1>3, AcceptedKeeps
<1>4. CASE Synchronize \/ Rethrow
  BY <1>4, LeaveKeepsCall
<1>5. CASE Refused \/ SynchronizeFails \/ DeviceDies
  BY <1>5, ThrownKeeps
<1>6. CASE \E s \in Slot : RunBatch(s)
  BY <1>6, RunBatchKeeps
<1>7. CASE Device
  BY <1>7, DeviceKeeps
<1> QED BY <1>1, <1>2, <1>3, <1>4, <1>5, <1>6, <1>7 DEF Next, Host

(* What the stages see of it.                                               *)

\* Post never finds a mixture, and what it finds is the result of the slot's input.
FoundInput ==
  \A s \in Slot : Found(s) = IF place[s] = "done" THEN input[s][1] ELSE 0

LEMMA FoundIs == CallInv => FoundInput
<1> SUFFICES ASSUME CallInv, NEW s \in Slot
             PROVE  Found(s) = IF place[s] = "done" THEN input[s][1] ELSE 0
  BY DEF FoundInput
<1>1. 1 \in Patch
  BY BatchAssumption DEF Patch
<1>2. PICK b \in Nat : input[s] = Of(b)
  BY DEF CallInv, DataOK
<1>3. input[s][1] = b /\ \A p \in Patch : input[s][p] = b
  BY <1>1, <1>2 DEF Of
<1>4. CASE place[s] = "done"
  <2>1. scores[s] = input[s] /\ map[s] = input[s]
    BY <1>4 DEF CallInv, Delivered
  <2>2. Outputs(s) = {b}
    BY <1>1, <1>3, <2>1 DEF Outputs
  <2> QED BY <1>3, <1>4, <2>2 DEF Found
<1>5. CASE place[s] # "done"
  BY <1>3, <1>5 DEF Found
<1> QED BY <1>4, <1>5

LEMMA InitRefines == Init => Call!Init
<1> SUFFICES ASSUME Init
             PROVE  Call!Init
  OBVIOUS
<1>1. 1 \in Patch
  BY BatchAssumption DEF Patch
<1>2. \A s \in Slot : input[s][1] = 0 /\ place[s] = "pool"
  BY <1>1 DEF Init, Blank
<1>3. \A s \in Slot : Found(s) = 0
  BY <1>2 DEF Found
<1>4. place = [s \in Slot |-> "pool"]
  BY DEF Init
<1> QED BY <1>2, <1>3, <1>4 DEF Call!Init

\* Every step is a step of the call or none.
LEMMA StepRefines ==
  ASSUME CallInv, CallInv', [Next]_vars
  PROVE  [Call!Next]_(Call!vars)
<1> DEFINE batch == [s \in Slot |-> input[s][1]]
           out   == [s \in Slot |-> Found(s)]
<1>1. /\ place \in [Slot -> {"pool", "queued", "infer", "done"}]
      /\ 1 \in Patch /\ input \in [Slot -> Buffer] /\ seq \in Nat
  BY BatchAssumption DEF CallInv, QuiescentInv, TypeOK, Patch, DataOK
<1>2. FoundInput /\ FoundInput'
  BY FoundIs, PTL
<1>3. out = [s \in Slot |-> IF place[s] = "done" THEN input[s][1] ELSE 0]
  BY <1>2 DEF FoundInput
<1>4. out' = [s \in Slot |-> IF place'[s] = "done" THEN input'[s][1] ELSE 0]
  BY <1>2 DEF FoundInput
<1> HIDE DEF out
<1>5. CASE UNCHANGED <<place, input>>
  <2>1. out' = out /\ batch' = batch
    BY <1>3, <1>4, <1>5
  <2> QED BY <1>5, <2>1 DEF Call!vars, out
<1>6. ASSUME NEW s \in Slot, Prep(s)
      PROVE  Call!Fill(s)
  <2>1. /\ place[s] = "pool" /\ seq + 1 \in 1 .. MaxBatch
        /\ place' = [place EXCEPT ![s] = "queued"]
        /\ input' = [input EXCEPT ![s] = [p \in Patch |-> seq + 1]]
    BY <1>1, <1>6, BatchAssumption DEF Prep
  <2>2. batch' = [batch EXCEPT ![s] = seq + 1]
    BY <1>1, <2>1
  <2>3. out' = out
    BY <1>1, <1>3, <1>4, <2>1
  <2> QED BY <2>1, <2>2, <2>3 DEF Call!Fill, Call!Move, out
<1>7. ASSUME NEW s \in Slot, Post(s)
      PROVE  Call!Release(s)
  <2>1. place[s] = "done" /\ place' = [place EXCEPT ![s] = "pool"] /\ input' = input
    BY <1>7 DEF Post, host
  <2>2. out' = [out EXCEPT ![s] = 0]
    BY <1>1, <1>3, <1>4, <2>1
  <2> QED BY <2>1, <2>2 DEF Call!Release, Call!Move, out
<1>8. ASSUME NEW s \in Slot, RunBatch(s)
      PROVE  Call!Call(s)
  <2>1. place[s] = "queued" /\ place' = [place EXCEPT ![s] = "infer"] /\ input' = input
    BY <1>8 DEF RunBatch, host
  <2>2. out' = out
    BY <1>1, <1>3, <1>4, <2>1
  <2> QED BY <2>1, <2>2 DEF Call!Call, Call!Move, out
<1>9. ASSUME Synchronize, slot # 0
      PROVE  Call!Succeed(slot) /\ slot \in Slot
  <2>1. slot \in Slot /\ place[slot] = "infer" /\ input' = input
        /\ place' = [place EXCEPT ![slot] = "done"]
    BY <1>9 DEF Synchronize, Leave, CallInv, QuiescentInv, host
  <2>2. out' = [out EXCEPT ![slot] = batch[slot]]
    BY <1>1, <1>3, <1>4, <2>1
  <2> QED BY <2>1, <2>2 DEF Call!Succeed, Call!Move, out
<1>10. ASSUME Rethrow
       PROVE  Call!Throw(slot) /\ slot \in Slot
  <2>1. slot \in Slot /\ slot # 0 /\ place[slot] = "infer" /\ input' = input
        /\ place' = [place EXCEPT ![slot] = "pool"]
    BY <1>10 DEF Rethrow, Leave, CallInv, QuiescentInv, Slot, host
  <2>2. out' = out
    BY <1>1, <1>3, <1>4, <2>1
  <2> QED BY <2>1, <2>2 DEF Call!Throw, Call!Move, out
<1>11. CASE Accepted \/ Refused \/ SynchronizeFails \/ DeviceDies
  BY <1>5, <1>11 DEF Accepted, Refused, SynchronizeFails, DeviceDies, host
<1>12. CASE Synchronize /\ slot = 0
  BY <1>5, <1>12 DEF Synchronize, Leave, host
<1>13. CASE Device
  <2>1. UNCHANGED input
    BY <1>13, Effects
  <2> QED BY <1>5, <1>13, <2>1 DEF Device
<1>14. CASE UNCHANGED vars
  BY <1>5, <1>14 DEF vars
<1> QED BY <1>6, <1>7, <1>8, <1>9, <1>10, <1>11, <1>12, <1>13, <1>14 DEF Next, Host, Call!Next

\* RunBatch takes effect at once, whatever fails and wherever: for the stages around
\* it a call either leaves in every patch of its slot the outputs of the batch that
\* was in its input, or throws and leaves nothing (OrtSession.cpp:350-396).
THEOREM CallIsAtomic == Spec => Call!SafeSpec
<1>1. CallInv /\ CallInv' /\ [Next]_vars => [Call!Next]_(Call!vars)
  BY StepRefines
<1> QED BY <1>1, InitCall, StepCall, InitRefines, PTL DEF Spec, Call!SafeSpec
=============================================================================
