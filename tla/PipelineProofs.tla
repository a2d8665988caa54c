--------------------------- MODULE PipelineProofs ---------------------------
(***************************************************************************)
(* Theorems about Pipeline for every number of threads, buffers and queue   *)
(* places that satisfies ValidateCrossConstraints.                          *)
(*                                                                         *)
(* The inductive invariant IndInv counts buffers and does not name them:    *)
(* the frames (slots) in the channels and in threads' hands add up to       *)
(* NumFrames (NumSlots) until the pool they return to is stopped.  A stage  *)
(* thread changes that sum in one of six ways (Stay, TakeSlot, PassSlot,    *)
(* ReturnSlot, TakeFrame, ReturnFrame); each action is one or two of them.  *)
(*                                                                         *)
(* The second half follows the batches.  A buffer carries a batch, a frame  *)
(* until prep has copied it (RawCarriers) and a slot until it has been      *)
(* published or given up (SlotCarriers), and a step of any thread is one of *)
(* six BatchMoves of these carriers.  Read by number, every batch that was  *)
(* read is in one carrier, in the sink, among the failed, or lost in an     *)
(* abort (LedgerInv).  From that follow what the sink has been given, that  *)
(* Drain delivers all, the ledger of FrameLedger, and the order of the      *)
(* batches where every stage has one thread.                                *)
(***************************************************************************)
EXTENDS Pipeline, FiniteSetTheorems, SequenceTheorems, TLAPS

-----------------------------------------------------------------------------
(* Finite sets, and the functions the actions update.                      *)

\* Two finite sets without a common element.
LEMMA DisjointUnion ==
  ASSUME NEW S, NEW T, IsFiniteSet(S), IsFiniteSet(T), S \cap T = {}
  PROVE  /\ IsFiniteSet(S \cup T)
         /\ Cardinality(S \cup T) = Cardinality(S) + Cardinality(T)
<1>1. Cardinality(S \cap T) = 0
  BY FS_EmptySet
<1>2. Cardinality(S) \in Nat /\ Cardinality(T) \in Nat
  BY FS_CardinalityType
<1>3. Cardinality(S \cup T) = Cardinality(S) + Cardinality(T) - Cardinality(S \cap T)
  BY FS_Union, Zenon
<1>4. IsFiniteSet(S \cup T)
  BY FS_Union, Zenon
<1> QED BY <1>1, <1>2, <1>3, <1>4

\* Two subsets that differ in one element at most.
LEMMA CountMove ==
  ASSUME NEW S, IsFiniteSet(S), NEW A \in SUBSET S, NEW B \in SUBSET S, NEW w,
         \A v \in S \ {w} : v \in A <=> v \in B
  PROVE  /\ Cardinality(A) \in Nat /\ Cardinality(B) \in Nat
         /\ Cardinality(B) = IF w \in A <=> w \in B THEN Cardinality(A)
                             ELSE IF w \in B THEN Cardinality(A) + 1
                                             ELSE Cardinality(A) - 1
<1>1. /\ IsFiniteSet(A) /\ Cardinality(A) \in Nat
      /\ IsFiniteSet(B) /\ Cardinality(B) \in Nat
  BY FS_Subset, FS_CardinalityType
<1>2. CASE w \in A <=> w \in B
  <2>1. B = A
    BY <1>2
  <2> QED BY <1>1, <1>2, <2>1
<1>3. CASE w \in B /\ w \notin A
  <2>1. B = A \cup {w}
    BY <1>3
  <2>2. Cardinality(A \cup {w}) = Cardinality(A) + 1
    BY <1>1, <1>3, FS_AddElement
  <2> QED BY <1>1, <1>3, <2>1, <2>2
<1>4. CASE w \notin B /\ w \in A
  <2>1. B = A \ {w}
    BY <1>4
  <2>2. Cardinality(A \ {w}) = Cardinality(A) - 1
    BY <1>1, <1>4, FS_RemoveElement
  <2> QED BY <1>1, <1>4, <2>1, <2>2
<1> QED BY <1>2, <1>3, <1>4, <1>1

\* There are finitely many stage threads, and their numbers add up.
LEMMA WorkersFinite ==
  /\ IsFiniteSet(Worker)
  /\ Cardinality(Prep) \in Nat /\ Cardinality(Infer) \in Nat /\ Cardinality(Post) \in Nat
  /\ Cardinality(Worker) = Cardinality(Prep) + Cardinality(Infer) + Cardinality(Post)
<1>1. IsFiniteSet(Prep \cup Infer) /\ Cardinality(Prep \cup Infer) = Cardinality(Prep) + Cardinality(Infer)
  BY DisjointUnion, ThreadAssumption
<1>2. (Prep \cup Infer) \cap Post = {}
  BY ThreadAssumption
<1>3. IsFiniteSet(Worker) /\ Cardinality(Worker) = Cardinality(Prep \cup Infer) + Cardinality(Post)
  BY <1>1, <1>2, DisjointUnion, ThreadAssumption DEF Worker
<1> QED BY <1>1, <1>3, FS_CardinalityType, ThreadAssumption

\* The capacities, one by one.
LEMMA CapValues ==
  /\ Channel = {"rawPool", "qRaw", "slotPool", "qPrep", "qInf"}
  /\ Cap["rawPool"] = NumFrames /\ Cap["qRaw"] = QRawCap
  /\ Cap["slotPool"] = NumSlots /\ Cap["qPrep"] = QPrepCap /\ Cap["qInf"] = QInfCap
BY DEF Cap, Channel

\* What push_locked does to a channel that has room.
LEMMA PushType ==
  ASSUME ChannelsOK, NEW c \in Channel, NEW x \in Items(c), PushTo(c, x), Len(q[c]) < Cap[c]
  PROVE  /\ ChannelsOK' /\ Len(q'[c]) = Len(q[c]) + 1
         /\ \A d \in Channel \ {c} : q'[d] = q[d]
<1>0. Cap[c] \in Nat /\ x \in Nat
  BY CapValues, SizeAssumption DEF Items, Frame, Slot
<1>1. q'[c] = Append(q[c], x) /\ \A d \in Channel \ {c} : q'[d] = q[d]
  BY DEF PushTo, ChannelsOK
<1>2. q'[c] \in Seq(Items(c)) /\ q'[c] \in Seq(Nat) /\ Len(q'[c]) = Len(q[c]) + 1 /\ Len(q[c]) \in Nat
  BY <1>0, <1>1, AppendProperties, LenProperties DEF ChannelsOK
<1>3. q' \in [Channel -> Seq(Nat)]
  BY <1>1, <1>2 DEF ChannelsOK, PushTo
<1>4. ASSUME NEW d \in Channel
      PROVE  q'[d] \in Seq(Items(d)) /\ Len(q'[d]) =< Cap[d]
  <2>1. CASE d = c
    BY <1>0, <1>2, <2>1 DEF ChannelsOK
  <2>2. CASE d # c
    BY <1>1, <2>2 DEF ChannelsOK
  <2> QED BY <2>1, <2>2
<1>5. ChannelsOK'
  BY <1>3, <1>4 DEF ChannelsOK
<1> QED BY <1>1, <1>2, <1>5

\* What pop_locked does to a channel that is not empty.
LEMMA PopType ==
  ASSUME ChannelsOK, NEW c \in Channel, PopFrom(c), CanPop(c)
  PROVE  /\ ChannelsOK' /\ Len(q'[c]) = Len(q[c]) - 1
         /\ \A d \in Channel \ {c} : q'[d] = q[d]
         /\ Head(q[c]) \in Items(c)
<1>0. Cap[c] \in Nat
  BY CapValues, SizeAssumption
<1>1. q'[c] = Tail(q[c]) /\ \A d \in Channel \ {c} : q'[d] = q[d]
  BY DEF PopFrom, ChannelsOK
<1>2. q'[c] \in Seq(Items(c)) /\ q'[c] \in Seq(Nat) /\ Len(q'[c]) = Len(q[c]) - 1 /\ Len(q[c]) \in Nat
       /\ Head(q[c]) \in Items(c)
  BY <1>1, HeadTailProperties, EmptySeq, LenProperties DEF ChannelsOK, CanPop
<1>3. q' \in [Channel -> Seq(Nat)]
  BY <1>1, <1>2 DEF ChannelsOK, PopFrom
<1>4. ASSUME NEW d \in Channel
      PROVE  q'[d] \in Seq(Items(d)) /\ Len(q'[d]) =< Cap[d]
  <2>1. CASE d = c
    BY <1>0, <1>2, <2>1 DEF ChannelsOK
  <2>2. CASE d # c
    BY <1>1, <2>2 DEF ChannelsOK
  <2> QED BY <2>1, <2>2
<1>5. ChannelsOK'
  BY <1>3, <1>4 DEF ChannelsOK
<1> QED BY <1>1, <1>2, <1>5

\* One thread moves from one pc to another.
LEMMA PcMove ==
  ASSUME PcOK, NEW w \in Worker, NEW l, GoTo(w, l),
         w \in Prep => l \in PrepPcs, w \in Infer => l \in InferPcs,
         w \in Post => l \in PostPcs
  PROVE  PcOK' /\ pc'[w] = l /\ \A v \in Worker \ {w} : pc'[v] = pc[v]
BY DEF PcOK, GoTo, Worker

\* A thread changes its pc and its local `slot` together.
LEMMA SlotMove ==
  ASSUME PcOK, SlotHeldOK, NEW w \in Worker, NEW l, GoTo(w, l),
         NEW s \in Slot \cup {0}, slot' = [slot EXCEPT ![w] = s],
         l \in SlotPcs <=> s \in Slot
  PROVE  SlotHeldOK'
<1>1. pc'[w] = l /\ \A v \in Worker \ {w} : pc'[v] = pc[v]
  BY DEF PcOK, GoTo
<1> QED BY <1>1 DEF SlotHeldOK, SlotHolders

\* A thread changes its pc and keeps its local `slot`.
LEMMA SlotStay ==
  ASSUME PcOK, SlotHeldOK, NEW w \in Worker, NEW l, GoTo(w, l), UNCHANGED slot,
         l \in SlotPcs <=> pc[w] \in SlotPcs
  PROVE  SlotHeldOK'
<1>1. pc'[w] = l /\ \A v \in Worker \ {w} : pc'[v] = pc[v]
  BY DEF PcOK, GoTo
<1> QED BY <1>1 DEF SlotHeldOK, SlotHolders

\* The same two facts for a prep thread and its local `raw`.
LEMMA FrameMove ==
  ASSUME PcOK, FrameHeldOK, NEW w \in Prep, NEW l, GoTo(w, l),
         NEW f \in Frame \cup {0}, frame' = [frame EXCEPT ![w] = f],
         l \in FramePcs <=> f \in Frame
  PROVE  FrameHeldOK'
<1>1. pc'[w] = l /\ \A v \in Prep \ {w} : pc'[v] = pc[v]
  BY DEF PcOK, GoTo, Worker
<1> QED BY <1>1 DEF FrameHeldOK, FrameHolders

\* A move between pcs that agree about the frame.
LEMMA FrameStay ==
  ASSUME PcOK, FrameHeldOK, NEW w \in Worker, NEW l, GoTo(w, l), UNCHANGED frame,
         w \in Prep => (l \in FramePcs <=> pc[w] \in FramePcs)
  PROVE  FrameHeldOK'
<1>1. pc'[w] = l /\ \A v \in Worker \ {w} : pc'[v] = pc[v]
  BY DEF PcOK, GoTo
<1> QED BY <1>1 DEF FrameHeldOK, FrameHolders, Worker

\* How the numbers of holders change when a thread moves.
LEMMA HolderCount ==
  ASSUME PcOK, NEW w \in Worker, NEW l, GoTo(w, l)
  PROVE  /\ Cardinality(FrameHolders) \in Nat /\ Cardinality(FrameHolders)' \in Nat
         /\ Cardinality(SlotHolders) \in Nat /\ Cardinality(SlotHolders)' \in Nat
         /\ Cardinality(FrameHolders)' =
              IF w \notin Prep \/ (l \in FramePcs <=> pc[w] \in FramePcs)
              THEN Cardinality(FrameHolders)
              ELSE IF l \in FramePcs THEN Cardinality(FrameHolders) + 1
                                     ELSE Cardinality(FrameHolders) - 1
         /\ Cardinality(SlotHolders)' =
              IF l \in SlotPcs <=> pc[w] \in SlotPcs THEN Cardinality(SlotHolders)
              ELSE IF l \in SlotPcs THEN Cardinality(SlotHolders) + 1
                                    ELSE Cardinality(SlotHolders) - 1
<1>1. pc'[w] = l /\ \A v \in Worker \ {w} : pc'[v] = pc[v]
  BY DEF PcOK, GoTo
<1>2. IsFiniteSet(Prep) /\ Prep \subseteq Worker /\ IsFiniteSet(Worker)
  BY ThreadAssumption, WorkersFinite DEF Worker
<1>3. /\ FrameHolders \in SUBSET Prep /\ FrameHolders' \in SUBSET Prep
      /\ \A v \in Prep \ {w} : v \in FrameHolders <=> v \in FrameHolders'
      /\ w \in FrameHolders <=> w \in Prep /\ pc[w] \in FramePcs
      /\ w \in FrameHolders' <=> w \in Prep /\ l \in FramePcs
  BY <1>1, <1>2 DEF FrameHolders
<1>4. /\ SlotHolders \in SUBSET Worker /\ SlotHolders' \in SUBSET Worker
      /\ \A v \in Worker \ {w} : v \in SlotHolders <=> v \in SlotHolders'
      /\ w \in SlotHolders <=> pc[w] \in SlotPcs
      /\ w \in SlotHolders' <=> l \in SlotPcs
  BY <1>1, <1>2 DEF SlotHolders
<1>5. /\ Cardinality(FrameHolders) \in Nat /\ Cardinality(FrameHolders') \in Nat
      /\ Cardinality(FrameHolders') =
           IF w \in FrameHolders <=> w \in FrameHolders' THEN Cardinality(FrameHolders)
           ELSE IF w \in FrameHolders' THEN Cardinality(FrameHolders) + 1
                                       ELSE Cardinality(FrameHolders) - 1
  BY <1>2, <1>3, CountMove
<1>6. /\ Cardinality(SlotHolders) \in Nat /\ Cardinality(SlotHolders') \in Nat
      /\ Cardinality(SlotHolders') =
           IF w \in SlotHolders <=> w \in SlotHolders' THEN Cardinality(SlotHolders)
           ELSE IF w \in SlotHolders' THEN Cardinality(SlotHolders) + 1
                                      ELSE Cardinality(SlotHolders) - 1
  BY <1>2, <1>4, CountMove
<1> QED BY <1>3, <1>4, <1>5, <1>6

\* A try_push into a channel that has room fails only when it is stopped.
LEMMA TryPushType ==
  ASSUME ChannelsOK, NEW c \in Channel, NEW x \in Items(c), TryPush(c, x)
  PROVE  /\ ChannelsOK'
         /\ \A d \in Channel \ {c} : q'[d] = q[d]
         /\ Len(q'[c]) = IF CanPush(c) THEN Len(q[c]) + 1 ELSE Len(q[c])
<1>1. CASE CanPush(c)
  BY <1>1, PushType DEF TryPush, CanPush
<1>2. CASE ~CanPush(c)
  BY <1>2 DEF TryPush, ChannelsOK
<1> QED BY <1>1, <1>2

\* The lengths of the channels are numbers.
LEMMA LenTypes == ASSUME ChannelsOK
                  PROVE  /\ Len(q["rawPool"]) \in Nat /\ Len(q["qRaw"]) \in Nat
                         /\ Len(q["slotPool"]) \in Nat /\ Len(q["qPrep"]) \in Nat
                         /\ Len(q["qInf"]) \in Nat
BY LenProperties DEF ChannelsOK, Channel

\* The parts of IndInv that a stage thread can only disturb through pc and q.
LEMMA WorkerFrame ==
  ASSUME IndInv, UNCHANGED <<stopped, source, main>>, DataOK', ChannelsOK', PcOK',
         FrameHeldOK', SlotHeldOK', FrameCount', SlotCount'
  PROVE  IndInv'
BY DEF IndInv, TypeOK, IngestOK, MainOK, OpenWhileListening, source

\* A thread belongs to one stage.
LEMMA Kinds ==
  /\ \A w \in Prep : w \in Worker /\ w \notin Infer /\ w \notin Post
  /\ \A w \in Infer : w \in Worker /\ w \notin Prep /\ w \notin Post
  /\ \A w \in Post : w \in Worker /\ w \notin Prep /\ w \notin Infer
BY ThreadAssumption DEF Worker
-----------------------------------------------------------------------------
(* What a stage thread can do to the counts: one lemma per kind of movement. *)

SlotQueues  == Len(q["slotPool"]) + Len(q["qPrep"]) + Len(q["qInf"])
FrameQueues == Len(q["rawPool"]) + Len(q["qRaw"])

\* The pcs that thread w may be at.
PcOf(w, l) == /\ w \in Prep => l \in PrepPcs
              /\ w \in Infer => l \in InferPcs
              /\ w \in Post => l \in PostPcs

\* A pool is a part of the queues of its kind of buffer.
LEMMA PoolPart ==
  ASSUME ChannelsOK
  PROVE  /\ FrameQueues \in Nat /\ SlotQueues \in Nat
         /\ Len(q["rawPool"]) \in Nat /\ Len(q["rawPool"]) =< FrameQueues
         /\ Len(q["slotPool"]) \in Nat /\ Len(q["slotPool"]) =< SlotQueues
BY LenTypes DEF FrameQueues, SlotQueues, ChannelsOK, Channel

\* The queue of one kind of buffer changes by one channel's change.
LEMMA QueueSums ==
  ASSUME ChannelsOK, ChannelsOK', NEW c \in Channel,
         \A d \in Channel \ {c} : q'[d] = q[d]
  PROVE  /\ FrameQueues \in Nat /\ FrameQueues' \in Nat
         /\ SlotQueues \in Nat /\ SlotQueues' \in Nat
         /\ FrameQueues' = IF c \in {"rawPool", "qRaw"}
                           THEN FrameQueues + Len(q'[c]) - Len(q[c]) ELSE FrameQueues
         /\ SlotQueues' = IF c \in {"rawPool", "qRaw"}
                          THEN SlotQueues ELSE SlotQueues + Len(q'[c]) - Len(q[c])
<1>1. /\ Len(q["rawPool"]) \in Nat /\ Len(q["qRaw"]) \in Nat
      /\ Len(q["slotPool"]) \in Nat /\ Len(q["qPrep"]) \in Nat /\ Len(q["qInf"]) \in Nat
  BY LenTypes
<1>2. /\ Len(q'["rawPool"]) \in Nat /\ Len(q'["qRaw"]) \in Nat
      /\ Len(q'["slotPool"]) \in Nat /\ Len(q'["qPrep"]) \in Nat /\ Len(q'["qInf"]) \in Nat
  <2>1. /\ q'["rawPool"] \in Seq(Frame) /\ q'["qRaw"] \in Seq(Frame)
        /\ q'["slotPool"] \in Seq(Slot) /\ q'["qPrep"] \in Seq(Slot)
        /\ q'["qInf"] \in Seq(Slot)
    BY DEF ChannelsOK, Channel, Items
  <2> QED BY <2>1, LenProperties
<1>3. CASE c = "rawPool"
  <2>1. /\ q'["qRaw"] = q["qRaw"] /\ q'["slotPool"] = q["slotPool"]
        /\ q'["qPrep"] = q["qPrep"] /\ q'["qInf"] = q["qInf"]
    BY <1>3 DEF Channel
  <2> QED BY <1>1, <1>2, <1>3, <2>1 DEF FrameQueues, SlotQueues, ChannelsOK, Channel
<1>4. CASE c = "qRaw"
  <2>1. /\ q'["rawPool"] = q["rawPool"] /\ q'["slotPool"] = q["slotPool"]
        /\ q'["qPrep"] = q["qPrep"] /\ q'["qInf"] = q["qInf"]
    BY <1>4 DEF Channel
  <2> QED BY <1>1, <1>2, <1>4, <2>1 DEF FrameQueues, SlotQueues, ChannelsOK, Channel
<1>5. CASE c = "slotPool"
  <2>1. /\ q'["rawPool"] = q["rawPool"] /\ q'["qRaw"] = q["qRaw"]
        /\ q'["qPrep"] = q["qPrep"] /\ q'["qInf"] = q["qInf"]
    BY <1>5 DEF Channel
  <2> QED BY <1>1, <1>2, <1>5, <2>1 DEF FrameQueues, SlotQueues, ChannelsOK, Channel
<1>6. CASE c = "qPrep"
  <2>1. /\ q'["rawPool"] = q["rawPool"] /\ q'["qRaw"] = q["qRaw"]
        /\ q'["slotPool"] = q["slotPool"] /\ q'["qInf"] = q["qInf"]
    BY <1>6 DEF Channel
  <2> QED BY <1>1, <1>2, <1>6, <2>1 DEF FrameQueues, SlotQueues, ChannelsOK, Channel
<1>7. CASE c = "qInf"
  <2>1. /\ q'["rawPool"] = q["rawPool"] /\ q'["qRaw"] = q["qRaw"]
        /\ q'["slotPool"] = q["slotPool"] /\ q'["qPrep"] = q["qPrep"]
    BY <1>7 DEF Channel
  <2> QED BY <1>1, <1>2, <1>7, <2>1 DEF FrameQueues, SlotQueues, ChannelsOK, Channel
<1> QED BY <1>3, <1>4, <1>5, <1>6, <1>7 DEF Channel

\* The buffers in place are those in queues and those in hands.
LEMMA PlaceSums ==
  /\ FramesInPlace = FrameQueues + Cardinality(FrameHolders)
                       + (IF ingest = "push" THEN 1 ELSE 0)
  /\ SlotsInPlace = SlotQueues + Cardinality(SlotHolders)
  /\ FramesInPlace' = FrameQueues' + Cardinality(FrameHolders)'
                        + (IF ingest' = "push" THEN 1 ELSE 0)
  /\ SlotsInPlace' = SlotQueues' + Cardinality(SlotHolders)'
BY DEF FramesInPlace, SlotsInPlace, FrameQueues, SlotQueues

\* The thread moves on with what it holds.
LEMMA Stay ==
  ASSUME IndInv, NEW w \in Worker, NEW l, GoTo(w, l), PcOf(w, l),
         w \in Prep => (l \in FramePcs <=> pc[w] \in FramePcs),
         l \in SlotPcs <=> pc[w] \in SlotPcs,
         UNCHANGED <<q, stopped, source, main, frame, slot>>, DataOK'
  PROVE  IndInv'
<1>1. ChannelsOK' /\ PcOK' /\ FrameHeldOK' /\ SlotHeldOK'
  BY PcMove, FrameStay, SlotStay DEF IndInv, TypeOK, ChannelsOK, PcOf
<1>2. /\ Cardinality(FrameHolders)' = Cardinality(FrameHolders)
      /\ Cardinality(SlotHolders)' = Cardinality(SlotHolders)
  BY HolderCount DEF IndInv, TypeOK
<1>3. FrameCount' /\ SlotCount'
  BY <1>2 DEF IndInv, FrameCount, SlotCount, FramesInPlace, SlotsInPlace, source
<1> QED BY <1>1, <1>3, WorkerFrame

\* The thread takes the oldest slot of a channel.
LEMMA TakeSlot ==
  ASSUME IndInv, NEW w \in Worker, NEW l, GoTo(w, l), PcOf(w, l),
         w \in Prep => (l \in FramePcs <=> pc[w] \in FramePcs),
         l \in SlotPcs, pc[w] \notin SlotPcs,
         NEW c \in {"slotPool", "qPrep", "qInf"}, CanPop(c), PopFrom(c),
         slot' = [slot EXCEPT ![w] = Head(q[c])],
         UNCHANGED <<stopped, source, main, frame>>, DataOK'
  PROVE  IndInv'
<1>1. /\ c \in Channel /\ c \notin {"rawPool", "qRaw"} /\ Items(c) = Slot
      /\ ChannelsOK /\ PcOK /\ FrameHeldOK /\ SlotHeldOK
  BY DEF Channel, Items, IndInv, TypeOK
<1>2. /\ ChannelsOK' /\ Len(q'[c]) = Len(q[c]) - 1 /\ Len(q[c]) \in Nat
      /\ \A d \in Channel \ {c} : q'[d] = q[d]
      /\ Head(q[c]) \in Slot
  BY <1>1, PopType, LenProperties DEF ChannelsOK
<1>3. PcOK' /\ FrameHeldOK'
  BY <1>1, PcMove, FrameStay DEF PcOf
<1>4. SlotHeldOK'
  <2>1. Head(q[c]) \in Slot \cup {0}
    BY <1>2
  <2> QED BY <1>1, <1>2, <2>1, SlotMove
<1>5. /\ Cardinality(FrameHolders)' = Cardinality(FrameHolders)
      /\ Cardinality(SlotHolders)' = Cardinality(SlotHolders) + 1
      /\ Cardinality(SlotHolders) \in Nat
  BY <1>1, HolderCount
<1>6. /\ FrameQueues' = FrameQueues /\ SlotQueues' = SlotQueues - 1
      /\ SlotQueues \in Nat
  BY <1>1, <1>2, QueueSums DEF ChannelsOK
<1>7. FramesInPlace' = FramesInPlace /\ SlotsInPlace' = SlotsInPlace
  BY <1>5, <1>6, PlaceSums DEF source
<1>8. FrameCount' /\ SlotCount'
  BY <1>7 DEF IndInv, FrameCount, SlotCount
<1> QED BY <1>2, <1>3, <1>4, <1>8, WorkerFrame

\* The thread hands its slot on through a channel that has room for it.
LEMMA PassSlot ==
  ASSUME IndInv, NEW w \in Worker, NEW l, GoTo(w, l), PcOf(w, l),
         w \in Prep => (l \in FramePcs <=> pc[w] \in FramePcs),
         l \notin SlotPcs, pc[w] \in SlotPcs,
         NEW c \in {"slotPool", "qPrep", "qInf"}, CanPush(c), PushTo(c, slot[w]),
         slot' = [slot EXCEPT ![w] = 0],
         UNCHANGED <<stopped, source, main, frame>>, DataOK'
  PROVE  IndInv'
<1>1. /\ c \in Channel /\ c \notin {"rawPool", "qRaw"} /\ Items(c) = Slot
      /\ ChannelsOK /\ PcOK /\ FrameHeldOK /\ SlotHeldOK /\ slot[w] \in Slot
  BY DEF Channel, Items, IndInv, TypeOK, SlotHeldOK, SlotHolders
<1>2. /\ ChannelsOK' /\ Len(q'[c]) = Len(q[c]) + 1 /\ Len(q[c]) \in Nat
      /\ \A d \in Channel \ {c} : q'[d] = q[d]
  BY <1>1, PushType, LenProperties DEF ChannelsOK, CanPush
<1>3. PcOK' /\ FrameHeldOK'
  BY <1>1, PcMove, FrameStay DEF PcOf
<1>4. SlotHeldOK'
  <2>1. 0 \in Slot \cup {0} /\ 0 \notin Slot
    BY DEF Slot
  <2> QED BY <1>1, <2>1, SlotMove
<1>5. /\ Cardinality(FrameHolders)' = Cardinality(FrameHolders)
      /\ Cardinality(SlotHolders)' = Cardinality(SlotHolders) - 1
      /\ Cardinality(SlotHolders) \in Nat
  BY <1>1, HolderCount
<1>6. /\ FrameQueues' = FrameQueues /\ SlotQueues' = SlotQueues + 1
      /\ SlotQueues \in Nat
  BY <1>1, <1>2, QueueSums DEF ChannelsOK
<1>7. FramesInPlace' = FramesInPlace /\ SlotsInPlace' = SlotsInPlace
  BY <1>5, <1>6, PlaceSums DEF source
<1>8. FrameCount' /\ SlotCount'
  BY <1>7 DEF IndInv, FrameCount, SlotCount
<1> QED BY <1>2, <1>3, <1>4, <1>8, WorkerFrame

\* The thread gives its slot back to the pool.  The pool has room for it, so
\* only a stopped pool lets it go.
LEMMA ReturnSlot ==
  ASSUME IndInv, NEW w \in Worker, NEW l, GoTo(w, l), PcOf(w, l),
         w \in Prep => (l \in FramePcs <=> pc[w] \in FramePcs),
         l \notin SlotPcs, pc[w] \in SlotPcs,
         TryPush("slotPool", slot[w]), slot' = [slot EXCEPT ![w] = 0],
         UNCHANGED <<stopped, source, main, frame>>, DataOK'
  PROVE  IndInv'
<1>1. CASE CanPush("slotPool")
  BY <1>1, PassSlot DEF TryPush
<1>2. CASE ~CanPush("slotPool")
  <2>1. UNCHANGED q /\ ChannelsOK /\ PcOK /\ FrameHeldOK /\ SlotHeldOK
    BY <1>2 DEF TryPush, IndInv, TypeOK
  <2>2. ChannelsOK' /\ PcOK' /\ FrameHeldOK'
    BY <2>1, PcMove, FrameStay DEF PcOf, ChannelsOK
  <2>3. SlotHeldOK'
    <3>1. 0 \in Slot \cup {0} /\ 0 \notin Slot
      BY DEF Slot
    <3> QED BY <2>1, <3>1, SlotMove
  <2>4. /\ Cardinality(FrameHolders)' = Cardinality(FrameHolders)
        /\ Cardinality(SlotHolders)' = Cardinality(SlotHolders) - 1
        /\ Cardinality(SlotHolders) \in Nat /\ Cardinality(SlotHolders)' \in Nat
    BY <2>1, HolderCount
  <2>5. FramesInPlace' = FramesInPlace
    BY <2>1, <2>4 DEF FramesInPlace, source
  <2>6. /\ SlotsInPlace \in Nat /\ SlotsInPlace' =< SlotsInPlace
        /\ SlotsInPlace' \in Nat /\ Len(q["slotPool"]) < SlotsInPlace
    <3>1. SlotQueues' = SlotQueues
      BY <2>1 DEF SlotQueues
    <3>2. /\ SlotQueues \in Nat /\ Len(q["slotPool"]) \in Nat
          /\ Len(q["slotPool"]) =< SlotQueues
      BY <2>1, PoolPart
    <3>3. /\ SlotsInPlace = SlotQueues + Cardinality(SlotHolders)
          /\ SlotsInPlace' = SlotQueues' + Cardinality(SlotHolders)'
      BY PlaceSums
    <3> QED BY <2>4, <3>1, <3>2, <3>3
  <2>7. stopped["slotPool"]
    BY <1>2, <2>1, <2>6, LenTypes, CapValues, SizeAssumption DEF CanPush, IndInv, SlotCount
  <2>8. FrameCount' /\ SlotCount'
    BY <2>5, <2>6, <2>7, SizeAssumption DEF IndInv, FrameCount, SlotCount
  <2>9. UNCHANGED <<stopped, source, main>> /\ DataOK'
    BY <2>1
  <2> QED BY <2>2, <2>3, <2>8, <2>9, WorkerFrame
<1> QED BY <1>1, <1>2

\* A prep thread takes the oldest raw frame.
LEMMA TakeFrame ==
  ASSUME IndInv, NEW w \in Prep, NEW l \in PrepPcs, GoTo(w, l),
         l \in FramePcs, pc[w] \notin FramePcs,
         l \in SlotPcs <=> pc[w] \in SlotPcs,
         CanPop("qRaw"), PopFrom("qRaw"),
         frame' = [frame EXCEPT ![w] = Head(q["qRaw"])],
         UNCHANGED <<stopped, source, main, slot>>, DataOK'
  PROVE  IndInv'
<1>1. /\ "qRaw" \in Channel /\ Items("qRaw") = Frame /\ w \in Worker /\ PcOf(w, l)
      /\ ChannelsOK /\ PcOK /\ FrameHeldOK /\ SlotHeldOK
  BY Kinds DEF Channel, Items, IndInv, TypeOK, PcOf
<1>2. /\ ChannelsOK' /\ Len(q'["qRaw"]) = Len(q["qRaw"]) - 1 /\ Len(q["qRaw"]) \in Nat
      /\ \A d \in Channel \ {"qRaw"} : q'[d] = q[d]
      /\ Head(q["qRaw"]) \in Frame
  BY <1>1, PopType, LenTypes
<1>3. PcOK' /\ SlotHeldOK'
  BY <1>1, PcMove, SlotStay DEF PcOf
<1>4. FrameHeldOK'
  <2>1. Head(q["qRaw"]) \in Frame \cup {0}
    BY <1>2
  <2> QED BY <1>1, <1>2, <2>1, FrameMove
<1>5. /\ Cardinality(FrameHolders)' = Cardinality(FrameHolders) + 1
      /\ Cardinality(SlotHolders)' = Cardinality(SlotHolders)
      /\ Cardinality(FrameHolders) \in Nat
  BY <1>1, HolderCount
<1>6. /\ FrameQueues' = FrameQueues - 1 /\ SlotQueues' = SlotQueues
      /\ FrameQueues \in Nat
  BY <1>1, <1>2, QueueSums DEF ChannelsOK
<1>7. FramesInPlace' = FramesInPlace /\ SlotsInPlace' = SlotsInPlace
  BY <1>5, <1>6, PlaceSums DEF source
<1>8. FrameCount' /\ SlotCount'
  BY <1>7 DEF IndInv, FrameCount, SlotCount
<1> QED BY <1>2, <1>3, <1>4, <1>8, WorkerFrame

\* A prep thread gives its raw frame back to the pool, which has room for it.
LEMMA ReturnFrame ==
  ASSUME IndInv, NEW w \in Prep, NEW l \in PrepPcs, GoTo(w, l),
         l \notin FramePcs, pc[w] \in FramePcs,
         l \in SlotPcs <=> pc[w] \in SlotPcs,
         TryPush("rawPool", frame[w]), frame' = [frame EXCEPT ![w] = 0],
         UNCHANGED <<stopped, source, main, slot>>, DataOK'
  PROVE  IndInv'
<1>1. /\ "rawPool" \in Channel /\ Items("rawPool") = Frame /\ w \in Worker /\ PcOf(w, l)
      /\ ChannelsOK /\ PcOK /\ FrameHeldOK /\ SlotHeldOK /\ frame[w] \in Frame
  BY Kinds DEF Channel, Items, IndInv, TypeOK, PcOf, FrameHeldOK, FrameHolders
<1>2. /\ ChannelsOK' /\ \A d \in Channel \ {"rawPool"} : q'[d] = q[d]
      /\ Len(q'["rawPool"]) = IF CanPush("rawPool") THEN Len(q["rawPool"]) + 1
                                                    ELSE Len(q["rawPool"])
      /\ Len(q["rawPool"]) \in Nat
  BY <1>1, TryPushType, LenTypes
<1>3. PcOK' /\ SlotHeldOK'
  BY <1>1, PcMove, SlotStay DEF PcOf
<1>4. FrameHeldOK'
  <2>1. 0 \in Frame \cup {0} /\ 0 \notin Frame
    BY DEF Frame
  <2> QED BY <1>1, <2>1, FrameMove
<1>5. /\ Cardinality(FrameHolders)' = Cardinality(FrameHolders) - 1
      /\ Cardinality(SlotHolders)' = Cardinality(SlotHolders)
      /\ Cardinality(FrameHolders) \in Nat /\ Cardinality(FrameHolders)' \in Nat
  BY <1>1, HolderCount
<1>6. /\ FrameQueues' = FrameQueues + (IF CanPush("rawPool") THEN 1 ELSE 0)
      /\ SlotQueues' = SlotQueues /\ FrameQueues \in Nat
  BY <1>1, <1>2, QueueSums, SMTT(20) DEF ChannelsOK
<1>7. /\ SlotsInPlace' = SlotsInPlace /\ FramesInPlace \in Nat
      /\ FramesInPlace' = FramesInPlace - (IF CanPush("rawPool") THEN 0 ELSE 1)
      /\ Len(q["rawPool"]) < FramesInPlace
  <2>1. SlotsInPlace' = SlotsInPlace
    BY <1>5, <1>6, PlaceSums
  <2>2. /\ FramesInPlace \in Nat
        /\ FramesInPlace' = FramesInPlace - (IF CanPush("rawPool") THEN 0 ELSE 1)
    BY <1>5, <1>6, PlaceSums DEF source
  <2>3. Cardinality(FrameHolders) >= 1
    BY <1>5
  <2>4. Len(q["rawPool"]) < FramesInPlace
    BY <1>1, <1>5, <2>3, PoolPart, PlaceSums DEF ChannelsOK
  <2> QED BY <2>1, <2>2, <2>4
<1>8. CanPush("rawPool") \/ stopped["rawPool"]
  BY <1>1, <1>7, LenTypes, CapValues, SizeAssumption DEF CanPush, IndInv, FrameCount
<1>9. FrameCount' /\ SlotCount'
  BY <1>7, <1>8, SizeAssumption DEF IndInv, FrameCount, SlotCount
<1> QED BY <1>2, <1>3, <1>4, <1>9, WorkerFrame
-----------------------------------------------------------------------------
(* Every action of a stage thread is one of these movements.               *)

\* DataOK is disturbed by a stage thread in four places only.
LEMMA DataKept ==
  ASSUME DataOK, UNCHANGED <<strip, input, result, outcome>>
  PROVE  DataOK'
BY DEF DataOK, outcome

\* qRaw.pop.
LEMMA PrepPopRawStep == ASSUME IndInv, NEW w \in Prep, PrepPopRaw(w) PROVE IndInv'
<1>1. DataOK' /\ w \in Worker /\ PcOf(w, "popSlot") /\ PcOf(w, "done")
  BY Kinds, DataKept DEF IndInv, TypeOK, PrepPopRaw, slots, PcOf, PrepPcs
<1>2. CASE CanPop("qRaw") /\ PopFrom("qRaw") /\ GoTo(w, "popSlot")
           /\ frame' = [frame EXCEPT ![w] = Head(q["qRaw"])]
  BY <1>1, <1>2, TakeFrame DEF PrepPopRaw, slots, FramePcs, SlotPcs, PrepPcs
<1>3. CASE GoTo(w, "done") /\ UNCHANGED <<q, frame>>
  BY <1>1, <1>3, Stay DEF PrepPopRaw, slots, FramePcs, SlotPcs
<1> QED BY <1>2, <1>3 DEF PrepPopRaw

\* slotPool.pop.
LEMMA PrepPopSlotStep == ASSUME IndInv, NEW w \in Prep, PrepPopSlot(w) PROVE IndInv'
<1>1. DataOK' /\ w \in Worker /\ PcOf(w, "fill") /\ PcOf(w, "dropRaw")
  BY Kinds, DataKept DEF IndInv, TypeOK, PrepPopSlot, frames, PcOf, PrepPcs
<1>2. CASE CanPop("slotPool") /\ PopFrom("slotPool") /\ GoTo(w, "fill")
           /\ slot' = [slot EXCEPT ![w] = Head(q["slotPool"])]
  BY <1>1, <1>2, TakeSlot DEF PrepPopSlot, frames, FramePcs, SlotPcs
<1>3. CASE GoTo(w, "dropRaw") /\ UNCHANGED <<q, slot>>
  BY <1>1, <1>3, Stay DEF PrepPopSlot, frames, FramePcs, SlotPcs
<1> QED BY <1>2, <1>3 DEF PrepPopSlot

\* Filling the slot.
LEMMA PrepFillStep == ASSUME IndInv, NEW w \in Prep, PrepFill(w) PROVE IndInv'
<1>1. w \in Worker /\ PcOf(w, "retRaw") /\ frame[w] \in Frame /\ slot[w] \in Slot
  BY Kinds DEF IndInv, TypeOK, PrepFill, PcOf, PrepPcs, FrameHeldOK, FrameHolders,
               FramePcs, SlotHeldOK, SlotHolders, SlotPcs
<1>2. DataOK'
  <2>1. strip[frame[w]] \in Batch \cup {0}
    BY <1>1 DEF IndInv, TypeOK, DataOK
  <2>2. input' \in [Slot -> Batch \cup {0}]
    BY <1>1, <2>1 DEF IndInv, TypeOK, DataOK, PrepFill
  <2> QED BY <2>2 DEF IndInv, TypeOK, DataOK, PrepFill, frames, outcome
<1> QED BY <1>1, <1>2, Stay DEF PrepFill, frames, FramePcs, SlotPcs

\* rawPool.try_push on both ways out of it.
LEMMA PrepReturnRawStep ==
  ASSUME IndInv, NEW w \in Prep, PrepReturnRaw(w) PROVE IndInv'
<1>1. DataOK'
  BY DataKept DEF IndInv, TypeOK, PrepReturnRaw, slots
<1>2. CASE pc[w] = "retRaw"
  BY <1>1, <1>2, ReturnFrame DEF PrepReturnRaw, slots, FramePcs, SlotPcs, PrepPcs
<1>3. CASE pc[w] = "dropRaw"
  BY <1>1, <1>3, ReturnFrame DEF PrepReturnRaw, slots, FramePcs, SlotPcs, PrepPcs
<1> QED BY <1>2, <1>3 DEF PrepReturnRaw

\* qPrep.push.
LEMMA PrepPushStep == ASSUME IndInv, NEW w \in Prep, PrepPush(w) PROVE IndInv'
<1>1. DataOK' /\ w \in Worker /\ PcOf(w, "popRaw") /\ PcOf(w, "dropSlot")
  BY Kinds, DataKept DEF IndInv, TypeOK, PrepPush, frames, PcOf, PrepPcs
<1>2. CASE CanPush("qPrep") /\ PushTo("qPrep", slot[w]) /\ GoTo(w, "popRaw")
           /\ slot' = [slot EXCEPT ![w] = 0]
  BY <1>1, <1>2, PassSlot DEF PrepPush, frames, FramePcs, SlotPcs
<1>3. CASE GoTo(w, "dropSlot") /\ UNCHANGED <<q, slot>>
  BY <1>1, <1>3, Stay DEF PrepPush, frames, FramePcs, SlotPcs
<1> QED BY <1>2, <1>3 DEF PrepPush

\* slotPool.try_push of a thread that gives up.
LEMMA DropSlotStep ==
  ASSUME IndInv, NEW w \in Prep \cup Infer, DropSlot(w) PROVE IndInv'
<1>1. DataOK' /\ w \in Worker /\ w \notin Post
  BY Kinds, DataKept DEF IndInv, TypeOK, DropSlot, frames
<1>2. CASE pc[w] = "dropSlot"
  <2>1. PcOf(w, "done")
    BY <1>1 DEF PcOf, PrepPcs, InferPcs
  <2> QED BY <1>1, <1>2, <2>1, ReturnSlot DEF DropSlot, frames, FramePcs, SlotPcs
<1>3. CASE pc[w] = "giveUp"
  <2>1. w \in Infer /\ PcOf(w, "popPrep")
    BY <1>1, <1>3, Kinds DEF IndInv, TypeOK, PcOK, PcOf, PrepPcs, InferPcs
  <2> QED BY <1>1, <1>3, <2>1, ReturnSlot DEF DropSlot, frames, FramePcs, SlotPcs
<1> QED BY <1>2, <1>3 DEF DropSlot

\* qPrep.pop.
LEMMA InferPopStep == ASSUME IndInv, NEW w \in Infer, InferPop(w) PROVE IndInv'
<1>1. DataOK' /\ w \in Worker /\ PcOf(w, "run") /\ PcOf(w, "done") /\ w \notin Prep
  BY Kinds, DataKept DEF IndInv, TypeOK, InferPop, frames, PcOf, InferPcs
<1>2. CASE CanPop("qPrep") /\ PopFrom("qPrep") /\ GoTo(w, "run")
           /\ slot' = [slot EXCEPT ![w] = Head(q["qPrep"])]
  BY <1>1, <1>2, TakeSlot DEF InferPop, frames, SlotPcs
<1>3. CASE GoTo(w, "done") /\ UNCHANGED <<q, slot>>
  BY <1>1, <1>3, Stay DEF InferPop, frames, SlotPcs
<1> QED BY <1>2, <1>3 DEF InferPop

\* RunBatch, whether it throws or not.
LEMMA InferRunStep == ASSUME IndInv, NEW w \in Infer, InferRun(w) PROVE IndInv'
<1>1. /\ w \in Worker /\ PcOf(w, "pushInf") /\ PcOf(w, "giveUp") /\ w \notin Prep
      /\ slot[w] \in Slot
  BY Kinds DEF IndInv, TypeOK, InferRun, PcOf, InferPcs, SlotHeldOK, SlotHolders, SlotPcs
<1>2. DataOK'
  <2>1. input[slot[w]] \in Batch \cup {0}
    BY <1>1 DEF IndInv, TypeOK, DataOK
  <2>2. /\ result' \in [Slot -> Batch \cup {0}]
        /\ failed' \subseteq Batch \cup {0}
    BY <1>1, <2>1 DEF IndInv, TypeOK, DataOK, InferRun
  <2> QED BY <2>2 DEF IndInv, TypeOK, DataOK, InferRun, frames
<1>3. CASE GoTo(w, "pushInf")
  BY <1>1, <1>2, <1>3, Stay DEF InferRun, frames, SlotPcs
<1>4. CASE GoTo(w, "giveUp")
  BY <1>1, <1>2, <1>4, Stay DEF InferRun, frames, SlotPcs
<1> QED BY <1>3, <1>4 DEF InferRun

\* qInf.push.
LEMMA InferPushStep == ASSUME IndInv, NEW w \in Infer, InferPush(w) PROVE IndInv'
<1>1. DataOK' /\ w \in Worker /\ PcOf(w, "popPrep") /\ PcOf(w, "dropSlot") /\ w \notin Prep
  BY Kinds, DataKept DEF IndInv, TypeOK, InferPush, frames, PcOf, InferPcs
<1>2. CASE CanPush("qInf") /\ PushTo("qInf", slot[w]) /\ GoTo(w, "popPrep")
           /\ slot' = [slot EXCEPT ![w] = 0]
  BY <1>1, <1>2, PassSlot DEF InferPush, frames, SlotPcs
<1>3. CASE GoTo(w, "dropSlot") /\ UNCHANGED <<q, slot>>
  BY <1>1, <1>3, Stay DEF InferPush, frames, SlotPcs
<1> QED BY <1>2, <1>3 DEF InferPush

\* qInf.pop.
LEMMA PostPopStep == ASSUME IndInv, NEW w \in Post, PostPop(w) PROVE IndInv'
<1>1. DataOK' /\ w \in Worker /\ PcOf(w, "publish") /\ PcOf(w, "done") /\ w \notin Prep
  BY Kinds, DataKept DEF IndInv, TypeOK, PostPop, frames, PcOf, PostPcs
<1>2. CASE CanPop("qInf") /\ PopFrom("qInf") /\ GoTo(w, "publish")
           /\ slot' = [slot EXCEPT ![w] = Head(q["qInf"])]
  BY <1>1, <1>2, TakeSlot DEF PostPop, frames, SlotPcs
<1>3. CASE GoTo(w, "done") /\ UNCHANGED <<q, slot>>
  BY <1>1, <1>3, Stay DEF PostPop, frames, SlotPcs
<1> QED BY <1>2, <1>3 DEF PostPop

\* Publish.
LEMMA PostPublishStep == ASSUME IndInv, NEW w \in Post, PostPublish(w) PROVE IndInv'
<1>1. w \in Worker /\ PcOf(w, "release") /\ slot[w] \in Slot /\ w \notin Prep
  BY Kinds DEF IndInv, TypeOK, PostPublish, PcOf, PostPcs, SlotHeldOK, SlotHolders, SlotPcs
<1>2. DataOK'
  <2>1. input[slot[w]] \in Batch \cup {0} /\ result[slot[w]] \in Batch \cup {0}
    BY <1>1 DEF IndInv, TypeOK, DataOK
  <2>2. [seq |-> input[slot[w]], scores |-> result[slot[w]]]
           \in [seq : Batch \cup {0}, scores : Batch \cup {0}]
    BY <2>1
  <2>3. sunk' \in Seq([seq : Batch \cup {0}, scores : Batch \cup {0}])
    BY <2>2, AppendProperties DEF IndInv, TypeOK, DataOK, PostPublish
  <2> QED BY <2>3 DEF IndInv, TypeOK, DataOK, PostPublish, frames, slots
<1> QED BY <1>1, <1>2, Stay DEF PostPublish, frames, slots, SlotPcs

\* ~SlotGuard.
LEMMA PostReleaseStep == ASSUME IndInv, NEW w \in Post, PostRelease(w) PROVE IndInv'
<1>1. w \in Worker /\ PcOf(w, "popInf") /\ w \notin Prep
  BY Kinds DEF PcOf, PostPcs
<1>2. DataOK'
  BY DEF IndInv, TypeOK, DataOK, PostRelease, frames
<1> QED BY <1>1, <1>2, ReturnSlot DEF PostRelease, frames, SlotPcs

\* All steps of a stage thread.
LEMMA WorkerStep == ASSUME IndInv, NEW w \in Worker, Step(w) PROVE IndInv'
<1>1. CASE w \in Prep
  BY <1>1, Kinds, PrepPopRawStep, PrepPopSlotStep, PrepFillStep, PrepReturnRawStep,
     PrepPushStep, DropSlotStep DEF Step
<1>2. CASE w \in Infer
  BY <1>2, Kinds, InferPopStep, InferRunStep, InferPushStep, DropSlotStep DEF Step
<1>3. CASE w \in Post
  BY <1>3, Kinds, PostPopStep, PostPublishStep, PostReleaseStep DEF Step
<1> QED BY <1>1, <1>2, <1>3 DEF Worker
-----------------------------------------------------------------------------
(* The ingest thread and the main thread, which leave every stage thread    *)
(* where it is.                                                            *)

\* Who holds what depends on pc alone.
LEMMA HoldersKept ==
  ASSUME UNCHANGED pc
  PROVE  FrameHolders' = FrameHolders /\ SlotHolders' = SlotHolders
BY DEF FrameHolders, SlotHolders

\* The ingest thread moves without touching a buffer.
LEMMA IngestMoves ==
  ASSUME IndInv, ingest # "off", ingest # "push",
         ingest' \in {"check", "take", "exited"},
         ingest' = "take" => framesRead < MaxSeq,
         UNCHANGED <<q, stopped, pc, frames, slots, inFrame, srcStopped, framesRead,
                     outcome, main>>
  PROVE  IndInv'
<1>1. TypeOK'
  BY HoldersKept DEF IndInv, TypeOK, ChannelsOK, PcOK, FrameHeldOK, SlotHeldOK, IngestOK,
     DataOK, MainOK, frames, slots, outcome
<1>2. FrameCount' /\ SlotCount'
  BY HoldersKept DEF IndInv, FrameCount, SlotCount, FramesInPlace, SlotsInPlace
<1>3. OpenWhileListening'
  BY DEF IndInv, OpenWhileListening
<1> QED BY <1>1, <1>2, <1>3 DEF IndInv

\* rawPool.try_pop of the reader.
LEMMA IngestTakesStep == ASSUME IndInv, IngestTakes PROVE IndInv'
<1>1. /\ "rawPool" \in Channel /\ Items("rawPool") = Frame /\ ChannelsOK
      /\ FrameHolders' = FrameHolders /\ SlotHolders' = SlotHolders
      /\ Cardinality(FrameHolders) \in Nat /\ ingest = "take" /\ ingest' = "push"
      /\ CanPop("rawPool") /\ PopFrom("rawPool")
  <2>1. IsFiniteSet(Prep) /\ FrameHolders \in SUBSET Prep
    BY ThreadAssumption DEF FrameHolders
  <2>2. Cardinality(FrameHolders) \in Nat
    BY <2>1, FS_Subset, FS_CardinalityType
  <2> QED BY <2>2, HoldersKept DEF Channel, Items, IndInv, TypeOK, IngestTakes
<1>2. /\ ChannelsOK' /\ Len(q'["rawPool"]) = Len(q["rawPool"]) - 1
      /\ \A d \in Channel \ {"rawPool"} : q'[d] = q[d]
      /\ Head(q["rawPool"]) \in Frame
  BY <1>1, PopType
<1>3. /\ FrameQueues' = FrameQueues - 1 /\ SlotQueues' = SlotQueues
      /\ FrameQueues \in Nat
  BY <1>1, <1>2, QueueSums, LenTypes, SMTT(20) DEF ChannelsOK
<1>4. FramesInPlace' = FramesInPlace /\ SlotsInPlace' = SlotsInPlace
  BY <1>1, <1>3, PlaceSums
<1>5. FrameCount' /\ SlotCount'
  BY <1>4 DEF IndInv, FrameCount, SlotCount, IngestTakes
<1>6. IngestOK'
  <2>1. framesRead \in 0 .. MaxSeq /\ framesRead < MaxSeq /\ framesRead' = framesRead + 1
    BY <1>1 DEF IndInv, TypeOK, IngestOK, IngestTakes
  <2>2. framesRead' \in 0 .. MaxSeq
    BY <2>1, SizeAssumption
  <2> QED BY <1>1, <1>2, <2>2 DEF IngestOK, IngestTakes
<1>7. DataOK'
  <2>1. framesRead + 1 \in Batch
    BY <1>1, SizeAssumption DEF Batch, IndInv, TypeOK, IngestOK
  <2>2. strip' \in [Frame -> Batch \cup {0}]
    BY <1>2, <2>1 DEF IndInv, TypeOK, DataOK, IngestTakes
  <2> QED BY <2>2 DEF IndInv, TypeOK, DataOK, IngestTakes, slots, outcome
<1>8. PcOK' /\ FrameHeldOK' /\ SlotHeldOK' /\ MainOK'
  BY <1>1 DEF IndInv, TypeOK, PcOK, FrameHeldOK, SlotHeldOK, MainOK, IngestTakes, slots
<1>9. OpenWhileListening'
  BY <1>1 DEF IndInv, OpenWhileListening, IngestTakes
<1> QED BY <1>2, <1>5, <1>6, <1>7, <1>8, <1>9 DEF IndInv, TypeOK

\* The reader's push fits (see ReaderPushFits), so the frame it holds is in
\* qRaw afterwards.
LEMMA ReaderPush == ASSUME IndInv, ingest = "push" PROVE CanPush("qRaw")
<1>1. "qRaw" \in Channel /\ ~stopped["qRaw"] /\ ~stopped["rawPool"]
  BY DEF IndInv, OpenWhileListening, TypeOK, MainOK, Channel
<1>2. IsFiniteSet(Prep) /\ FrameHolders \in SUBSET Prep
  BY ThreadAssumption DEF FrameHolders
<1>3. Cardinality(FrameHolders) \in Nat
  BY <1>2, FS_Subset, FS_CardinalityType
<1>4. Len(q["qRaw"]) \in Nat /\ Len(q["qRaw"]) =< FrameQueues /\ FrameQueues \in Nat
  BY LenTypes DEF FrameQueues, IndInv, TypeOK, ChannelsOK, Channel
<1>5. FrameQueues + Cardinality(FrameHolders) + 1 =< NumFrames
  BY PlaceSums DEF IndInv, FrameCount
<1>6. FrameQueues < NumFrames
  BY <1>3, <1>4, <1>5, SizeAssumption
<1>7. Len(q["qRaw"]) < QRawCap
  BY <1>4, <1>6, SizeAssumption, CrossConstraints DEF IndInv, TypeOK, ChannelsOK
<1> QED BY <1>1, <1>7, CapValues DEF CanPush

\* qRaw.try_push of the reader, and its way back.
LEMMA IngestPushesStep == ASSUME IndInv, IngestPushes PROVE IndInv'
<1>1. /\ "qRaw" \in Channel /\ Items("qRaw") = Frame /\ ChannelsOK
      /\ FrameHolders' = FrameHolders /\ SlotHolders' = SlotHolders
      /\ Cardinality(FrameHolders) \in Nat /\ ingest = "push" /\ inFrame \in Frame
  <2>1. IsFiniteSet(Prep) /\ FrameHolders \in SUBSET Prep
    BY ThreadAssumption DEF FrameHolders
  <2>2. Cardinality(FrameHolders) \in Nat
    BY <2>1, FS_Subset, FS_CardinalityType
  <2> QED BY <2>2, HoldersKept DEF Channel, Items, IndInv, TypeOK, IngestPushes, IngestOK
<1>2. PushTo("qRaw", inFrame) /\ ingest' = "check" /\ CanPush("qRaw")
  BY <1>1, ReaderPush DEF IngestPushes
<1>3. /\ ChannelsOK' /\ Len(q'["qRaw"]) = Len(q["qRaw"]) + 1
      /\ \A d \in Channel \ {"qRaw"} : q'[d] = q[d]
  BY <1>1, <1>2, PushType DEF CanPush
<1>4. /\ FrameQueues' = FrameQueues + 1 /\ SlotQueues' = SlotQueues
      /\ FrameQueues \in Nat
  BY <1>1, <1>3, QueueSums, LenTypes DEF ChannelsOK
<1>5. FramesInPlace' = FramesInPlace /\ SlotsInPlace' = SlotsInPlace
  BY <1>1, <1>2, <1>4, PlaceSums
<1>6. FrameCount' /\ SlotCount'
  BY <1>5 DEF IndInv, FrameCount, SlotCount, IngestPushes
<1>7. IngestOK'
  BY <1>1, <1>2 DEF IndInv, TypeOK, IngestOK, IngestPushes, Frame
<1>8. PcOK' /\ FrameHeldOK' /\ SlotHeldOK' /\ MainOK' /\ DataOK'
  BY <1>1 DEF IndInv, TypeOK, PcOK, FrameHeldOK, SlotHeldOK, MainOK, DataOK,
     IngestPushes, frames, slots, outcome
<1>9. OpenWhileListening'
  BY <1>1 DEF IndInv, OpenWhileListening, IngestPushes
<1> QED BY <1>3, <1>6, <1>7, <1>8, <1>9 DEF IndInv, TypeOK

\* All steps of the ingest thread.
LEMMA IngestThreadStep == ASSUME IndInv, IngestStep PROVE IndInv'
<1>1. CASE IngestStops
  BY <1>1, IngestMoves DEF IngestStops
<1>2. CASE IngestSees
  BY <1>2, IngestMoves DEF IngestSees
<1>3. CASE IngestBreaks
  BY <1>3, IngestMoves DEF IngestBreaks
<1>4. CASE IngestDrops
  BY <1>4, IngestMoves DEF IngestDrops
<1>5. CASE IngestTakes
  BY <1>5, IngestTakesStep
<1>6. CASE IngestPushes
  BY <1>6, IngestPushesStep
<1> QED BY <1>1, <1>2, <1>3, <1>4, <1>5, <1>6 DEF IngestStep

\* The main thread stops channels, never opens one, and creates or joins the
\* ingest thread outside its calls.
LEMMA MainMoves ==
  ASSUME IndInv, UNCHANGED <<q, pc, frames, slots, inFrame, framesRead, outcome>>,
         MainOK', OpenWhileListening',
         \A c \in Channel : stopped[c] => stopped'[c],
         \/ UNCHANGED ingest
         \/ ingest \in {"off", "exited"} /\ ingest' \in {"off", "check"}
  PROVE  IndInv'
<1>1. TypeOK'
  BY HoldersKept DEF IndInv, TypeOK, ChannelsOK, PcOK, FrameHeldOK, SlotHeldOK, IngestOK,
     DataOK, frames, slots, outcome
<1>2. FramesInPlace' = FramesInPlace /\ SlotsInPlace' = SlotsInPlace
  BY HoldersKept DEF FramesInPlace, SlotsInPlace
<1>3. FrameCount' /\ SlotCount'
  BY <1>2 DEF IndInv, FrameCount, SlotCount, Channel
<1> QED BY <1>1, <1>3 DEF IndInv

\* Creating a thread, or failing to.
LEMMA SpawnStep == ASSUME IndInv, NEW w \in Worker, Spawn(w) PROVE IndInv'
<1>1. CASE GoTo(w, FirstPc(w)) /\ UNCHANGED main
  <2>1. PcOf(w, FirstPc(w)) /\ FirstPc(w) \in {"popRaw", "popPrep", "popInf"}
    BY Kinds DEF PcOf, FirstPc, PrepPcs, InferPcs, PostPcs
  <2>2. DataOK'
    BY DataKept DEF IndInv, TypeOK, Spawn, frames, slots
  <2> QED BY <1>1, <2>1, <2>2, Stay DEF Spawn, frames, slots, FramePcs, SlotPcs
<1>2. CASE main' = "abort" /\ UNCHANGED pc
  <2>1. MainOK' /\ OpenWhileListening'
    BY <1>2 DEF IndInv, TypeOK, MainOK, MainPcs, OpenWhileListening, Spawn, source
  <2> QED BY <1>2, <2>1, MainMoves DEF Spawn, source
<1> QED BY <1>1, <1>2 DEF Spawn

\* What the main thread does at the keyboard.
LEMMA ConsoleStep ==
  ASSUME IndInv, Ready \/ KeyS \/ KeyX \/ KeyQ \/ JoinIngest
  PROVE  IndInv'
<1>1. CASE Ready
  <2>1. MainOK' /\ OpenWhileListening'
    BY <1>1 DEF Ready, IndInv, TypeOK, MainOK, MainPcs, OpenWhileListening, source
  <2> QED BY <1>1, <2>1, MainMoves DEF Ready, source
<1>2. CASE KeyS
  <2>1. MainOK' /\ OpenWhileListening'
    BY <1>2 DEF KeyS, IndInv, TypeOK, MainOK, MainPcs, OpenWhileListening
  <2> QED BY <1>2, <2>1, MainMoves DEF KeyS
<1>3. CASE KeyX
  <2>1. MainOK' /\ OpenWhileListening'
    BY <1>3 DEF KeyX, IndInv, TypeOK, MainOK, MainPcs, OpenWhileListening
  <2> QED BY <1>3, <2>1, MainMoves DEF KeyX
<1>4. CASE KeyQ
  <2>1. MainOK' /\ OpenWhileListening'
    BY <1>4 DEF KeyQ, IndInv, TypeOK, MainOK, MainPcs, OpenWhileListening
  <2> QED BY <1>4, <2>1, MainMoves DEF KeyQ
<1>5. CASE JoinIngest
  <2>1. MainOK' /\ OpenWhileListening'
    BY <1>5 DEF JoinIngest, IndInv, TypeOK, MainOK, MainPcs, OpenWhileListening
  <2> QED BY <1>5, <2>1, MainMoves DEF JoinIngest
<1> QED BY <1>1, <1>2, <1>3, <1>4, <1>5

\* The stages of Drain.
LEMMA StageKeys ==
  /\ DOMAIN DrainStage = {"drainRaw", "drainPrep", "drainInf"}
  /\ \A m \in DOMAIN DrainStage : /\ DrainStage[m].chan \in Channel
                                  /\ DrainStage[m].next \in {"drainPrep", "drainInf", "drainPools"}
BY DEF DrainStage, Channel

\* Drain and Abort: by then the ingest thread is gone.
LEMMA ShutdownStep ==
  ASSUME IndInv, DrainStop \/ DrainJoin \/ DrainPools \/ Return \/ AbortStop \/ AbortJoin
  PROVE  IndInv'
<1>1. CASE DrainStop
  <2>1. MainOK' /\ OpenWhileListening' /\ \A c \in Channel : stopped[c] => stopped'[c]
    BY <1>1, StageKeys DEF DrainStop, StopChannel, IndInv, TypeOK, MainOK, OpenWhileListening, source
  <2> QED BY <1>1, <2>1, MainMoves DEF DrainStop, source
<1>2. CASE DrainJoin
  <2>1. MainOK' /\ OpenWhileListening'
    BY <1>2, StageKeys DEF DrainJoin, IndInv, TypeOK, MainOK, MainPcs, OpenWhileListening, source
  <2> QED BY <1>2, <2>1, MainMoves DEF DrainJoin, source
<1>3. CASE DrainPools
  <2>1. MainOK' /\ OpenWhileListening' /\ \A c \in Channel : stopped[c] => stopped'[c]
    BY <1>3 DEF DrainPools, IndInv, TypeOK, MainOK, MainPcs, OpenWhileListening, source
  <2> QED BY <1>3, <2>1, MainMoves DEF DrainPools, source
<1>4. CASE Return
  <2>1. MainOK' /\ OpenWhileListening'
    BY <1>4 DEF Return, IndInv, TypeOK, MainOK, MainPcs, OpenWhileListening, source
  <2> QED BY <1>4, <2>1, MainMoves DEF Return, source
<1>5. CASE AbortStop
  <2>1. PICK i \in DOMAIN AbortOrder : StopChannel(AbortOrder[i])
    BY <1>5 DEF AbortStop
  <2>2. MainOK' /\ OpenWhileListening' /\ \A c \in Channel : stopped[c] => stopped'[c]
    BY <1>5, <2>1 DEF AbortStop, StopChannel, IndInv, TypeOK, MainOK, OpenWhileListening, source
  <2> QED BY <1>5, <2>2, MainMoves DEF AbortStop, source
<1>6. CASE AbortJoin
  <2>1. MainOK' /\ OpenWhileListening'
    BY <1>6 DEF AbortJoin, IndInv, TypeOK, MainOK, MainPcs, OpenWhileListening, source
  <2> QED BY <1>6, <2>1, MainMoves DEF AbortJoin, source
<1> QED BY <1>1, <1>2, <1>3, <1>4, <1>5, <1>6
-----------------------------------------------------------------------------
(* The inductive invariant.                                                *)

\* The stores have filled the pools.
LEMMA InitialState == Init => IndInv
<1> SUFFICES ASSUME Init PROVE IndInv
  OBVIOUS
<1>1. /\ q["rawPool"] = [i \in 1 .. NumFrames |-> i] /\ q["qRaw"] = <<>>
      /\ q["slotPool"] = [i \in 1 .. NumSlots |-> i] /\ q["qPrep"] = <<>>
      /\ q["qInf"] = <<>> /\ q = [c \in Channel |-> q[c]]
  BY DEF Init, Channel, Frame, Slot
<1>2. ASSUME NEW n \in Nat
      PROVE  [i \in 1 .. n |-> i] \in Seq(1 .. n) /\ Len([i \in 1 .. n |-> i]) = n
             /\ [i \in 1 .. n |-> i] \in Seq(Nat)
  OBVIOUS
<1>3. /\ Len(q["rawPool"]) = NumFrames /\ Len(q["slotPool"]) = NumSlots
      /\ Len(q["qRaw"]) = 0 /\ Len(q["qPrep"]) = 0 /\ Len(q["qInf"]) = 0
  BY <1>1, <1>2, SizeAssumption
<1>4. ChannelsOK
  <2>1. ASSUME NEW c \in Channel
        PROVE  q[c] \in Seq(Items(c)) /\ q[c] \in Seq(Nat)
    <3>1. /\ q["rawPool"] \in Seq(Frame) /\ q["rawPool"] \in Seq(Nat)
          /\ q["slotPool"] \in Seq(Slot) /\ q["slotPool"] \in Seq(Nat)
      BY <1>1, <1>2, SizeAssumption DEF Frame, Slot
    <3>2. \A S : <<>> \in Seq(S)
      OBVIOUS
    <3> QED BY <1>1, <3>1, <3>2 DEF Channel, Items
  <2>2. ASSUME NEW c \in Channel
        PROVE  Len(q[c]) =< Cap[c]
    BY <1>3, CapValues, SizeAssumption DEF Channel
  <2>3. q \in [Channel -> Seq(Nat)]
    BY <1>1, <2>1
  <2> QED BY <2>1, <2>2, <2>3 DEF ChannelsOK
<1>5. FrameHolders = {} /\ SlotHolders = {}
  BY Kinds DEF Init, FrameHolders, SlotHolders, FramePcs, SlotPcs
<1>6. Cardinality(FrameHolders) = 0 /\ Cardinality(SlotHolders) = 0
  BY <1>5, FS_EmptySet
<1>7. PcOK /\ FrameHeldOK /\ SlotHeldOK
  BY <1>5, Kinds DEF Init, PcOK, FrameHeldOK, SlotHeldOK, PrepPcs, InferPcs, PostPcs, Frame, Slot
<1>8. IngestOK /\ DataOK /\ MainOK
  <2>1. 0 \notin Frame /\ 0 \in 0 .. MaxSeq
    BY SizeAssumption DEF Frame
  <2>2. IngestOK /\ MainOK
    BY <2>1 DEF Init, IngestOK, MainOK, MainPcs
  <2>3. sunk \in Seq([seq : Batch \cup {0}, scores : Batch \cup {0}])
    BY DEF Init
  <2>4. DataOK
    BY <2>3 DEF Init, DataOK
  <2> QED BY <2>2, <2>4
<1>9. FramesInPlace = NumFrames /\ SlotsInPlace = NumSlots
  <2>1. FrameQueues = NumFrames /\ SlotQueues = NumSlots
    BY <1>3, <1>4, SizeAssumption DEF FrameQueues, SlotQueues, ChannelsOK
  <2>2. ingest = "off"
    BY DEF Init
  <2> QED BY <1>6, <2>1, <2>2, PlaceSums, SizeAssumption
<1>10. FrameCount /\ SlotCount /\ OpenWhileListening
  BY <1>9, SizeAssumption DEF Init, FrameCount, SlotCount, OpenWhileListening
<1> QED BY <1>4, <1>7, <1>8, <1>10 DEF IndInv, TypeOK

\* Every step keeps the count.
LEMMA NextStep == IndInv /\ [Next]_vars => IndInv'
<1> SUFFICES ASSUME IndInv, [Next]_vars PROVE IndInv'
  OBVIOUS
<1>1. ASSUME NEW w \in Worker, Step(w) PROVE IndInv'
  BY <1>1, WorkerStep
<1>2. CASE IngestStep
  BY <1>2, IngestThreadStep
<1>3. CASE MainStep \/ Keys
  BY <1>3, SpawnStep, ConsoleStep, ShutdownStep DEF MainStep, Keys, ReapIngest
<1>4. CASE UNCHANGED vars
  <2>1. TypeOK'
    BY <1>4, HoldersKept DEF vars, IndInv, TypeOK, ChannelsOK, PcOK, FrameHeldOK, SlotHeldOK,
       IngestOK, DataOK, MainOK
  <2>2. FrameCount' /\ SlotCount'
    BY <1>4, HoldersKept DEF vars, IndInv, FrameCount, SlotCount, FramesInPlace, SlotsInPlace
  <2>3. OpenWhileListening'
    BY <1>4 DEF vars, IndInv, OpenWhileListening
  <2> QED BY <2>1, <2>2, <2>3 DEF IndInv
<1> QED BY <1>1, <1>2, <1>3, <1>4 DEF Next, Gone

\* Buffers are counted right in every reachable state, for every number of
\* threads, buffers and queue places that ValidateCrossConstraints lets pass.
THEOREM Invariance == Spec => []IndInv
BY InitialState, NextStep, PTL DEF Spec

\* Every variable keeps its type, no channel exceeds its capacity, and a thread
\* holds a frame or a slot exactly at the pcs where the code has one.
THEOREM TypeCorrect == Spec => []TypeOK
<1>1. IndInv => TypeOK
  BY DEF IndInv
<1> QED BY <1>1, Invariance, PTL

\* QueueRawCapacity >= RawFrames is enough: try_push in ReadFrame never fails.
THEOREM ReaderNeverRefused == Spec => []ReaderPushFits
<1>1. IndInv => ReaderPushFits
  BY ReaderPush DEF ReaderPushFits
<1> QED BY <1>1, Invariance, PTL

\* RawFrames >= PrepThreads + 1 is enough: the reader drops a frame only while
\* one is waiting for prep.
THEOREM DropsOnlyUnderBacklog == Spec => []DropImpliesBacklog
<1>1. IndInv => DropImpliesBacklog
  <2> SUFFICES ASSUME IndInv, ingest = "take", q["rawPool"] = <<>>
               PROVE  /\ Len(q["qRaw"]) >= NumFrames - Cardinality(FrameHolders)
                      /\ Len(q["qRaw"]) > 0
    BY DEF DropImpliesBacklog
  <2>1. ~stopped["rawPool"]
    BY DEF IndInv, OpenWhileListening, Channel
  <2>2. IsFiniteSet(Prep) /\ FrameHolders \in SUBSET Prep
    BY ThreadAssumption DEF FrameHolders
  <2>3. /\ Cardinality(FrameHolders) \in Nat /\ Cardinality(Prep) \in Nat
        /\ Cardinality(FrameHolders) =< Cardinality(Prep)
    BY <2>2, FS_Subset, FS_CardinalityType
  <2>4. Len(q["rawPool"]) = 0 /\ Len(q["qRaw"]) \in Nat
    BY LenTypes DEF IndInv, TypeOK
  <2>5. Len(q["rawPool"]) + Len(q["qRaw"]) + Cardinality(FrameHolders) + 0 = NumFrames
    BY <2>1 DEF IndInv, FrameCount, FramesInPlace
  <2>6. NumFrames >= Cardinality(Prep) + 1
    BY CrossConstraints
  <2>7. NumFrames \in Nat
    BY SizeAssumption
  <2> QED BY <2>3, <2>4, <2>5, <2>6, <2>7
<1> QED BY <1>1, Invariance, PTL

\* Whoever gives a buffer back is still counted as holding it, so the pool has room.
LEMMA RoomInPools == IndInv => PoolsHaveRoom
<1> SUFFICES ASSUME IndInv PROVE PoolsHaveRoom
  OBVIOUS
<1>1. IsFiniteSet(FrameHolders) /\ IsFiniteSet(SlotHolders)
  BY ThreadAssumption, WorkersFinite, FS_Subset DEF FrameHolders, SlotHolders
<1>2. /\ Cardinality(FrameHolders) \in Nat /\ Cardinality(SlotHolders) \in Nat
      /\ FrameHolders # {} => Cardinality(FrameHolders) > 0
      /\ SlotHolders # {} => Cardinality(SlotHolders) > 0
  BY <1>1, FS_EmptySet, FS_CardinalityType
<1>3. FramesInPlace =< NumFrames /\ SlotsInPlace =< NumSlots
  BY DEF IndInv, FrameCount, SlotCount
<1>4. SlotHolders # {} => Len(q["slotPool"]) < NumSlots
  <2>1. /\ SlotQueues \in Nat /\ Len(q["slotPool"]) \in Nat /\ Len(q["slotPool"]) =< SlotQueues
        /\ SlotsInPlace = SlotQueues + Cardinality(SlotHolders)
    BY PlaceSums, PoolPart DEF IndInv, TypeOK
  <2>2. NumSlots \in Nat
    BY SizeAssumption
  <2> QED BY <1>2, <1>3, <2>1, <2>2
<1>5. FrameHolders # {} \/ ingest = "push" => Len(q["rawPool"]) < NumFrames
  <2>1. /\ FrameQueues \in Nat /\ Len(q["rawPool"]) \in Nat /\ Len(q["rawPool"]) =< FrameQueues
        /\ FramesInPlace = FrameQueues + Cardinality(FrameHolders)
                              + (IF ingest = "push" THEN 1 ELSE 0)
    BY PlaceSums, PoolPart DEF IndInv, TypeOK
  <2>2. CASE ingest = "push"
    BY <1>2, <1>3, <2>1, <2>2, SizeAssumption
  <2>3. CASE FrameHolders # {} /\ ingest # "push"
    BY <1>2, <1>3, <2>1, <2>3, SizeAssumption
  <2> QED BY <2>2, <2>3
<1> QED BY <1>4, <1>5 DEF PoolsHaveRoom

\* A pool is never full while somebody holds one of its buffers.
THEOREM ReturnsNeverOverflow == Spec => []PoolsHaveRoom
BY RoomInPools, Invariance, PTL
-----------------------------------------------------------------------------
(* Joins: a thread that has ended does not come back.                      *)

PhaseInv ==
  /\ main \in {"drainPrep", "drainInf", "drainPools", "report", "returned"} => Joined(Prep)
  /\ main \in {"drainInf", "drainPools", "report", "returned"} => Joined(Infer)
  /\ main \in {"drainPools", "report", "returned"} => Joined(Post)
  /\ main = "aborted" => Joined(Worker)

\* A step moves one thread, which has neither ended nor yet to start.
LEMMA EndedStays ==
  ASSUME IndInv, NEW w \in Worker, Step(w)
  PROVE  pc[w] \notin {"unborn", "done"} /\ \A v \in Worker \ {w} : pc'[v] = pc[v]
BY DEF Step, PrepPopRaw, PrepPopSlot, PrepFill, PrepReturnRaw, PrepPush, DropSlot, InferPop,
       InferRun, InferPush, PostPop, PostPublish, PostRelease, GoTo, IndInv, TypeOK, PcOK

\* A stage that has been joined stays joined.
LEMMA PhaseStep == IndInv /\ PhaseInv /\ [Next]_vars => PhaseInv'
<1> SUFFICES ASSUME IndInv, PhaseInv, [Next]_vars PROVE PhaseInv'
  OBVIOUS
<1>1. ASSUME NEW w \in Worker, Step(w) PROVE PhaseInv'
  <2>1. UNCHANGED main
    BY <1>1 DEF Step, PrepPopRaw, PrepPopSlot, PrepFill, PrepReturnRaw, PrepPush, DropSlot,
       InferPop, InferRun, InferPush, PostPop, PostPublish, PostRelease
  <2>2. ASSUME NEW S \in SUBSET Worker, Joined(S) PROVE Joined(S)'
    BY <1>1, <2>2, EndedStays DEF Joined
  <2> QED BY <2>1, <2>2 DEF PhaseInv, Worker
<1>2. CASE UNCHANGED <<pc, main>>
  BY <1>2 DEF PhaseInv, Joined
<1>3. ASSUME NEW w \in Worker, Spawn(w) PROVE PhaseInv'
  BY <1>3 DEF Spawn, PhaseInv
<1>4. CASE Ready \/ JoinIngest \/ KeyS \/ KeyX \/ KeyQ
  BY <1>4 DEF Ready, JoinIngest, KeyS, KeyX, KeyQ, PhaseInv
<1>5. CASE DrainJoin
  <2>1. UNCHANGED pc /\ main \in {"drainRaw", "drainPrep", "drainInf"}
    BY <1>5, StageKeys DEF DrainJoin
  <2>2. CASE main = "drainRaw"
    BY <1>5, <2>1, <2>2 DEF DrainJoin, DrainStage, PhaseInv, Joined
  <2>3. CASE main = "drainPrep"
    BY <1>5, <2>1, <2>3 DEF DrainJoin, DrainStage, PhaseInv, Joined
  <2>4. CASE main = "drainInf"
    BY <1>5, <2>1, <2>4 DEF DrainJoin, DrainStage, PhaseInv, Joined
  <2> QED BY <2>1, <2>2, <2>3, <2>4
<1>6. CASE DrainPools \/ Return \/ AbortJoin
  BY <1>6 DEF DrainPools, Return, AbortJoin, PhaseInv, Joined
<1>7. CASE DrainStop \/ AbortStop
  BY <1>2, <1>7 DEF DrainStop, AbortStop
<1>8. CASE IngestStep
  BY <1>2, <1>8 DEF IngestStep, IngestStops, IngestSees, IngestBreaks, IngestDrops,
     IngestTakes, IngestPushes
<1>9. CASE UNCHANGED vars
  BY <1>2, <1>9 DEF vars
<1> QED
  BY <1>1, <1>3, <1>4, <1>5, <1>6, <1>7, <1>8, <1>9
     DEF Next, MainStep, Keys, Gone, ReapIngest

\* Nobody runs any more when Run leaves the scope of its queues and stores.
THEOREM StoresOutliveThreads == Spec => []NoThreadOutlivesStores
<1>1. Init => PhaseInv
  BY DEF Init, PhaseInv
<1>2. Spec => []PhaseInv
  BY <1>1, PhaseStep, Invariance, PTL DEF Spec
<1>3. IndInv /\ PhaseInv => NoThreadOutlivesStores
  BY DEF IndInv, OpenWhileListening, PhaseInv, NoThreadOutlivesStores, Joined, Worker
<1> QED BY <1>2, <1>3, Invariance, PTL
-----------------------------------------------------------------------------
(* Slots for prep threads.  While the pool is open the count of slots keeps  *)
(* one for every prep thread without one.  When it is stopped that reserve   *)
(* stays: a prep thread takes one slot more at most, because its next push   *)
(* to qPrep is refused.                                                      *)

\* The prep threads that may still ask for a slot.
SlotSeekers == {w \in Prep : pc[w] \in {"popRaw", "popSlot"}}

ReserveInv == stopped["slotPool"] =>
                /\ stopped["qPrep"] \/ Joined(Prep)
                /\ Cardinality(SlotSeekers) =< Len(q["slotPool"])

\* An open pool holds a slot for every prep thread without one.
LEMMA OpenReserve ==
  ASSUME IndInv, ~stopped["slotPool"]
  PROVE  Cardinality(SlotSeekers) =< Len(q["slotPool"])
<1>1. /\ SlotHolders \cap SlotSeekers = {}
      /\ SlotHolders \subseteq Worker /\ SlotSeekers \subseteq Worker
      /\ SlotHolders \cup SlotSeekers \subseteq Worker
  BY DEF SlotHolders, SlotSeekers, SlotPcs, Worker
<1>2. /\ IsFiniteSet(SlotHolders) /\ IsFiniteSet(SlotSeekers)
      /\ Cardinality(SlotHolders) \in Nat /\ Cardinality(SlotSeekers) \in Nat
  BY <1>1, WorkersFinite, FS_Subset, FS_CardinalityType
<1>3. Cardinality(SlotHolders \cup SlotSeekers) = Cardinality(SlotHolders) + Cardinality(SlotSeekers)
  BY <1>1, <1>2, DisjointUnion
<1>4. /\ Cardinality(Worker) \in Nat
      /\ Cardinality(SlotHolders) + Cardinality(SlotSeekers) =< Cardinality(Worker)
  BY <1>1, <1>3, WorkersFinite, FS_Subset, FS_CardinalityType
<1>5. Len(q["qPrep"]) =< QPrepCap /\ Len(q["qInf"]) =< QInfCap
  BY CapValues DEF IndInv, TypeOK, ChannelsOK, Channel
<1>6. Len(q["slotPool"]) + Len(q["qPrep"]) + Len(q["qInf"]) + Cardinality(SlotHolders) = NumSlots
  BY DEF IndInv, SlotCount, SlotsInPlace
<1>7. NumSlots >= Cardinality(Worker) + QPrepCap + QInfCap
  BY CrossConstraints, WorkersFinite, SizeAssumption DEF MinimumSlots
<1>8. Len(q["slotPool"]) \in Nat /\ Len(q["qPrep"]) \in Nat /\ Len(q["qInf"]) \in Nat
  BY LenTypes DEF IndInv, TypeOK
<1>9. NumSlots \in Nat /\ QPrepCap \in Nat /\ QInfCap \in Nat
  BY SizeAssumption
<1> DEFINE pool == Len(q["slotPool"])
           prep == Len(q["qPrep"])
           inf == Len(q["qInf"])
           holders == Cardinality(SlotHolders)
           seekers == Cardinality(SlotSeekers)
           workers == Cardinality(Worker)
<1> HIDE DEF pool, prep, inf, holders, seekers, workers
<1>10. /\ pool \in Nat /\ prep \in Nat /\ inf \in Nat /\ holders \in Nat
       /\ seekers \in Nat /\ workers \in Nat
       /\ holders + seekers =< workers /\ prep =< QPrepCap /\ inf =< QInfCap
       /\ pool + prep + inf + holders = NumSlots /\ NumSlots >= workers + QPrepCap + QInfCap
  BY <1>2, <1>4, <1>5, <1>6, <1>7, <1>8 DEF pool, prep, inf, holders, seekers, workers
<1>11. seekers =< pool
  BY <1>9, <1>10
<1> QED BY <1>11 DEF seekers, pool

\* A stage thread with the pool stopped: its queue only shrinks when a seeker
\* takes from it, and nobody becomes a seeker.
LEMMA ReserveWorker ==
  ASSUME IndInv, ReserveInv, stopped["slotPool"], NEW w \in Worker, Step(w)
  PROVE  ReserveInv'
<1>1. /\ UNCHANGED stopped /\ ChannelsOK /\ PcOK
      /\ pc[w] \notin {"unborn", "done"} /\ \A v \in Worker \ {w} : pc'[v] = pc[v]
  BY EndedStays DEF IndInv, TypeOK, Step, PrepPopRaw, PrepPopSlot, PrepFill, PrepReturnRaw,
     PrepPush, DropSlot, InferPop, InferRun, InferPush, PostPop, PostPublish, PostRelease
<1>2. Joined(Prep) => Joined(Prep)'
  BY <1>1 DEF Joined, Worker
<1>3. ASSUME Cardinality(SlotSeekers)' =< Len(q'["slotPool"]) PROVE ReserveInv'
  BY <1>1, <1>2, <1>3 DEF ReserveInv
<1>4. /\ SlotSeekers \in SUBSET Prep /\ SlotSeekers' \in SUBSET Prep
      /\ IsFiniteSet(Prep)
      /\ Cardinality(SlotSeekers) =< Len(q["slotPool"]) /\ Len(q["slotPool"]) \in Nat
  BY <1>1, ThreadAssumption, LenTypes DEF SlotSeekers, ReserveInv
<1>5. /\ Cardinality(SlotSeekers) \in Nat /\ Cardinality(SlotSeekers') \in Nat
      /\ Cardinality(SlotSeekers') =
           IF w \in SlotSeekers <=> w \in SlotSeekers' THEN Cardinality(SlotSeekers)
           ELSE IF w \in SlotSeekers' THEN Cardinality(SlotSeekers) + 1
                                      ELSE Cardinality(SlotSeekers) - 1
  <2>1. \A v \in Prep \ {w} : v \in SlotSeekers <=> v \in SlotSeekers'
    BY <1>1 DEF SlotSeekers, Worker
  <2> QED BY <1>4, <2>1, CountMove
<1>6. CASE q'["slotPool"] = q["slotPool"] /\ (w \in SlotSeekers' => w \in SlotSeekers)
  BY <1>3, <1>4, <1>5, <1>6
<1>7. CASE /\ w \in SlotSeekers /\ w \notin SlotSeekers'
           /\ CanPop("slotPool") /\ PopFrom("slotPool")
  <2>1. Len(q'["slotPool"]) = Len(q["slotPool"]) - 1
    BY <1>1, <1>7, PopType DEF Channel
  <2> QED BY <1>3, <1>4, <1>5, <1>7, <2>1
<1>8. ASSUME w \in Prep PROVE ReserveInv'
  <2> USE <1>8
  <2>1. CASE PrepPopRaw(w)
    BY <1>1, <1>6, <2>1 DEF PrepPopRaw, PopFrom, GoTo, SlotSeekers, PcOK, ChannelsOK, Channel
  <2>2. CASE PrepPopSlot(w)
    BY <1>1, <1>6, <1>7, <2>2, Kinds DEF PrepPopSlot, GoTo, SlotSeekers, PcOK
  <2>3. CASE PrepFill(w)
    BY <1>1, <1>6, <2>3, Kinds DEF PrepFill, GoTo, SlotSeekers, PcOK
  <2>4. CASE PrepReturnRaw(w)
    BY <1>1, <1>6, <2>4, Kinds DEF PrepReturnRaw, TryPush, PushTo, GoTo, SlotSeekers, PcOK, ChannelsOK, Channel
  <2>5. CASE PrepPush(w)
    <3>1. stopped["qPrep"]
      BY <1>1 DEF ReserveInv, Joined
    <3> QED BY <1>1, <1>6, <2>5, <3>1, Kinds DEF PrepPush, CanPush, GoTo, SlotSeekers, PcOK
  <2>6. CASE DropSlot(w)
    <3>1. pc[w] # "giveUp" /\ UNCHANGED q
      BY <1>1, <2>6 DEF DropSlot, TryPush, CanPush, PcOK, PrepPcs
    <3> QED BY <1>1, <1>6, <2>6, <3>1, Kinds DEF DropSlot, GoTo, SlotSeekers, PcOK
  <2> QED BY <1>1, <2>1, <2>2, <2>3, <2>4, <2>5, <2>6, Kinds DEF Step
<1>9. ASSUME w \notin Prep PROVE ReserveInv'
  <2>1. w \notin SlotSeekers'
    BY <1>9 DEF SlotSeekers
  <2>2. q'["slotPool"] = q["slotPool"]
    <3>1. CASE InferPop(w) \/ InferPush(w) \/ PostPop(w)
      BY <1>1, <3>1 DEF InferPop, InferPush, PostPop, PopFrom, PushTo, ChannelsOK, Channel
    <3>2. CASE InferRun(w) \/ PostPublish(w) \/ PostRelease(w) \/ DropSlot(w)
      BY <3>2 DEF InferRun, PostPublish, PostRelease, DropSlot, TryPush, CanPush
    <3> QED BY <1>9, <3>1, <3>2 DEF Step
  <2> QED BY <1>6, <2>1, <2>2
<1> QED BY <1>8, <1>9

\* No step of any thread uses up the reserve.
LEMMA ReserveStep == IndInv /\ PhaseInv /\ ReserveInv /\ [Next]_vars => ReserveInv'
<1> SUFFICES ASSUME IndInv, PhaseInv, ReserveInv, [Next]_vars PROVE ReserveInv'
  OBVIOUS
<1>1. ASSUME NEW w \in Worker, Step(w) PROVE ReserveInv'
  <2>1. UNCHANGED stopped
    BY <1>1 DEF Step, PrepPopRaw, PrepPopSlot, PrepFill, PrepReturnRaw, PrepPush, DropSlot,
       InferPop, InferRun, InferPush, PostPop, PostPublish, PostRelease
  <2> QED BY <1>1, <2>1, ReserveWorker DEF ReserveInv
<1>2. CASE UNCHANGED <<pc, stopped>> /\ q'["slotPool"] = q["slotPool"]
  BY <1>2 DEF ReserveInv, SlotSeekers, Joined
<1>3. ASSUME NEW w \in Worker, Spawn(w) PROVE ReserveInv'
  BY <1>3 DEF Spawn, ReserveInv, IndInv, OpenWhileListening, Channel
<1>4. CASE Ready \/ JoinIngest \/ KeyS \/ KeyX \/ KeyQ \/ DrainJoin \/ Return \/ AbortJoin
  BY <1>2, <1>4 DEF Ready, JoinIngest, KeyS, KeyX, KeyQ, DrainJoin, Return, AbortJoin
<1>5. CASE DrainStop \/ AbortStop
  <2>1. PICK c \in Channel : /\ StopChannel(c) /\ UNCHANGED <<q, pc>>
                             /\ c = "slotPool" => stopped["qPrep"]
    <3>1. CASE DrainStop
      BY <1>5, <3>1, StageKeys DEF DrainStop, DrainStage, Channel
    <3>2. CASE AbortStop
      BY <1>5, <3>2 DEF AbortStop, AbortOrder, Channel
    <3> QED BY <1>5, <3>1, <3>2
  <2>2. stopped' = [stopped EXCEPT ![c] = TRUE] /\ stopped \in [Channel -> BOOLEAN]
    BY <2>1 DEF StopChannel, IndInv, TypeOK, MainOK
  <2>3. /\ stopped'["slotPool"] => stopped["slotPool"] \/ c = "slotPool"
        /\ stopped["qPrep"] => stopped'["qPrep"]
    BY <2>2 DEF Channel
  <2>4. Cardinality(SlotSeekers)' = Cardinality(SlotSeekers) /\ (Joined(Prep) => Joined(Prep)')
    BY <2>1 DEF SlotSeekers, Joined
  <2>5. Cardinality(SlotSeekers) =< Len(q["slotPool"]) \/ ~stopped'["slotPool"]
    BY <2>3, OpenReserve DEF ReserveInv
  <2> QED BY <2>1, <2>3, <2>4, <2>5 DEF ReserveInv
<1>6. CASE DrainPools
  <2>1. Joined(Prep) /\ UNCHANGED <<q, pc>>
    BY <1>6 DEF DrainPools, PhaseInv
  <2>2. Joined(Prep)' /\ SlotSeekers' = {}
    BY <2>1 DEF Joined, SlotSeekers
  <2>3. Cardinality(SlotSeekers') = 0 /\ Len(q["slotPool"]) \in Nat
    BY <2>2, FS_EmptySet, LenTypes DEF IndInv, TypeOK
  <2> QED BY <2>1, <2>2, <2>3 DEF ReserveInv
<1>7. CASE IngestStep
  <2>1. IngestDrops \/ IngestStops \/ IngestSees \/ IngestBreaks => UNCHANGED q
    BY DEF IngestDrops, IngestStops, IngestSees, IngestBreaks
  <2>2. IngestTakes \/ IngestPushes => q'["slotPool"] = q["slotPool"]
    BY DEF IngestTakes, IngestPushes, TryPush, PushTo, PopFrom, IndInv, TypeOK, ChannelsOK, Channel
  <2>3. UNCHANGED <<pc, stopped>>
    BY <1>7 DEF IngestStep, IngestDrops, IngestStops, IngestSees, IngestBreaks, IngestTakes, IngestPushes
  <2> QED BY <1>2, <1>7, <2>1, <2>2, <2>3 DEF IngestStep
<1>8. CASE UNCHANGED vars
  BY <1>2, <1>8 DEF vars
<1> QED
  BY <1>1, <1>3, <1>4, <1>5, <1>6, <1>7, <1>8 DEF Next, MainStep, Keys, Gone, ReapIngest

\* MinimumSlots is enough: slotPool.pop in PrepStage never has to wait, and the
\* order in which Abort stops the queues keeps it from ever being refused.
THEOREM SlotNeverAwaited == Spec => []PrepNeverWaitsForSlot
<1>1. Init => PhaseInv /\ ReserveInv
  BY DEF Init, PhaseInv, ReserveInv, Channel
<1>2. Spec => []PhaseInv
  BY <1>1, PhaseStep, Invariance, PTL DEF Spec
<1>3. Spec => []ReserveInv
  BY <1>1, <1>2, ReserveStep, Invariance, PTL DEF Spec
<1>4. IndInv /\ ReserveInv => PrepNeverWaitsForSlot
  <2> SUFFICES ASSUME IndInv, ReserveInv,
                      NEW w \in Prep, pc[w] = "popSlot", q["slotPool"] = <<>>
               PROVE  FALSE
    BY DEF PrepNeverWaitsForSlot
  <2>1. Cardinality(SlotSeekers) =< Len(q["slotPool"])
    BY OpenReserve DEF ReserveInv
  <2>2. IsFiniteSet(SlotSeekers) /\ SlotSeekers # {}
    BY ThreadAssumption, FS_Subset DEF SlotSeekers
  <2>3. Cardinality(SlotSeekers) \in Nat /\ Cardinality(SlotSeekers) # 0
    BY <2>2, FS_EmptySet, FS_CardinalityType
  <2>4. Len(q["slotPool"]) = 0
    OBVIOUS
  <2> QED BY <2>1, <2>3, <2>4
<1> QED BY <1>3, <1>4, Invariance, PTL
-----------------------------------------------------------------------------
(* Ownership by name: how many places a buffer has, by way of how many       *)
(* places of a sequence hold it.                                           *)

\* The places of a sequence that hold y.
Places(s, y) == {i \in DOMAIN s : s[i] = y}

LEMMA PlacesAppend ==
  ASSUME NEW S, NEW s \in Seq(S), NEW x \in S, NEW y
  PROVE  /\ IsFiniteSet(Places(s, y)) /\ Cardinality(Places(s, y)) \in Nat
         /\ Cardinality(Places(Append(s, x), y)) =
              Cardinality(Places(s, y)) + (IF x = y THEN 1 ELSE 0)
<1> DEFINE n == Len(s)
           A == Places(s, y)
           B == Places(Append(s, x), y)
           U == 1 .. n + 1
           k == n + 1
<1>1. n \in Nat /\ DOMAIN s = 1 .. n
  BY LenProperties
<1>2. /\ DOMAIN Append(s, x) = 1 .. n + 1 /\ Append(s, x)[n + 1] = x
      /\ \A i \in 1 .. n : Append(s, x)[i] = s[i]
  BY <1>1
<1>3. IsFiniteSet(U) /\ k \in U
  BY <1>1, FS_Interval
<1>4. A \in SUBSET U /\ B \in SUBSET U
  BY <1>1, <1>2 DEF Places
<1>5. \A i \in U \ {k} : i \in A <=> i \in B
  BY <1>1, <1>2 DEF Places
<1>6. k \notin A /\ (k \in B <=> x = y)
  BY <1>1, <1>2 DEF Places
<1>7. IsFiniteSet(A)
  BY <1>3, <1>4, FS_Subset
<1> HIDE DEF A, B, U, k
<1>8. /\ Cardinality(A) \in Nat
      /\ Cardinality(B) = IF k \in A <=> k \in B THEN Cardinality(A)
                          ELSE IF k \in B THEN Cardinality(A) + 1 ELSE Cardinality(A) - 1
  BY <1>3, <1>4, <1>5, CountMove
<1>9. Cardinality(B) = Cardinality(A) + (IF x = y THEN 1 ELSE 0)
  BY <1>6, <1>8
<1> QED BY <1>7, <1>8, <1>9 DEF A, B

LEMMA PlacesTail ==
  ASSUME NEW S, NEW s \in Seq(S), s # <<>>, NEW y
  PROVE  Cardinality(Places(Tail(s), y)) =
           Cardinality(Places(s, y)) - (IF Head(s) = y THEN 1 ELSE 0)
<1> DEFINE n == Len(s)
           A == Places(s, y)
           B == {i \in A : i # 1}
           C == Places(Tail(s), y)
           U == 1 .. n
           f == [i \in B |-> i - 1]
<1>1. n \in Nat \ {0} /\ DOMAIN s = 1 .. n /\ Head(s) = s[1]
  BY LenProperties, EmptySeq
<1>2. /\ DOMAIN Tail(s) = 1 .. n - 1
      /\ \A i \in 1 .. n - 1 : Tail(s)[i] = s[i + 1]
  BY <1>1
<1>3. IsFiniteSet(U) /\ A \in SUBSET U /\ B \in SUBSET U
  BY <1>1, FS_Interval, SMTT(20) DEF Places
<1>4. 1 \in U /\ 1 \notin B /\ (1 \in A <=> Head(s) = y) /\ \A i \in U \ {1} : i \in A <=> i \in B
  BY <1>1 DEF Places
<1>5. f \in Bijection(B, C)
  <2>1. \A i \in B : i \in 2 .. n /\ i - 1 \in 1 .. n - 1 /\ s[i] = y
    BY <1>1 DEF Places
  <2>2. \A i \in B : Tail(s)[i - 1] = s[i]
    BY <1>1, <1>2, <2>1
  <2>3. \A i \in B : i - 1 \in C
    BY <1>2, <2>1, <2>2 DEF Places
  <2>4. f \in [B -> C]
    BY <2>3
  <2>5. \A i, j \in B : f[i] = f[j] => i = j
    BY <2>1
  <2>6. \A k \in C : k + 1 \in B /\ f[k + 1] = k
    BY <1>1, <1>2 DEF Places
  <2>7. \A k \in C : \E i \in B : f[i] = k
    BY <2>6
  <2> HIDE DEF f, B, C
  <2>8. f \in Injection(B, C)
    BY <2>4, <2>5 DEF Injection, IsInjective
  <2>9. f \in Surjection(B, C)
    BY <2>4, <2>7 DEF Surjection
  <2> QED BY <2>8, <2>9 DEF Bijection
<1>6. IsFiniteSet(B)
  BY <1>3, FS_Subset
<1>7. Cardinality(C) = Cardinality(B)
  <2>1. ExistsBijection(B, C)
    BY <1>5 DEF ExistsBijection
  <2> HIDE DEF B, C
  <2> QED BY <1>6, <2>1, FS_Bijection
<1> HIDE DEF A, B, C, U
<1>8. /\ Cardinality(A) \in Nat
      /\ Cardinality(B) = IF 1 \in A <=> 1 \in B THEN Cardinality(A)
                          ELSE IF 1 \in B THEN Cardinality(A) + 1 ELSE Cardinality(A) - 1
  BY <1>3, <1>4, CountMove
<1>9. Cardinality(C) = Cardinality(A) - (IF Head(s) = y THEN 1 ELSE 0)
  BY <1>4, <1>7, <1>8
<1> QED BY <1>9 DEF A, C

\* push_locked adds a place of one record, pop_locked takes one away; the other
\* channels stay as they are.
LEMMA OccursPush ==
  ASSUME ChannelsOK, NEW c \in Channel, NEW x \in Items(c), PushTo(c, x), NEW y
  PROVE  /\ Occurs(c, y)' = Occurs(c, y) + (IF x = y THEN 1 ELSE 0)
         /\ \A d \in Channel \ {c} : q'[d] = q[d]
<1>1. q[c] \in Seq(Items(c)) /\ q'[c] = Append(q[c], x) /\ \A d \in Channel \ {c} : q'[d] = q[d]
  BY DEF PushTo, ChannelsOK
<1>2. Cardinality(Places(Append(q[c], x), y)) = Cardinality(Places(q[c], y)) + (IF x = y THEN 1 ELSE 0)
  BY <1>1, PlacesAppend
<1> QED BY <1>1, <1>2 DEF Occurs, Places

LEMMA OccursPop ==
  ASSUME ChannelsOK, NEW c \in Channel, CanPop(c), PopFrom(c), NEW y
  PROVE  /\ Occurs(c, y)' = Occurs(c, y) - (IF Head(q[c]) = y THEN 1 ELSE 0)
         /\ \A d \in Channel \ {c} : q'[d] = q[d]
<1>1. q[c] \in Seq(Items(c)) /\ q'[c] = Tail(q[c]) /\ \A d \in Channel \ {c} : q'[d] = q[d]
  BY DEF PopFrom, ChannelsOK
<1>2. Cardinality(Places(Tail(q[c]), y)) = Cardinality(Places(q[c], y)) - (IF Head(q[c]) = y THEN 1 ELSE 0)
  BY <1>1, PlacesTail DEF CanPop
<1> QED BY <1>1, <1>2 DEF Occurs, Places

LEMMA OccursType ==
  ASSUME ChannelsOK, NEW c \in Channel, NEW y
  PROVE  Occurs(c, y) \in Nat
<1>1. q[c] \in Seq(Items(c))
  BY DEF ChannelsOK
<1>2. DOMAIN q[c] = 1 .. Len(q[c]) /\ Len(q[c]) \in Nat
  BY <1>1, LenProperties
<1>3. IsFiniteSet(DOMAIN q[c])
  BY <1>2, FS_Interval
<1>4. IsFiniteSet({i \in DOMAIN q[c] : q[c][i] = y})
  BY <1>3, FS_Subset
<1> QED BY <1>4, FS_CardinalityType DEF Occurs

\* The threads that hold a buffer, and all the places where one is.
FrameHands(f) == Cardinality({w \in Prep : frame[w] = f})
SlotHands(s)  == Cardinality({w \in Worker : slot[w] = s})
FramePlaces(f) == Occurs("rawPool", f) + Occurs("qRaw", f) + FrameHands(f)
                    + (IF inFrame = f THEN 1 ELSE 0)
SlotPlaces(s)  == Occurs("slotPool", s) + Occurs("qPrep", s) + Occurs("qInf", s)
                    + SlotHands(s)

\* Steps on other buffers.
LEMMA FrameKept ==
  ASSUME q'["rawPool"] = q["rawPool"], q'["qRaw"] = q["qRaw"], UNCHANGED <<frame, inFrame>>, NEW f
  PROVE  FramePlaces(f)' = FramePlaces(f)
BY DEF FramePlaces, Occurs, FrameHands

LEMMA SlotKept ==
  ASSUME q'["slotPool"] = q["slotPool"], q'["qPrep"] = q["qPrep"], q'["qInf"] = q["qInf"],
         UNCHANGED slot, NEW s
  PROVE  SlotPlaces(s)' = SlotPlaces(s)
BY DEF SlotPlaces, Occurs, SlotHands

\* Only the channel of a call changes.
LEMMA OneChannel ==
  ASSUME ChannelsOK, NEW c \in Channel, NEW x, PushTo(c, x) \/ PopFrom(c) \/ TryPush(c, x)
  PROVE  \A d \in Channel \ {c} : q'[d] = q[d]
BY DEF PushTo, PopFrom, TryPush, ChannelsOK

\* What a thread hands on or takes changes its local variable and one channel.
LEMMA FrameHand ==
  ASSUME IndInv, NEW w \in Prep, NEW x, frame' = [frame EXCEPT ![w] = x], NEW f
  PROVE  FrameHands(f)' = FrameHands(f)
           - (IF frame[w] = f THEN 1 ELSE 0) + (IF x = f THEN 1 ELSE 0)
<1> DEFINE A == {v \in Prep : frame[v] = f}
           B == {v \in Prep : frame'[v] = f}
<1>1. frame'[w] = x /\ \A v \in Prep \ {w} : frame'[v] = frame[v]
  BY DEF IndInv, TypeOK, FrameHeldOK
<1>2. A' = B
  OBVIOUS
<1>3. A \in SUBSET Prep /\ B \in SUBSET Prep /\ \A v \in Prep \ {w} : v \in A <=> v \in B
  BY <1>1
<1>4. (w \in A <=> frame[w] = f) /\ (w \in B <=> x = f)
  BY <1>1
<1>5. Cardinality(A)' = Cardinality(B)
  BY <1>2
<1>6. IsFiniteSet(Prep)
  BY ThreadAssumption
<1> HIDE DEF A, B
<1>7. /\ Cardinality(A) \in Nat
      /\ Cardinality(B) = IF w \in A <=> w \in B THEN Cardinality(A)
                          ELSE IF w \in B THEN Cardinality(A) + 1 ELSE Cardinality(A) - 1
  BY <1>3, <1>6, CountMove
<1>8. Cardinality(A)' = Cardinality(A) - (IF frame[w] = f THEN 1 ELSE 0) + (IF x = f THEN 1 ELSE 0)
  BY <1>4, <1>5, <1>7
<1> QED BY <1>8 DEF A, FrameHands

LEMMA SlotHand ==
  ASSUME IndInv, NEW w \in Worker, NEW x, slot' = [slot EXCEPT ![w] = x], NEW s
  PROVE  SlotHands(s)' = SlotHands(s)
           - (IF slot[w] = s THEN 1 ELSE 0) + (IF x = s THEN 1 ELSE 0)
<1> DEFINE A == {v \in Worker : slot[v] = s}
           B == {v \in Worker : slot'[v] = s}
<1>1. slot'[w] = x /\ \A v \in Worker \ {w} : slot'[v] = slot[v]
  BY DEF IndInv, TypeOK, SlotHeldOK
<1>2. A' = B
  OBVIOUS
<1>3. A \in SUBSET Worker /\ B \in SUBSET Worker /\ \A v \in Worker \ {w} : v \in A <=> v \in B
  BY <1>1
<1>4. (w \in A <=> slot[w] = s) /\ (w \in B <=> x = s)
  BY <1>1
<1>5. Cardinality(A)' = Cardinality(B)
  BY <1>2
<1>6. IsFiniteSet(Worker)
  BY WorkersFinite
<1> HIDE DEF A, B
<1>7. /\ Cardinality(A) \in Nat
      /\ Cardinality(B) = IF w \in A <=> w \in B THEN Cardinality(A)
                          ELSE IF w \in B THEN Cardinality(A) + 1 ELSE Cardinality(A) - 1
  BY <1>3, <1>6, CountMove
<1>8. Cardinality(A)' = Cardinality(A) - (IF slot[w] = s THEN 1 ELSE 0) + (IF x = s THEN 1 ELSE 0)
  BY <1>4, <1>5, <1>7
<1> QED BY <1>8 DEF A, SlotHands

\* How many threads hold a buffer is a number.
LEMMA FrameHandType == ASSUME NEW f PROVE FrameHands(f) \in Nat
BY ThreadAssumption, FS_Subset, FS_CardinalityType DEF FrameHands

LEMMA SlotHandType == ASSUME NEW s PROVE SlotHands(s) \in Nat
BY WorkersFinite, FS_Subset, FS_CardinalityType DEF SlotHands

LEMMA PlacesType ==
  ASSUME IndInv, NEW x
  PROVE  FramePlaces(x) \in Nat /\ SlotPlaces(x) \in Nat
<1>1. \A c \in Channel : Occurs(c, x) \in Nat
  BY OccursType DEF IndInv, TypeOK
<1>2. FrameHands(x) \in Nat /\ SlotHands(x) \in Nat
  BY FrameHandType, SlotHandType
<1> QED BY <1>1, <1>2 DEF FramePlaces, SlotPlaces, Channel

\* Refused or not, a call on one channel leaves what the others hold.
LEMMA OccursElsewhere ==
  ASSUME NEW d, q'[d] = q[d], NEW y
  PROVE  Occurs(d, y)' = Occurs(d, y)
BY DEF Occurs

\* The steps that move a raw frame.
LEMMA FramePopped ==
  ASSUME IndInv, NEW w \in Prep, PrepPopRaw(w), NEW f \in Frame
  PROVE  FramePlaces(f)' = FramePlaces(f)
<1>1. CASE PopRefused("qRaw") /\ UNCHANGED <<q, frame>>
  BY <1>1, FrameKept DEF PrepPopRaw, source
<1>2. CASE CanPop("qRaw") /\ PopFrom("qRaw") /\ frame' = [frame EXCEPT ![w] = Head(q["qRaw"])]
  <2>1. ChannelsOK /\ "qRaw" \in Channel /\ "rawPool" \in Channel \ {"qRaw"}
    BY DEF IndInv, TypeOK, Channel
  <2>2. /\ Occurs("qRaw", f)' = Occurs("qRaw", f) - (IF Head(q["qRaw"]) = f THEN 1 ELSE 0)
        /\ q'["rawPool"] = q["rawPool"]
    BY <1>2, <2>1, OccursPop
  <2>3. Occurs("rawPool", f)' = Occurs("rawPool", f)
    BY <2>2, OccursElsewhere
  <2>4. frame[w] # f
    <3>1. w \notin FrameHolders
      BY DEF PrepPopRaw, FrameHolders, FramePcs
    <3> QED BY <3>1 DEF IndInv, TypeOK, FrameHeldOK
  <2>5. FrameHands(f)' = FrameHands(f)
          - (IF frame[w] = f THEN 1 ELSE 0) + (IF Head(q["qRaw"]) = f THEN 1 ELSE 0)
    BY <1>2, FrameHand
  <2>6. UNCHANGED inFrame
    BY DEF PrepPopRaw, source
  <2>7. /\ Occurs("rawPool", f) \in Nat /\ Occurs("qRaw", f) \in Nat
        /\ FrameHands(f) \in Nat
    BY <2>1, OccursType, FrameHandType
  <2> QED BY <2>2, <2>3, <2>4, <2>5, <2>6, <2>7 DEF FramePlaces
<1> QED BY <1>1, <1>2 DEF PrepPopRaw

LEMMA FrameReturned ==
  ASSUME IndInv, NEW w \in Prep, PrepReturnRaw(w), NEW f \in Frame
  PROVE  \/ FramePlaces(f)' = FramePlaces(f)
         \/ stopped["rawPool"] /\ FramePlaces(f)' = FramePlaces(f) - 1
<1>1. ChannelsOK /\ "rawPool" \in Channel /\ "qRaw" \in Channel \ {"rawPool"}
      /\ w \in FrameHolders /\ frame[w] \in Frame /\ frame[w] \in Items("rawPool")
  BY DEF IndInv, TypeOK, Channel, PrepReturnRaw, FrameHolders, FramePcs, FrameHeldOK, Items
<1>2. FrameHands(f)' = FrameHands(f)
        - (IF frame[w] = f THEN 1 ELSE 0) + (IF 0 = f THEN 1 ELSE 0)
  BY FrameHand DEF PrepReturnRaw
<1>3. 0 # f
  BY DEF Frame
<1>4. UNCHANGED inFrame
  BY DEF PrepReturnRaw, source
<1>5. /\ Occurs("rawPool", f) \in Nat /\ Occurs("qRaw", f) \in Nat
      /\ FrameHands(f) \in Nat
  BY <1>1, OccursType, FrameHandType
<1>6. CASE CanPush("rawPool")
  <2>1. /\ Occurs("rawPool", f)' = Occurs("rawPool", f) + (IF frame[w] = f THEN 1 ELSE 0)
        /\ q'["qRaw"] = q["qRaw"]
    BY <1>1, <1>6, OccursPush DEF PrepReturnRaw, TryPush
  <2>2. Occurs("qRaw", f)' = Occurs("qRaw", f)
    BY <2>1, OccursElsewhere
  <2>3. FramePlaces(f)' = FramePlaces(f)
    BY <1>2, <1>3, <1>4, <1>5, <2>1, <2>2 DEF FramePlaces
  <2> QED BY <2>3
<1>7. CASE ~CanPush("rawPool")
  <2>1. UNCHANGED q
    BY <1>7 DEF PrepReturnRaw, TryPush
  <2>2. Occurs("rawPool", f)' = Occurs("rawPool", f) /\ Occurs("qRaw", f)' = Occurs("qRaw", f)
    BY <2>1, OccursElsewhere
  <2>3. stopped["rawPool"]
    BY <1>1, <1>7, RoomInPools, CapValues DEF CanPush, PoolsHaveRoom
  <2>4. FramePlaces(f)' = FramePlaces(f) \/ FramePlaces(f)' = FramePlaces(f) - 1
    BY <1>2, <1>3, <1>4, <1>5, <2>2 DEF FramePlaces
  <2> QED BY <2>3, <2>4
<1> QED BY <1>6, <1>7

LEMMA FrameFilled ==
  ASSUME IndInv, IngestTakes, NEW f \in Frame
  PROVE  FramePlaces(f)' = FramePlaces(f)
<1>1. ChannelsOK /\ "rawPool" \in Channel /\ "qRaw" \in Channel \ {"rawPool"}
  BY DEF IndInv, TypeOK, Channel
<1>2. /\ Occurs("rawPool", f)' = Occurs("rawPool", f) - (IF Head(q["rawPool"]) = f THEN 1 ELSE 0)
      /\ q'["qRaw"] = q["qRaw"]
  BY <1>1, OccursPop DEF IngestTakes
<1>3. Occurs("qRaw", f)' = Occurs("qRaw", f)
  BY <1>2, OccursElsewhere
<1>4. inFrame # f /\ inFrame' = Head(q["rawPool"])
  BY DEF IngestTakes, IndInv, TypeOK, IngestOK
<1>5. FrameHands(f)' = FrameHands(f)
  BY DEF IngestTakes, FrameHands
<1>6. /\ Occurs("rawPool", f) \in Nat /\ Occurs("qRaw", f) \in Nat
      /\ FrameHands(f) \in Nat
  BY <1>1, OccursType, FrameHandType
<1> QED BY <1>2, <1>3, <1>4, <1>5, <1>6 DEF FramePlaces

LEMMA FrameQueued ==
  ASSUME IndInv, IngestPushes, NEW f \in Frame
  PROVE  FramePlaces(f)' = FramePlaces(f)
<1>1. /\ ChannelsOK /\ "qRaw" \in Channel /\ "rawPool" \in Channel \ {"qRaw"}
      /\ inFrame \in Frame /\ inFrame \in Items("qRaw") /\ ingest = "push"
  BY DEF IndInv, TypeOK, Channel, IngestPushes, IngestOK, Items
<1>2. PushTo("qRaw", inFrame)
  BY <1>1, ReaderPush DEF IngestPushes
<1>3. /\ Occurs("qRaw", f)' = Occurs("qRaw", f) + (IF inFrame = f THEN 1 ELSE 0)
      /\ q'["rawPool"] = q["rawPool"]
  BY <1>1, <1>2, OccursPush
<1>4. Occurs("rawPool", f)' = Occurs("rawPool", f)
  BY <1>3, OccursElsewhere
<1>5. inFrame' = 0 /\ 0 # f
  BY DEF IngestPushes, Frame
<1>6. FrameHands(f)' = FrameHands(f)
  BY DEF IngestPushes, frames, FrameHands
<1>7. /\ Occurs("rawPool", f) \in Nat /\ Occurs("qRaw", f) \in Nat
      /\ FrameHands(f) \in Nat
  BY <1>1, OccursType, FrameHandType
<1> QED BY <1>3, <1>4, <1>5, <1>6, <1>7 DEF FramePlaces

\* A step never adds a place of a frame, and takes one away only when the pool
\* that refuses it is stopped.
LEMMA FrameStep ==
  ASSUME IndInv, [Next]_vars, NEW f \in Frame
  PROVE  \/ FramePlaces(f)' = FramePlaces(f)
         \/ stopped["rawPool"] /\ FramePlaces(f)' = FramePlaces(f) - 1
<1>2. ASSUME NEW w \in Prep, PrepPopRaw(w) PROVE FramePlaces(f)' = FramePlaces(f)
  BY <1>2, FramePopped
<1>3. ASSUME NEW w \in Prep, PrepReturnRaw(w)
      PROVE  \/ FramePlaces(f)' = FramePlaces(f)
             \/ stopped["rawPool"] /\ FramePlaces(f)' = FramePlaces(f) - 1
  BY <1>3, FrameReturned
<1>4. ASSUME NEW w \in Worker,
             PrepPopSlot(w) \/ PrepFill(w) \/ PrepPush(w) \/ DropSlot(w) \/ InferPop(w)
               \/ InferRun(w) \/ InferPush(w) \/ PostPop(w) \/ PostPublish(w) \/ PostRelease(w)
      PROVE  FramePlaces(f)' = FramePlaces(f)
  <2>1. UNCHANGED <<frame, inFrame>>
    BY <1>4 DEF PrepPopSlot, PrepFill, PrepPush, DropSlot, InferPop, InferRun, InferPush,
       PostPop, PostPublish, PostRelease, frames, source
  <2>2. q'["rawPool"] = q["rawPool"] /\ q'["qRaw"] = q["qRaw"]
    <3>1. \/ UNCHANGED q
          \/ \E c \in {"slotPool", "qPrep", "qInf"}, x \in {slot[w]} :
               PushTo(c, x) \/ PopFrom(c) \/ TryPush(c, x)
      BY <1>4 DEF PrepPopSlot, PrepFill, PrepPush, DropSlot, InferPop, InferRun, InferPush,
         PostPop, PostPublish, PostRelease
    <3>2. ASSUME NEW c \in {"slotPool", "qPrep", "qInf"}, NEW x,
                 PushTo(c, x) \/ PopFrom(c) \/ TryPush(c, x)
          PROVE  q'["rawPool"] = q["rawPool"] /\ q'["qRaw"] = q["qRaw"]
      BY <3>2, OneChannel DEF Channel, IndInv, TypeOK
    <3> QED BY <3>1, <3>2
  <2> QED BY <2>1, <2>2, FrameKept
<1>5. CASE IngestTakes \/ IngestPushes
  BY <1>5, FrameFilled, FrameQueued
<1>6. CASE UNCHANGED <<q, frame, inFrame>>
  BY <1>6, FrameKept
<1>7. CASE IngestStep
  BY <1>5, <1>6, <1>7 DEF IngestStep, IngestStops, IngestSees, IngestBreaks, IngestDrops, frames
<1>8. CASE MainStep \/ Keys \/ Gone \/ UNCHANGED vars
  <2>1. UNCHANGED <<q, frame, inFrame>>
    BY <1>8 DEF MainStep, Keys, Gone, vars, Spawn, Ready, ReapIngest, KeyS, KeyX, KeyQ, JoinIngest,
       DrainStop, DrainJoin, DrainPools, Return, AbortStop, AbortJoin, frames, source
  <2> QED BY <1>6, <2>1
<1>9. ASSUME NEW w \in Worker, Step(w)
      PROVE  \/ FramePlaces(f)' = FramePlaces(f)
             \/ stopped["rawPool"] /\ FramePlaces(f)' = FramePlaces(f) - 1
  BY <1>2, <1>3, <1>4, <1>9 DEF Step
<1> QED BY <1>6, <1>7, <1>8, <1>9 DEF Next

LEMMA FramesOwnedInit == Init => FramesOwnedOnce
<1> SUFFICES ASSUME Init, NEW f \in Frame
             PROVE  FramePlaces(f) = 1
  BY DEF FramesOwnedOnce, FramePlaces, FrameHands
<1>1. /\ q["rawPool"] = [i \in Frame |-> i] /\ q["qRaw"] = <<>>
      /\ frame = [w \in Prep |-> 0] /\ inFrame = 0 /\ 0 # f
  BY DEF Init, Channel, Frame
<1>2. {i \in DOMAIN q["rawPool"] : q["rawPool"][i] = f} = {f}
  BY <1>1
<1>3. {i \in DOMAIN q["qRaw"] : q["qRaw"][i] = f} = {} /\ {w \in Prep : frame[w] = f} = {}
  BY <1>1
<1>4. Occurs("rawPool", f) = 1 /\ Occurs("qRaw", f) = 0 /\ FrameHands(f) = 0
  BY <1>2, <1>3, FS_Singleton, FS_EmptySet DEF Occurs, FrameHands
<1> QED BY <1>1, <1>4 DEF FramePlaces

\* Queues and pools are only ever stopped.
LEMMA StopIsFinal ==
  ASSUME IndInv, [Next]_vars, NEW c \in Channel, stopped[c]
  PROVE  stopped'[c]
<1>1. stopped \in [Channel -> BOOLEAN]
  BY DEF IndInv, TypeOK, MainOK
<1>2. ASSUME NEW w \in Worker, Step(w) PROVE UNCHANGED stopped
  BY <1>2 DEF Step, PrepPopRaw, PrepPopSlot, PrepFill, PrepReturnRaw, PrepPush, DropSlot,
     InferPop, InferRun, InferPush, PostPop, PostPublish, PostRelease
<1>3. CASE IngestStep
  BY <1>3 DEF IngestStep, IngestStops, IngestSees, IngestBreaks, IngestDrops, IngestTakes, IngestPushes
<1>4. CASE DrainStop \/ DrainPools \/ AbortStop
  BY <1>1, <1>4 DEF DrainStop, DrainPools, AbortStop, StopChannel
<1>5. CASE Keys \/ Gone \/ UNCHANGED vars
  BY <1>5 DEF Keys, Gone, vars, KeyS, KeyX, KeyQ
<1>6. CASE MainStep
  <2>1. CASE DrainStop \/ DrainPools \/ AbortStop
    BY <1>4, <2>1
  <2>2. CASE ~(DrainStop \/ DrainPools \/ AbortStop)
    BY <1>6, <2>2 DEF MainStep, Spawn, Ready, ReapIngest, KeyX, JoinIngest, DrainJoin, Return, AbortJoin
  <2> QED BY <2>1, <2>2
<1> QED BY <1>2, <1>3, <1>5, <1>6 DEF Next

\* A frame is in one queue or with one thread, and until its pool is stopped
\* it is somewhere.
THEOREM FrameHasOneOwner == Spec => []FramesOwnedOnce
<1>1. IndInv /\ FramesOwnedOnce /\ [Next]_vars => FramesOwnedOnce'
  <2> SUFFICES ASSUME IndInv, FramesOwnedOnce, [Next]_vars, NEW f \in Frame
               PROVE  FramePlaces(f)' =< 1 /\ (~stopped'["rawPool"] => FramePlaces(f)' = 1)
    BY DEF FramesOwnedOnce, FramePlaces, FrameHands
  <2>1. FramePlaces(f) =< 1 /\ (~stopped["rawPool"] => FramePlaces(f) = 1)
    BY DEF FramesOwnedOnce, FramePlaces, FrameHands
  <2>2. \/ FramePlaces(f)' = FramePlaces(f)
        \/ stopped["rawPool"] /\ FramePlaces(f)' = FramePlaces(f) - 1
    BY FrameStep
  <2>3. FramePlaces(f) \in Nat
    BY PlacesType
  <2>4. stopped["rawPool"] => stopped'["rawPool"]
    BY StopIsFinal DEF Channel
  <2> QED BY <2>1, <2>2, <2>3, <2>4
<1> QED BY <1>1, FramesOwnedInit, Invariance, PTL DEF Spec

\* A thread that gives its slot up holds it no longer.
LEMMA SlotLeft ==
  ASSUME IndInv, NEW w \in Worker, slot' = [slot EXCEPT ![w] = 0], NEW s \in Slot
  PROVE  SlotHands(s)' = SlotHands(s) - (IF slot[w] = s THEN 1 ELSE 0)
<1>1. SlotHands(s)' = SlotHands(s) - (IF slot[w] = s THEN 1 ELSE 0) + (IF 0 = s THEN 1 ELSE 0)
  BY SlotHand, ZenonT(40)
<1>2. 0 # s
  BY DEF Slot
<1>3. SlotHands(s) \in Nat
  BY SlotHandType
<1> QED BY <1>1, <1>2, <1>3

\* The steps that move a slot: taken from a queue, handed on, given back.
LEMMA SlotTaken ==
  ASSUME IndInv, NEW w \in Worker, NEW c \in {"slotPool", "qPrep", "qInf"}, CanPop(c), PopFrom(c),
         pc[w] \notin SlotPcs, slot' = [slot EXCEPT ![w] = Head(q[c])], NEW s \in Slot
  PROVE  SlotPlaces(s)' = SlotPlaces(s)
<1>1. ChannelsOK /\ c \in Channel /\ {"slotPool", "qPrep", "qInf"} \subseteq Channel
  BY DEF IndInv, TypeOK, Channel
<1>2. /\ Occurs(c, s)' = Occurs(c, s) - (IF Head(q[c]) = s THEN 1 ELSE 0)
      /\ \A d \in Channel \ {c} : q'[d] = q[d]
  BY <1>1, OccursPop
<1>3. \A d \in {"slotPool", "qPrep", "qInf"} \ {c} : Occurs(d, s)' = Occurs(d, s)
  BY <1>1, <1>2, OccursElsewhere
<1>4. slot[w] # s
  <2>1. w \notin SlotHolders
    BY DEF SlotHolders
  <2> QED BY <2>1 DEF IndInv, TypeOK, SlotHeldOK
<1>5. SlotHands(s)' = SlotHands(s) - (IF slot[w] = s THEN 1 ELSE 0) + (IF Head(q[c]) = s THEN 1 ELSE 0)
  BY SlotHand
<1>6. /\ Occurs("slotPool", s) \in Nat /\ Occurs("qPrep", s) \in Nat /\ Occurs("qInf", s) \in Nat
      /\ SlotHands(s) \in Nat
  BY <1>1, OccursType, SlotHandType
<1>7. CASE c = "slotPool"
  BY <1>2, <1>3, <1>4, <1>5, <1>6, <1>7 DEF SlotPlaces
<1>8. CASE c = "qPrep"
  BY <1>2, <1>3, <1>4, <1>5, <1>6, <1>8 DEF SlotPlaces
<1>9. CASE c = "qInf"
  BY <1>2, <1>3, <1>4, <1>5, <1>6, <1>9 DEF SlotPlaces
<1> QED BY <1>7, <1>8, <1>9

LEMMA SlotPassed ==
  ASSUME IndInv, NEW w \in Worker, NEW c \in {"slotPool", "qPrep", "qInf"}, PushTo(c, slot[w]),
         pc[w] \in SlotPcs, slot' = [slot EXCEPT ![w] = 0], NEW s \in Slot
  PROVE  SlotPlaces(s)' = SlotPlaces(s)
<1>1. /\ ChannelsOK /\ c \in Channel /\ {"slotPool", "qPrep", "qInf"} \subseteq Channel
      /\ slot[w] \in Items(c)
  BY DEF IndInv, TypeOK, Channel, SlotHolders, SlotHeldOK, Items
<1>2. /\ Occurs(c, s)' = Occurs(c, s) + (IF slot[w] = s THEN 1 ELSE 0)
      /\ \A d \in Channel \ {c} : q'[d] = q[d]
  BY <1>1, OccursPush
<1>3. \A d \in {"slotPool", "qPrep", "qInf"} \ {c} : Occurs(d, s)' = Occurs(d, s)
  BY <1>1, <1>2, OccursElsewhere
<1>4. SlotHands(s)' = SlotHands(s) - (IF slot[w] = s THEN 1 ELSE 0)
  BY SlotLeft
<1>5. /\ Occurs("slotPool", s) \in Nat /\ Occurs("qPrep", s) \in Nat /\ Occurs("qInf", s) \in Nat
      /\ SlotHands(s) \in Nat
  BY <1>1, OccursType, SlotHandType
<1>6. CASE c = "slotPool"
  BY <1>2, <1>3, <1>4, <1>5, <1>6 DEF SlotPlaces
<1>7. CASE c = "qPrep"
  BY <1>2, <1>3, <1>4, <1>5, <1>7 DEF SlotPlaces
<1>8. CASE c = "qInf"
  BY <1>2, <1>3, <1>4, <1>5, <1>8 DEF SlotPlaces
<1> QED BY <1>6, <1>7, <1>8

LEMMA SlotReturned ==
  ASSUME IndInv, NEW w \in Worker, TryPush("slotPool", slot[w]), pc[w] \in SlotPcs,
         slot' = [slot EXCEPT ![w] = 0], NEW s \in Slot
  PROVE  \/ SlotPlaces(s)' = SlotPlaces(s)
         \/ stopped["slotPool"] /\ SlotPlaces(s)' = SlotPlaces(s) - 1
<1>1. CASE CanPush("slotPool")
  BY <1>1, SlotPassed DEF TryPush
<1>2. CASE ~CanPush("slotPool")
  <2>1. ChannelsOK /\ w \in SlotHolders /\ {"slotPool", "qPrep", "qInf"} \subseteq Channel
    BY DEF IndInv, TypeOK, SlotHolders, Channel
  <2>2. stopped["slotPool"]
    BY <1>2, <2>1, RoomInPools, CapValues DEF CanPush, PoolsHaveRoom
  <2>3. UNCHANGED q
    BY <1>2 DEF TryPush
  <2>4. \A d \in {"slotPool", "qPrep", "qInf"} : Occurs(d, s)' = Occurs(d, s)
    BY <2>3, OccursElsewhere
  <2>5. SlotHands(s)' = SlotHands(s) - (IF slot[w] = s THEN 1 ELSE 0)
    BY SlotLeft
  <2>6. /\ Occurs("slotPool", s) \in Nat /\ Occurs("qPrep", s) \in Nat /\ Occurs("qInf", s) \in Nat
        /\ SlotHands(s) \in Nat
    BY <2>1, OccursType, SlotHandType
  <2>7. SlotPlaces(s)' = SlotPlaces(s) \/ SlotPlaces(s)' = SlotPlaces(s) - 1
    BY <2>4, <2>5, <2>6 DEF SlotPlaces
  <2> QED BY <2>2, <2>7
<1> QED BY <1>1, <1>2

\* The same for slots.
LEMMA SlotStep ==
  ASSUME IndInv, [Next]_vars, NEW s \in Slot
  PROVE  \/ SlotPlaces(s)' = SlotPlaces(s)
         \/ stopped["slotPool"] /\ SlotPlaces(s)' = SlotPlaces(s) - 1
<1>1. UNCHANGED <<q, slot>> => SlotPlaces(s)' = SlotPlaces(s)
  BY SlotKept
<1>2. ASSUME NEW w \in Worker, PrepPopSlot(w) PROVE SlotPlaces(s)' = SlotPlaces(s)
  <2>1. CASE PopRefused("slotPool") /\ UNCHANGED <<q, slot>>
    BY <1>1, <2>1
  <2>2. CASE CanPop("slotPool") /\ PopFrom("slotPool") /\ slot' = [slot EXCEPT ![w] = Head(q["slotPool"])]
    BY <1>2, <2>2, SlotTaken DEF PrepPopSlot, SlotPcs
  <2> QED BY <1>2, <2>1, <2>2 DEF PrepPopSlot
<1>3. ASSUME NEW w \in Worker, InferPop(w) PROVE SlotPlaces(s)' = SlotPlaces(s)
  <2>1. CASE PopRefused("qPrep") /\ UNCHANGED <<q, slot>>
    BY <1>1, <2>1
  <2>2. CASE CanPop("qPrep") /\ PopFrom("qPrep") /\ slot' = [slot EXCEPT ![w] = Head(q["qPrep"])]
    BY <1>3, <2>2, SlotTaken DEF InferPop, SlotPcs
  <2> QED BY <1>3, <2>1, <2>2 DEF InferPop
<1>4. ASSUME NEW w \in Worker, PostPop(w) PROVE SlotPlaces(s)' = SlotPlaces(s)
  <2>1. CASE PopRefused("qInf") /\ UNCHANGED <<q, slot>>
    BY <1>1, <2>1
  <2>2. CASE CanPop("qInf") /\ PopFrom("qInf") /\ slot' = [slot EXCEPT ![w] = Head(q["qInf"])]
    BY <1>4, <2>2, SlotTaken DEF PostPop, SlotPcs
  <2> QED BY <1>4, <2>1, <2>2 DEF PostPop
<1>5. ASSUME NEW w \in Worker, PrepPush(w) \/ InferPush(w)
      PROVE  SlotPlaces(s)' = SlotPlaces(s)
  <2>1. CASE UNCHANGED <<q, slot>>
    BY <1>1, <2>1
  <2>2. ASSUME NEW c \in {"qPrep", "qInf"}, PushTo(c, slot[w]), slot' = [slot EXCEPT ![w] = 0]
        PROVE  SlotPlaces(s)' = SlotPlaces(s)
    BY <1>5, <2>2, SlotPassed DEF PrepPush, InferPush, SlotPcs
  <2> QED BY <1>5, <2>1, <2>2 DEF PrepPush, InferPush
<1>6. ASSUME NEW w \in Worker, DropSlot(w) \/ PostRelease(w)
      PROVE  \/ SlotPlaces(s)' = SlotPlaces(s)
             \/ stopped["slotPool"] /\ SlotPlaces(s)' = SlotPlaces(s) - 1
  BY <1>6, SlotReturned DEF DropSlot, PostRelease, SlotPcs
<1>7. ASSUME NEW w \in Worker,
             PrepPopRaw(w) \/ PrepReturnRaw(w) \/ PrepFill(w) \/ InferRun(w) \/ PostPublish(w)
      PROVE  SlotPlaces(s)' = SlotPlaces(s)
  <2>1. UNCHANGED slot
    BY <1>7 DEF PrepPopRaw, PrepReturnRaw, PrepFill, InferRun, PostPublish, slots
  <2>2. CASE UNCHANGED q
    BY <1>1, <2>1, <2>2
  <2>3. ASSUME NEW c \in {"rawPool", "qRaw"}, NEW x, PopFrom(c) \/ TryPush(c, x)
        PROVE  SlotPlaces(s)' = SlotPlaces(s)
    <3>1. q'["slotPool"] = q["slotPool"] /\ q'["qPrep"] = q["qPrep"] /\ q'["qInf"] = q["qInf"]
      BY <2>3, OneChannel DEF Channel, IndInv, TypeOK
    <3> QED BY <2>1, <3>1, SlotKept
  <2> QED BY <1>7, <2>2, <2>3 DEF PrepPopRaw, PrepReturnRaw, PrepFill, InferRun, PostPublish
<1>8. ASSUME NEW w \in Worker, Step(w)
      PROVE  \/ SlotPlaces(s)' = SlotPlaces(s)
             \/ stopped["slotPool"] /\ SlotPlaces(s)' = SlotPlaces(s) - 1
  BY <1>2, <1>3, <1>4, <1>5, <1>6, <1>7, <1>8 DEF Step
<1>9. CASE IngestTakes \/ IngestPushes
  <2>1. UNCHANGED slot
    BY <1>9 DEF IngestTakes, IngestPushes, slots
  <2>2. ASSUME NEW c \in {"rawPool", "qRaw"}, NEW x, PushTo(c, x) \/ PopFrom(c) \/ TryPush(c, x)
        PROVE  SlotPlaces(s)' = SlotPlaces(s)
    <3>1. q'["slotPool"] = q["slotPool"] /\ q'["qPrep"] = q["qPrep"] /\ q'["qInf"] = q["qInf"]
      BY <2>2, OneChannel DEF Channel, IndInv, TypeOK
    <3> QED BY <2>1, <3>1, SlotKept
  <2> QED BY <1>9, <2>2 DEF IngestTakes, IngestPushes
<1>10. CASE IngestStep
  BY <1>1, <1>9, <1>10 DEF IngestStep, IngestStops, IngestSees, IngestBreaks, IngestDrops, slots
<1>11. CASE MainStep \/ Keys \/ Gone \/ UNCHANGED vars
  <2>1. UNCHANGED <<q, slot>>
    BY <1>11 DEF MainStep, Keys, Gone, vars, Spawn, Ready, ReapIngest, KeyS, KeyX, KeyQ, JoinIngest,
       DrainStop, DrainJoin, DrainPools, Return, AbortStop, AbortJoin, slots
  <2> QED BY <1>1, <2>1
<1> QED BY <1>8, <1>10, <1>11 DEF Next

LEMMA SlotsOwnedInit == Init => SlotsOwnedOnce
<1> SUFFICES ASSUME Init, NEW s \in Slot
             PROVE  SlotPlaces(s) = 1
  BY DEF SlotsOwnedOnce, SlotPlaces, SlotHands
<1>1. /\ q["slotPool"] = [i \in Slot |-> i] /\ q["qPrep"] = <<>> /\ q["qInf"] = <<>>
      /\ slot = [w \in Worker |-> 0] /\ 0 # s
  BY DEF Init, Channel, Slot
<1>2. {i \in DOMAIN q["slotPool"] : q["slotPool"][i] = s} = {s}
  BY <1>1
<1>3. /\ {i \in DOMAIN q["qPrep"] : q["qPrep"][i] = s} = {}
      /\ {i \in DOMAIN q["qInf"] : q["qInf"][i] = s} = {}
      /\ {w \in Worker : slot[w] = s} = {}
  BY <1>1
<1>4. /\ Occurs("slotPool", s) = 1 /\ Occurs("qPrep", s) = 0 /\ Occurs("qInf", s) = 0
      /\ SlotHands(s) = 0
  BY <1>2, <1>3, FS_Singleton, FS_EmptySet DEF Occurs, SlotHands
<1> QED BY <1>4 DEF SlotPlaces

\* A slot is in one queue or with one stage thread, and until its pool is
\* stopped it is somewhere.
THEOREM SlotHasOneOwner == Spec => []SlotsOwnedOnce
<1>1. IndInv /\ SlotsOwnedOnce /\ [Next]_vars => SlotsOwnedOnce'
  <2> SUFFICES ASSUME IndInv, SlotsOwnedOnce, [Next]_vars, NEW s \in Slot
               PROVE  SlotPlaces(s)' =< 1 /\ (~stopped'["slotPool"] => SlotPlaces(s)' = 1)
    BY DEF SlotsOwnedOnce, SlotPlaces, SlotHands
  <2>1. SlotPlaces(s) =< 1 /\ (~stopped["slotPool"] => SlotPlaces(s) = 1)
    BY DEF SlotsOwnedOnce, SlotPlaces, SlotHands
  <2>2. \/ SlotPlaces(s)' = SlotPlaces(s)
        \/ stopped["slotPool"] /\ SlotPlaces(s)' = SlotPlaces(s) - 1
    BY SlotStep
  <2>3. SlotPlaces(s) \in Nat
    BY PlacesType
  <2>4. stopped["slotPool"] => stopped'["slotPool"]
    BY StopIsFinal DEF Channel
  <2> QED BY <2>1, <2>2, <2>3, <2>4
<1> QED BY <1>1, SlotsOwnedInit, Invariance, PTL DEF Spec

-----------------------------------------------------------------------------
(* Ownership by name, as the steps use it: a buffer that is in one place is  *)
(* in no other.                                                            *)

\* A buffer occurs in a channel exactly if the channel holds it.
LEMMA HeldOccurs ==
  ASSUME ChannelsOK, NEW c \in Channel, NEW x
  PROVE  Occurs(c, x) \in Nat /\ (x \in Held(c) <=> Occurs(c, x) > 0)
<1> DEFINE P == {i \in DOMAIN q[c] : q[c][i] = x}
<1>1. q[c] \in Seq(Items(c)) /\ DOMAIN q[c] = 1 .. Len(q[c]) /\ Len(q[c]) \in Nat
  BY LenProperties DEF ChannelsOK
<1>2. IsFiniteSet(P)
  <2>1. IsFiniteSet(DOMAIN q[c])
    BY <1>1, FS_Interval
  <2> QED BY <2>1, FS_Subset
<1>3. x \in Held(c) <=> P # {}
  BY DEF Held
<1>4. Occurs(c, x) = Cardinality(P)
  BY DEF Occurs
<1> HIDE DEF P
<1>5. Cardinality(P) \in Nat /\ (Cardinality(P) = 0 <=> P = {})
  BY <1>2, FS_EmptySet, FS_CardinalityType
<1> QED BY <1>3, <1>4, <1>5

\* What channels hold after push_locked and after pop_locked.
LEMMA HeldPush ==
  ASSUME ChannelsOK, NEW c \in Channel, NEW x \in Items(c), PushTo(c, x)
  PROVE  Held(c)' = Held(c) \cup {x} /\ \A d \in Channel \ {c} : q'[d] = q[d]
<1>1. /\ q[c] \in Seq(Items(c)) /\ q'[c] = Append(q[c], x)
      /\ \A d \in Channel \ {c} : q'[d] = q[d]
  BY DEF PushTo, ChannelsOK
<1>2. /\ DOMAIN q[c] = 1 .. Len(q[c]) /\ Len(q[c]) \in Nat
      /\ DOMAIN q'[c] = 1 .. Len(q[c]) + 1
      /\ \A i \in 1 .. Len(q[c]) : q'[c][i] = q[c][i]
      /\ q'[c][Len(q[c]) + 1] = x
  BY <1>1, LenProperties, AppendProperties
<1> QED BY <1>1, <1>2 DEF Held

\* The item taken is one of those held, and the others stay.
LEMMA HeldPop ==
  ASSUME ChannelsOK, NEW c \in Channel, CanPop(c), PopFrom(c)
  PROVE  /\ Held(c) = Held(c)' \cup {Head(q[c])} /\ Head(q[c]) \in Items(c)
         /\ \A d \in Channel \ {c} : q'[d] = q[d]
<1>1. /\ q[c] \in Seq(Items(c)) /\ q'[c] = Tail(q[c]) /\ q[c] # <<>>
      /\ \A d \in Channel \ {c} : q'[d] = q[d]
  BY DEF PopFrom, CanPop, ChannelsOK
<1>2. /\ Len(q[c]) \in Nat \ {0} /\ DOMAIN q[c] = 1 .. Len(q[c])
      /\ Head(q[c]) = q[c][1] /\ Head(q[c]) \in Items(c)
      /\ DOMAIN Tail(q[c]) = 1 .. Len(q[c]) - 1
      /\ \A i \in 1 .. Len(q[c]) - 1 : Tail(q[c])[i] = q[c][i + 1]
  BY <1>1, LenProperties, EmptySeq, HeadTailProperties
<1>3. \A x \in Held(c)' : x \in Held(c)
  BY <1>1, <1>2 DEF Held
<1>4. ASSUME NEW x \in Held(c) PROVE x \in Held(c)' \/ x = Head(q[c])
  <2>1. PICK i \in 1 .. Len(q[c]) : x = q[c][i]
    BY <1>2 DEF Held
  <2>2. CASE i = 1
    BY <1>2, <2>1, <2>2
  <2>3. CASE i # 1
    <3>1. i - 1 \in 1 .. Len(q[c]) - 1 /\ Tail(q[c])[i - 1] = x
      BY <1>2, <2>1, <2>3
    <3> QED BY <1>1, <1>2, <3>1 DEF Held
  <2> QED BY <2>2, <2>3
<1>5. Head(q[c]) \in Held(c)
  BY <1>2 DEF Held
<1> QED BY <1>1, <1>2, <1>3, <1>4, <1>5

\* The frame of a prep thread is in no queue, not with the reader and not with
\* another prep thread; a frame of the pool is with nobody.
LEMMA FrameAlone ==
  ASSUME IndInv, FramesOwnedOnce, NEW f \in Frame
  PROVE  /\ \A w \in Prep : frame[w] = f =>
              f \notin Held("qRaw") /\ inFrame # f /\ \A v \in Prep \ {w} : frame[v] # f
         /\ f \in Held("rawPool") =>
              f \notin Held("qRaw") /\ inFrame # f /\ \A v \in Prep : frame[v] # f
<1> DEFINE H == {w \in Prep : frame[w] = f}
<1>1. Occurs("rawPool", f) + Occurs("qRaw", f) + Cardinality(H)
        + (IF inFrame = f THEN 1 ELSE 0) =< 1
  BY DEF FramesOwnedOnce
<1>2. /\ Occurs("rawPool", f) \in Nat /\ (f \in Held("rawPool") <=> Occurs("rawPool", f) > 0)
      /\ Occurs("qRaw", f) \in Nat /\ (f \in Held("qRaw") <=> Occurs("qRaw", f) > 0)
  BY HeldOccurs DEF IndInv, TypeOK, Channel
<1>3. IsFiniteSet(H)
  BY ThreadAssumption, FS_Subset
<1>4. Cardinality(H) \in Nat /\ (Cardinality(H) = 0 <=> H = {})
  BY <1>3, FS_EmptySet, FS_CardinalityType
<1>5. Cardinality(H) = 1 => \E w : H = {w}
  BY <1>3, FS_Singleton
<1>6. ASSUME NEW w \in Prep, frame[w] = f
      PROVE  f \notin Held("qRaw") /\ inFrame # f /\ \A v \in Prep \ {w} : frame[v] # f
  <2>1. w \in H
    BY <1>6
  <2> HIDE DEF H
  <2>2. Cardinality(H) = 1 /\ Occurs("qRaw", f) = 0 /\ inFrame # f
    BY <1>1, <1>2, <1>4, <2>1
  <2>3. H = {w}
    BY <1>5, <2>1, <2>2
  <2>4. \A v \in Prep \ {w} : v \notin H
    BY <2>3
  <2> QED BY <1>2, <2>2, <2>4 DEF H
<1>7. ASSUME f \in Held("rawPool")
      PROVE  f \notin Held("qRaw") /\ inFrame # f /\ \A v \in Prep : frame[v] # f
  <2> HIDE DEF H
  <2>1. H = {} /\ Occurs("qRaw", f) = 0 /\ inFrame # f
    BY <1>1, <1>2, <1>4, <1>7
  <2> QED BY <1>2, <2>1 DEF H
<1> QED BY <1>6, <1>7

\* The slot of a stage thread is in no queue and not with another thread.
LEMMA SlotAlone ==
  ASSUME IndInv, SlotsOwnedOnce, NEW w \in Worker, slot[w] \in Slot
  PROVE  /\ slot[w] \notin Held("qPrep") /\ slot[w] \notin Held("qInf")
         /\ \A v \in Worker \ {w} : slot[v] # slot[w]
<1> DEFINE s == slot[w]
           H == {v \in Worker : slot[v] = s}
<1>1. Occurs("slotPool", s) + Occurs("qPrep", s) + Occurs("qInf", s) + Cardinality(H) =< 1
  BY DEF SlotsOwnedOnce
<1>2. /\ Occurs("slotPool", s) \in Nat
      /\ Occurs("qPrep", s) \in Nat /\ (s \in Held("qPrep") <=> Occurs("qPrep", s) > 0)
      /\ Occurs("qInf", s) \in Nat /\ (s \in Held("qInf") <=> Occurs("qInf", s) > 0)
  BY HeldOccurs DEF IndInv, TypeOK, Channel
<1>3. IsFiniteSet(H) /\ w \in H
  BY WorkersFinite, FS_Subset
<1>4. Cardinality(H) \in Nat /\ (Cardinality(H) = 0 <=> H = {})
  BY <1>3, FS_EmptySet, FS_CardinalityType
<1>5. Cardinality(H) = 1 => \E v : H = {v}
  BY <1>3, FS_Singleton
<1> HIDE DEF H, s
<1>6. Cardinality(H) = 1 /\ Occurs("qPrep", s) = 0 /\ Occurs("qInf", s) = 0
  BY <1>1, <1>2, <1>3, <1>4
<1>7. H = {w}
  BY <1>3, <1>5, <1>6
<1>8. \A v \in Worker \ {w} : v \notin H
  BY <1>7
<1> QED BY <1>2, <1>6, <1>8 DEF H, s

\* What a stage thread's move leaves of the pcs and of the local variables.
LEMMA OthersStay ==
  ASSUME IndInv, NEW w \in Worker, NEW l, GoTo(w, l)
  PROVE  pc'[w] = l /\ \A v \in Worker \ {w} : pc'[v] = pc[v]
BY DEF GoTo, IndInv, TypeOK, PcOK

\* The same for an assignment to a local variable.
LEMMA SlotSet ==
  ASSUME IndInv, NEW w \in Worker, NEW x, slot' = [slot EXCEPT ![w] = x]
  PROVE  slot'[w] = x /\ \A v \in Worker \ {w} : slot'[v] = slot[v]
BY DEF IndInv, TypeOK, SlotHeldOK

LEMMA FrameSet ==
  ASSUME IndInv, NEW w \in Prep, NEW x, frame' = [frame EXCEPT ![w] = x]
  PROVE  frame'[w] = x /\ \A v \in Prep \ {w} : frame'[v] = frame[v]
BY DEF IndInv, TypeOK, FrameHeldOK
\* The slot a thread holds at a pc that has one.
LEMMA HeldSlot ==
  ASSUME IndInv, NEW w \in Worker, pc[w] \in SlotPcs
  PROVE  slot[w] \in Slot
BY DEF IndInv, TypeOK, SlotHeldOK, SlotHolders
-----------------------------------------------------------------------------
(* The scores of a slot on its way to the sink are those of its batch.      *)

ScoredPcs == {"pushInf", "publish"}

ScoresFresh ==
  /\ \A s \in Held("qInf") : result[s] = input[s]
  /\ \A w \in Worker : pc[w] \in ScoredPcs => result[slot[w]] = input[slot[w]]

\* A step in which one thread moves and no slot is filled or run.
LEMMA ScoresMove ==
  ASSUME ScoresFresh, NEW w \in Worker, UNCHANGED <<input, result>>,
         \A v \in Worker \ {w} : pc'[v] = pc[v] /\ slot'[v] = slot[v],
         \A s \in Held("qInf")' : s \in Held("qInf") \/ (pc[w] \in ScoredPcs /\ s = slot[w]),
         pc'[w] \in ScoredPcs => slot'[w] \in Held("qInf")
  PROVE  ScoresFresh'
<1>1. \A s \in Held("qInf")' : result[s] = input[s]
  BY DEF ScoresFresh
<1>2. ASSUME NEW v \in Worker, pc'[v] \in ScoredPcs PROVE result[slot'[v]] = input[slot'[v]]
  BY <1>2 DEF ScoresFresh
<1> QED BY <1>1, <1>2 DEF ScoresFresh

\* The queue of scored slots keeps what the step does not put there.
LEMMA ScoresQueue ==
  ASSUME IndInv, NEW c \in Channel \ {"qInf"}, NEW x,
         PushTo(c, x) \/ PopFrom(c) \/ TryPush(c, x) \/ UNCHANGED q
  PROVE  Held("qInf")' = Held("qInf")
<1>1. q'["qInf"] = q["qInf"]
  BY OneChannel DEF IndInv, TypeOK, Channel
<1> QED BY <1>1 DEF Held

\* A slot keeps the scores of its batch until it is recycled.
LEMMA ScoresStep ==
  IndInv /\ SlotsOwnedOnce /\ ScoresFresh /\ [Next]_vars => ScoresFresh'
<1> SUFFICES ASSUME IndInv, SlotsOwnedOnce, ScoresFresh, [Next]_vars PROVE ScoresFresh'
  OBVIOUS
<1>1. ASSUME NEW w \in Worker, Step(w) PROVE ScoresFresh'
  <2>1. \A l : GoTo(w, l) => pc'[w] = l /\ \A v \in Worker \ {w} : pc'[v] = pc[v]
    BY OthersStay
  <2>2. \A x : slot' = [slot EXCEPT ![w] = x] =>
               slot'[w] = x /\ \A v \in Worker \ {w} : slot'[v] = slot[v]
    BY SlotSet
  <2>3. pc[w] \in SlotPcs => slot[w] \in Slot
    BY HeldSlot
  <2>4. CASE PrepPopRaw(w) \/ PrepReturnRaw(w)
    <3>1. Held("qInf")' = Held("qInf")
      BY <2>4, ScoresQueue DEF PrepPopRaw, PrepReturnRaw, Channel
    <3>2. pc'[w] \notin ScoredPcs /\ UNCHANGED <<slot, input, result>>
          /\ \A v \in Worker \ {w} : pc'[v] = pc[v]
      BY <2>1, <2>4 DEF PrepPopRaw, PrepReturnRaw, slots, ScoredPcs
    <3> QED BY <3>1, <3>2, ScoresMove
  <2>5. CASE PrepPopSlot(w) \/ PrepPush(w) \/ DropSlot(w) \/ InferPop(w) \/ PostRelease(w)
    <3>1. Held("qInf")' = Held("qInf")
      BY <2>5, ScoresQueue DEF PrepPopSlot, PrepPush, DropSlot, InferPop, PostRelease, Channel
    <3>2. pc'[w] \notin ScoredPcs /\ UNCHANGED <<input, result>>
          /\ \A v \in Worker \ {w} : pc'[v] = pc[v] /\ slot'[v] = slot[v]
      BY <2>1, <2>2, <2>5 DEF PrepPopSlot, PrepPush, DropSlot, InferPop, PostRelease, ScoredPcs
    <3> QED BY <3>1, <3>2, ScoresMove
  <2>6. CASE PrepFill(w)
    <3>1. /\ slot[w] \in Slot /\ UNCHANGED <<q, slot, result>> /\ pc'[w] = "retRaw"
          /\ \A v \in Worker \ {w} : pc'[v] = pc[v]
          /\ \A s \in Slot \ {slot[w]} : input'[s] = input[s]
      BY <2>1, <2>3, <2>6 DEF PrepFill, SlotPcs, IndInv, TypeOK, DataOK
    <3>2. slot[w] \notin Held("qInf") /\ \A v \in Worker \ {w} : slot[v] # slot[w]
      BY <3>1, SlotAlone
    <3>3. /\ \A s \in Held("qInf") : s \in Slot
          /\ \A v \in Worker : pc[v] \in ScoredPcs => slot[v] \in Slot
      BY HeldSlot DEF Held, IndInv, TypeOK, ChannelsOK, Items, Channel, ScoredPcs, SlotPcs
    <3>4. \A s \in Held("qInf")' : result'[s] = input'[s]
      BY <3>1, <3>2, <3>3 DEF Held, ScoresFresh
    <3>5. \A v \in Worker : pc'[v] \in ScoredPcs => result'[slot'[v]] = input'[slot'[v]]
      BY <3>1, <3>2, <3>3 DEF ScoresFresh, ScoredPcs
    <3> QED BY <3>4, <3>5 DEF ScoresFresh
  <2>7. CASE InferRun(w)
    <3>1. /\ slot[w] \in Slot /\ UNCHANGED <<q, slot, input>>
          /\ \A v \in Worker \ {w} : pc'[v] = pc[v]
          /\ \A s \in Slot \ {slot[w]} : result'[s] = result[s]
          /\ pc'[w] \in ScoredPcs => result'[slot[w]] = input[slot[w]]
      BY <2>1, <2>3, <2>7 DEF InferRun, SlotPcs, IndInv, TypeOK, DataOK, ScoredPcs
    <3>2. slot[w] \notin Held("qInf") /\ \A v \in Worker \ {w} : slot[v] # slot[w]
      BY <3>1, SlotAlone
    <3>3. /\ \A s \in Held("qInf") : s \in Slot
          /\ \A v \in Worker : pc[v] \in ScoredPcs => slot[v] \in Slot
      BY HeldSlot DEF Held, IndInv, TypeOK, ChannelsOK, Items, Channel, ScoredPcs, SlotPcs
    <3>4. \A s \in Held("qInf")' : result'[s] = input'[s]
      BY <3>1, <3>2, <3>3 DEF Held, ScoresFresh
    <3>5. \A v \in Worker : pc'[v] \in ScoredPcs => result'[slot'[v]] = input'[slot'[v]]
      BY <3>1, <3>2, <3>3 DEF ScoresFresh
    <3> QED BY <3>4, <3>5 DEF ScoresFresh
  <2>8. CASE InferPush(w)
    <3>1. /\ pc[w] \in ScoredPcs /\ pc'[w] \notin ScoredPcs /\ UNCHANGED <<input, result>>
          /\ \A v \in Worker \ {w} : pc'[v] = pc[v] /\ slot'[v] = slot[v]
          /\ slot[w] \in Slot
      BY <2>1, <2>2, <2>3, <2>8 DEF InferPush, ScoredPcs, SlotPcs
    <3>2. Held("qInf")' = Held("qInf") \/ Held("qInf")' = Held("qInf") \cup {slot[w]}
      <4>1. ChannelsOK /\ "qInf" \in Channel /\ slot[w] \in Items("qInf")
        BY <3>1 DEF IndInv, TypeOK, Channel, Items
      <4>2. CASE PushTo("qInf", slot[w])
        BY <4>1, <4>2, HeldPush
      <4>3. CASE UNCHANGED q
        BY <4>3 DEF Held
      <4> QED BY <2>8, <4>2, <4>3 DEF InferPush
    <3> QED BY <3>1, <3>2, ScoresMove
  <2>9. CASE PostPop(w)
    <3>1. /\ UNCHANGED <<input, result>>
          /\ \A v \in Worker \ {w} : pc'[v] = pc[v] /\ slot'[v] = slot[v]
      BY <2>1, <2>2, <2>9 DEF PostPop
    <3>2. CASE CanPop("qInf") /\ PopFrom("qInf") /\ slot' = [slot EXCEPT ![w] = Head(q["qInf"])]
      <4>1. Held("qInf") = Held("qInf")' \cup {Head(q["qInf"])}
        BY <3>2, HeldPop DEF IndInv, TypeOK, Channel
      <4>2. slot'[w] \in Held("qInf")
        BY <2>2, <3>2, <4>1
      <4> QED BY <3>1, <4>1, <4>2, ScoresMove
    <3>3. CASE UNCHANGED <<q, slot>> /\ GoTo(w, "done")
      <4>1. Held("qInf")' = Held("qInf") /\ pc'[w] \notin ScoredPcs
        BY <2>1, <3>3 DEF Held, ScoredPcs
      <4> QED BY <3>1, <4>1, ScoresMove
    <3> QED BY <2>9, <3>2, <3>3 DEF PostPop
  <2>10. CASE PostPublish(w)
    <3>1. /\ Held("qInf")' = Held("qInf") /\ pc'[w] \notin ScoredPcs
          /\ UNCHANGED <<slot, input, result>> /\ \A v \in Worker \ {w} : pc'[v] = pc[v]
      BY <2>1, <2>10 DEF PostPublish, slots, Held, ScoredPcs
    <3> QED BY <3>1, ScoresMove
  <2> QED BY <1>1, <2>4, <2>5, <2>6, <2>7, <2>8, <2>9, <2>10 DEF Step
<1>2. CASE UNCHANGED <<pc, slot, input, result>> /\ Held("qInf")' = Held("qInf")
  BY <1>2 DEF ScoresFresh
<1>3. CASE IngestStep
  <2>1. UNCHANGED <<pc, slot, input, result>>
    BY <1>3 DEF IngestStep, IngestStops, IngestSees, IngestBreaks, IngestDrops, IngestTakes,
       IngestPushes, slots
  <2>2. Held("qInf")' = Held("qInf")
    BY <1>3, ScoresQueue DEF IngestStep, IngestStops, IngestSees, IngestBreaks, IngestDrops,
       IngestTakes, IngestPushes, Channel
  <2> QED BY <1>2, <2>1, <2>2
<1>4. CASE MainStep \/ Keys \/ Gone \/ UNCHANGED vars
  <2>1. UNCHANGED <<q, slot, input, result>>
    BY <1>4 DEF MainStep, Keys, Gone, vars, Spawn, Ready, ReapIngest, KeyS, KeyX, KeyQ, JoinIngest,
       DrainStop, DrainJoin, DrainPools, Return, AbortStop, AbortJoin, slots
  <2>2. UNCHANGED pc \/ \E w \in Worker : GoTo(w, FirstPc(w))
    BY <1>4 DEF MainStep, Keys, Gone, vars, Spawn, Ready, ReapIngest, KeyS, KeyX, KeyQ, JoinIngest,
       DrainStop, DrainJoin, DrainPools, Return, AbortStop, AbortJoin
  <2>3. ASSUME NEW w \in Worker, GoTo(w, FirstPc(w)) PROVE ScoresFresh'
    <3>1. pc'[w] = FirstPc(w) /\ FirstPc(w) \notin ScoredPcs /\ \A v \in Worker \ {w} : pc'[v] = pc[v]
      BY <2>3, OthersStay DEF FirstPc, ScoredPcs
    <3> QED BY <2>1, <3>1, ScoresMove DEF Held
  <2> QED BY <1>2, <2>1, <2>2, <2>3 DEF Held
<1> QED BY <1>1, <1>3, <1>4 DEF Next
-----------------------------------------------------------------------------
(* Where the batches are.  The steps of a thread change what it holds and    *)
(* one or two queues; the other threads' part of the carriers stays.        *)

RawOf(w)  == IF pc[w] \in RawPcs THEN {frame[w]} ELSE {}
SlotOf(w) == IF pc[w] \in SlotBatchPcs THEN {slot[w]} ELSE {}

\* The carriers of all threads but w.
RawOthers(w)  == {frame[v] : v \in {u \in Prep \ {w} : pc[u] \in RawPcs}}
SlotOthers(w) == {slot[v] : v \in {u \in Worker \ {w} : pc[u] \in SlotBatchPcs}}

\* The carriers are those of one thread and those of all the others.
LEMMA RawSplit ==
  ASSUME NEW w \in Prep, \A v \in Prep \ {w} : pc'[v] = pc[v] /\ frame'[v] = frame[v]
  PROVE  /\ RawCarriers = Held("qRaw") \cup RawOthers(w) \cup ({inFrame} \ {0}) \cup RawOf(w)
         /\ RawCarriers' = Held("qRaw")' \cup RawOthers(w) \cup ({inFrame'} \ {0}) \cup RawOf(w)'
<1>1. {frame[v] : v \in {u \in Prep : pc[u] \in RawPcs}} = RawOthers(w) \cup RawOf(w)
  BY DEF RawOthers, RawOf
<1>2. {frame'[v] : v \in {u \in Prep : pc'[u] \in RawPcs}} = RawOthers(w) \cup RawOf(w)'
  BY DEF RawOthers, RawOf
<1> QED BY <1>1, <1>2 DEF RawCarriers

LEMMA SlotSplit ==
  ASSUME NEW w \in Worker, \A v \in Worker \ {w} : pc'[v] = pc[v] /\ slot'[v] = slot[v]
  PROVE  /\ SlotCarriers = Held("qPrep") \cup Held("qInf") \cup SlotOthers(w) \cup SlotOf(w)
         /\ SlotCarriers' = Held("qPrep")' \cup Held("qInf")' \cup SlotOthers(w) \cup SlotOf(w)'
<1>1. {slot[v] : v \in {u \in Worker : pc[u] \in SlotBatchPcs}} = SlotOthers(w) \cup SlotOf(w)
  BY DEF SlotOthers, SlotOf
<1>2. {slot'[v] : v \in {u \in Worker : pc'[u] \in SlotBatchPcs}} = SlotOthers(w) \cup SlotOf(w)'
  BY DEF SlotOthers, SlotOf
<1> QED BY <1>1, <1>2 DEF SlotCarriers

\* Steps on the other kind of buffer.
LEMMA RawSame ==
  ASSUME q'["qRaw"] = q["qRaw"], UNCHANGED <<frame, inFrame>>,
         \A v \in Prep : pc'[v] \in RawPcs <=> pc[v] \in RawPcs
  PROVE  RawCarriers' = RawCarriers
BY DEF RawCarriers, Held

LEMMA SlotSame ==
  ASSUME q'["qPrep"] = q["qPrep"], q'["qInf"] = q["qInf"], UNCHANGED slot,
         \A v \in Worker : pc'[v] \in SlotBatchPcs <=> pc[v] \in SlotBatchPcs
  PROVE  SlotCarriers' = SlotCarriers
BY DEF SlotCarriers, Held

-----------------------------------------------------------------------------
(* A step does one of six things to the batches; which buffer carries one    *)
(* changes only when prep copies a frame into a slot.                       *)

Quiet == UNCHANGED <<strip, input, framesRead, sunk, failed>>

Kept == Quiet /\ RawCarriers' = RawCarriers /\ SlotCarriers' = SlotCarriers

\* Nothing of the kind happens once the report is being made.
Busy == main \notin {"report", "returned"} /\ UNCHANGED main

Accepted(f) ==
  /\ f \notin RawCarriers /\ RawCarriers' = RawCarriers \cup {f}
  /\ framesRead' = framesRead + 1 /\ framesRead < MaxSeq
  /\ strip' = [strip EXCEPT ![f] = framesRead + 1]
  /\ SlotCarriers' = SlotCarriers /\ UNCHANGED <<input, sunk, failed>>

Copied(f, s) ==
  /\ f \in RawCarriers /\ RawCarriers' = RawCarriers \ {f}
  /\ s \notin SlotCarriers /\ SlotCarriers' = SlotCarriers \cup {s}
  /\ input' = [input EXCEPT ![s] = strip[f]]
  /\ UNCHANGED <<strip, framesRead, sunk, failed>>

Settles(s) ==
  /\ s \in SlotCarriers /\ SlotCarriers' = SlotCarriers \ {s}
  /\ RawCarriers' = RawCarriers
  /\ UNCHANGED <<strip, input, framesRead>>

PublishedFrom(s) ==
  /\ Settles(s) /\ UNCHANGED failed
  /\ sunk' = Append(sunk, [seq |-> input[s], scores |-> input[s]])

FailedIn(s) == Settles(s) /\ UNCHANGED sunk /\ failed' = failed \cup {input[s]}

LostWith(s) == Settles(s) /\ UNCHANGED <<sunk, failed>> /\ main = "abort"

BatchMoves == \/ Kept
              \/ /\ Busy
                 /\ \/ \E f \in Frame : Accepted(f)
                    \/ \E f \in Frame, s \in Slot : Copied(f, s)
                    \/ \E s \in Slot : PublishedFrom(s) \/ FailedIn(s) \/ LostWith(s)

\* A prep thread between its queues.
LEMMA PrepPopRawKeeps == ASSUME IndInv, NEW w \in Prep, PrepPopRaw(w) PROVE Kept
<1>1. /\ Quiet /\ w \in Worker /\ w \in Prep /\ UNCHANGED <<slot, inFrame>> /\ pc[w] = "popRaw"
  BY Kinds DEF PrepPopRaw, Quiet, slots, source, outcome
<1>2. CASE PopRefused("qRaw") /\ GoTo(w, "done") /\ UNCHANGED <<q, frame>>
  <2>1. /\ pc'[w] = "done" /\ \A v \in Worker \ {w} : pc'[v] = pc[v]
    BY <1>1, <1>2, OthersStay
  <2>2. RawCarriers' = RawCarriers
    BY <1>1, <1>2, <2>1, RawSame DEF RawPcs, Worker
  <2>3. SlotCarriers' = SlotCarriers
    BY <1>1, <1>2, <2>1, SlotSame DEF SlotBatchPcs
  <2> QED BY <1>1, <2>2, <2>3 DEF Kept
<1>3. CASE /\ CanPop("qRaw") /\ PopFrom("qRaw") /\ GoTo(w, "popSlot")
           /\ frame' = [frame EXCEPT ![w] = Head(q["qRaw"])]
  <2>1. /\ pc'[w] = "popSlot" /\ \A v \in Worker \ {w} : pc'[v] = pc[v]
        /\ frame'[w] = Head(q["qRaw"]) /\ \A v \in Prep \ {w} : frame'[v] = frame[v]
    BY <1>1, <1>3, OthersStay, FrameSet
  <2>2. /\ Held("qRaw") = Held("qRaw")' \cup {Head(q["qRaw"])}
        /\ q'["qPrep"] = q["qPrep"] /\ q'["qInf"] = q["qInf"]
    BY <1>3, HeldPop DEF IndInv, TypeOK, Channel
  <2>3. RawOf(w) = {} /\ RawOf(w)' = {Head(q["qRaw"])}
    BY <1>1, <2>1 DEF RawOf, RawPcs
  <2>4. /\ RawCarriers = Held("qRaw") \cup RawOthers(w) \cup ({inFrame} \ {0}) \cup RawOf(w)
        /\ RawCarriers' = Held("qRaw")' \cup RawOthers(w) \cup ({inFrame'} \ {0}) \cup RawOf(w)'
    BY <2>1, RawSplit DEF Worker
  <2>5. RawCarriers' = RawCarriers
    BY <1>1, <2>2, <2>3, <2>4
  <2>6. SlotCarriers' = SlotCarriers
    BY <1>1, <2>1, <2>2, SlotSame DEF SlotBatchPcs
  <2> QED BY <1>1, <2>5, <2>6 DEF Kept
<1> QED BY <1>2, <1>3 DEF PrepPopRaw

\* It is never refused a slot.
LEMMA PrepPopSlotKeeps ==
  ASSUME IndInv, PrepNeverWaitsForSlot, NEW w \in Prep, PrepPopSlot(w) PROVE Kept
<1>1. /\ Quiet /\ w \in Worker /\ UNCHANGED <<frame, inFrame>> /\ pc[w] = "popSlot"
  BY Kinds DEF PrepPopSlot, Quiet, frames, source, outcome
<1>2. /\ CanPop("slotPool") /\ PopFrom("slotPool") /\ GoTo(w, "fill")
      /\ slot' = [slot EXCEPT ![w] = Head(q["slotPool"])]
  BY <1>1 DEF PrepPopSlot, PrepNeverWaitsForSlot, PopRefused
<1>3. /\ pc'[w] = "fill" /\ \A v \in Worker \ {w} : pc'[v] = pc[v]
      /\ \A v \in Worker \ {w} : slot'[v] = slot[v]
  BY <1>1, <1>2, OthersStay, SlotSet
<1>4. q'["qRaw"] = q["qRaw"] /\ q'["qPrep"] = q["qPrep"] /\ q'["qInf"] = q["qInf"]
  BY <1>2, HeldPop DEF IndInv, TypeOK, Channel
<1>5. RawCarriers' = RawCarriers
  BY <1>1, <1>3, <1>4, RawSame DEF RawPcs, Worker
<1>6. SlotOf(w) = {} /\ SlotOf(w)' = {}
  BY <1>1, <1>3 DEF SlotOf, SlotBatchPcs
<1>7. SlotCarriers' = SlotCarriers
  <2>1. Held("qPrep")' = Held("qPrep") /\ Held("qInf")' = Held("qInf")
    BY <1>4 DEF Held
  <2> QED BY <1>1, <1>3, <1>6, <2>1, SlotSplit
<1> QED BY <1>1, <1>5, <1>7 DEF Kept

\* The copy: the batch of the frame is the batch of the slot from here on.
LEMMA PrepFillCopies ==
  ASSUME IndInv, FramesOwnedOnce, SlotsOwnedOnce, NEW w \in Prep, PrepFill(w)
  PROVE  Copied(frame[w], slot[w]) /\ frame[w] \in Frame /\ slot[w] \in Slot
<1>1. /\ w \in Worker /\ UNCHANGED <<q, slot, frame, inFrame>> /\ pc[w] = "fill" /\ GoTo(w, "retRaw")
      /\ input' = [input EXCEPT ![slot[w]] = strip[frame[w]]]
      /\ UNCHANGED <<strip, framesRead, sunk, failed>>
  BY Kinds DEF PrepFill, frames, source, outcome
<1>2. /\ pc'[w] = "retRaw" /\ \A v \in Worker \ {w} : pc'[v] = pc[v]
  BY <1>1, OthersStay
<1>3. frame[w] \in Frame /\ slot[w] \in Slot
  BY <1>1 DEF IndInv, TypeOK, FrameHeldOK, FrameHolders, FramePcs, SlotHeldOK, SlotHolders, SlotPcs
<1>4. /\ frame[w] \notin Held("qRaw") /\ inFrame # frame[w] /\ frame[w] \notin RawOthers(w)
      /\ slot[w] \notin Held("qPrep") /\ slot[w] \notin Held("qInf") /\ slot[w] \notin SlotOthers(w)
  BY <1>1, <1>3, FrameAlone, SlotAlone DEF RawOthers, SlotOthers
<1>5. /\ RawOf(w) = {frame[w]} /\ RawOf(w)' = {} /\ SlotOf(w) = {} /\ SlotOf(w)' = {slot[w]}
  BY <1>1, <1>2 DEF RawOf, SlotOf, RawPcs, SlotBatchPcs
<1>6. /\ Held("qRaw")' = Held("qRaw") /\ Held("qPrep")' = Held("qPrep") /\ Held("qInf")' = Held("qInf")
  BY <1>1 DEF Held
<1>7. /\ RawCarriers = Held("qRaw") \cup RawOthers(w) \cup ({inFrame} \ {0}) \cup RawOf(w)
      /\ RawCarriers' = Held("qRaw")' \cup RawOthers(w) \cup ({inFrame'} \ {0}) \cup RawOf(w)'
  BY <1>1, <1>2, RawSplit DEF Worker
<1>8. /\ SlotCarriers = Held("qPrep") \cup Held("qInf") \cup SlotOthers(w) \cup SlotOf(w)
      /\ SlotCarriers' = Held("qPrep")' \cup Held("qInf")' \cup SlotOthers(w) \cup SlotOf(w)'
  BY <1>1, <1>2, SlotSplit
<1>9. frame[w] \in RawCarriers /\ RawCarriers' = RawCarriers \ {frame[w]}
  BY <1>1, <1>4, <1>5, <1>6, <1>7
<1>10. slot[w] \notin SlotCarriers /\ SlotCarriers' = SlotCarriers \cup {slot[w]}
  BY <1>4, <1>5, <1>6, <1>8
<1> QED BY <1>1, <1>3, <1>9, <1>10 DEF Copied

\* The frame goes back without its batch, refused or not.
LEMMA PrepReturnRawKeeps == ASSUME IndInv, NEW w \in Prep, PrepReturnRaw(w) PROVE Kept
<1>1. /\ Quiet /\ w \in Worker /\ UNCHANGED <<slot, inFrame>> /\ pc[w] \in {"retRaw", "dropRaw"}
      /\ GoTo(w, IF pc[w] = "retRaw" THEN "pushPrep" ELSE "done")
      /\ frame' = [frame EXCEPT ![w] = 0]
  BY Kinds DEF PrepReturnRaw, Quiet, slots, source, outcome
<1>2. /\ pc'[w] = (IF pc[w] = "retRaw" THEN "pushPrep" ELSE "done")
      /\ \A v \in Worker \ {w} : pc'[v] = pc[v]
      /\ \A v \in Prep \ {w} : frame'[v] = frame[v]
  BY <1>1, OthersStay, FrameSet
<1>3. q'["qRaw"] = q["qRaw"] /\ q'["qPrep"] = q["qPrep"] /\ q'["qInf"] = q["qInf"]
  BY OneChannel DEF PrepReturnRaw, IndInv, TypeOK, Channel
<1>4. RawOf(w) = {} /\ RawOf(w)' = {} /\ Held("qRaw")' = Held("qRaw")
  BY <1>1, <1>2, <1>3 DEF RawOf, RawPcs, Held
<1>5. RawCarriers' = RawCarriers
  BY <1>1, <1>2, <1>4, RawSplit DEF Worker
<1>6. SlotCarriers' = SlotCarriers
  BY <1>1, <1>2, <1>3, SlotSame DEF SlotBatchPcs
<1> QED BY <1>1, <1>5, <1>6 DEF Kept

\* A slot with a batch is handed on, or taken from a queue: the batch stays.
LEMMA SlotPassKeeps ==
  ASSUME IndInv, NEW w \in Worker, NEW c \in {"qPrep", "qInf"}, PushTo(c, slot[w]),
         NEW l, GoTo(w, l), slot' = [slot EXCEPT ![w] = 0], slot[w] \in Slot,
         pc[w] \in SlotBatchPcs, l \notin SlotBatchPcs,
         pc[w] \notin RawPcs, l \notin RawPcs, UNCHANGED <<frame, inFrame>>
  PROVE  RawCarriers' = RawCarriers /\ SlotCarriers' = SlotCarriers
<1>1. /\ pc'[w] = l /\ \A v \in Worker \ {w} : pc'[v] = pc[v]
      /\ \A v \in Worker \ {w} : slot'[v] = slot[v]
  BY OthersStay, SlotSet
<1>2. /\ Held(c)' = Held(c) \cup {slot[w]} /\ q'["qRaw"] = q["qRaw"]
      /\ \A d \in {"qPrep", "qInf"} \ {c} : q'[d] = q[d]
  BY HeldPush DEF IndInv, TypeOK, Channel, Items
<1>3. Held("qPrep")' \cup Held("qInf")' = Held("qPrep") \cup Held("qInf") \cup {slot[w]}
  <2>1. CASE c = "qPrep"
    BY <1>2, <2>1 DEF Held
  <2>2. CASE c = "qInf"
    BY <1>2, <2>2 DEF Held
  <2> QED BY <2>1, <2>2
<1>4. SlotOf(w) = {slot[w]} /\ SlotOf(w)' = {}
  BY <1>1 DEF SlotOf
<1>5. SlotCarriers' = SlotCarriers
  BY <1>1, <1>3, <1>4, SlotSplit
<1> QED BY <1>1, <1>2, <1>5, RawSame DEF Worker

LEMMA SlotTakeKeeps ==
  ASSUME IndInv, NEW w \in Worker, NEW c \in {"qPrep", "qInf"}, CanPop(c), PopFrom(c),
         NEW l, GoTo(w, l), slot' = [slot EXCEPT ![w] = Head(q[c])],
         pc[w] \notin SlotBatchPcs, l \in SlotBatchPcs,
         pc[w] \notin RawPcs, l \notin RawPcs, UNCHANGED <<frame, inFrame>>
  PROVE  RawCarriers' = RawCarriers /\ SlotCarriers' = SlotCarriers
<1>1. /\ pc'[w] = l /\ \A v \in Worker \ {w} : pc'[v] = pc[v]
      /\ slot'[w] = Head(q[c]) /\ \A v \in Worker \ {w} : slot'[v] = slot[v]
  BY OthersStay, SlotSet
<1>2. /\ Held(c) = Held(c)' \cup {Head(q[c])} /\ q'["qRaw"] = q["qRaw"]
      /\ \A d \in {"qPrep", "qInf"} \ {c} : q'[d] = q[d]
  BY HeldPop DEF IndInv, TypeOK, Channel
<1>3. Held("qPrep") \cup Held("qInf") = Held("qPrep")' \cup Held("qInf")' \cup {Head(q[c])}
  <2>1. CASE c = "qPrep"
    BY <1>2, <2>1 DEF Held
  <2>2. CASE c = "qInf"
    BY <1>2, <2>2 DEF Held
  <2> QED BY <2>1, <2>2
<1>4. SlotOf(w) = {} /\ SlotOf(w)' = {Head(q[c])}
  BY <1>1 DEF SlotOf
<1>5. SlotCarriers' = SlotCarriers
  <2>1. \A v \in Worker \ {w} : pc'[v] = pc[v] /\ slot'[v] = slot[v]
    BY <1>1
  <2>2. /\ SlotCarriers = Held("qPrep") \cup Held("qInf") \cup SlotOthers(w) \cup SlotOf(w)
        /\ SlotCarriers' = Held("qPrep")' \cup Held("qInf")' \cup SlotOthers(w) \cup SlotOf(w)'
    BY <2>1, SlotSplit
  <2> QED BY <2>2, <1>3, <1>4, Zenon
<1> QED BY <1>1, <1>2, <1>5, RawSame DEF Worker

\* A thread settles the batch of its slot, which carries it no further.
LEMMA SlotSettles ==
  ASSUME IndInv, SlotsOwnedOnce, NEW w \in Worker, NEW l, GoTo(w, l),
         UNCHANGED <<q, slot, frame, inFrame, strip, input, framesRead>>,
         pc[w] \in SlotBatchPcs, l \notin SlotBatchPcs, pc[w] \notin RawPcs, l \notin RawPcs
  PROVE  Settles(slot[w]) /\ slot[w] \in Slot
<1>1. pc'[w] = l /\ \A v \in Worker \ {w} : pc'[v] = pc[v]
  BY OthersStay
<1>2. slot[w] \in Slot
  BY DEF IndInv, TypeOK, SlotHeldOK, SlotHolders, SlotPcs, SlotBatchPcs
<1>3. slot[w] \notin Held("qPrep") /\ slot[w] \notin Held("qInf") /\ slot[w] \notin SlotOthers(w)
  BY <1>2, SlotAlone DEF SlotOthers
<1>4. /\ SlotOf(w) = {slot[w]} /\ SlotOf(w)' = {}
      /\ Held("qPrep")' = Held("qPrep") /\ Held("qInf")' = Held("qInf")
  BY <1>1 DEF SlotOf, Held
<1>5. slot[w] \in SlotCarriers /\ SlotCarriers' = SlotCarriers \ {slot[w]}
  BY <1>1, <1>3, <1>4, SlotSplit
<1>6. RawCarriers' = RawCarriers
  BY <1>1, RawSame DEF Worker
<1> QED BY <1>2, <1>5, <1>6 DEF Settles
-----------------------------------------------------------------------------
(* Drain: a stage ends when its queue is stopped and empty, and its queue is *)
(* stopped when the stage before it has ended; so a push is refused only     *)
(* while Abort runs.                                                       *)

Aborting == main \in {"abort", "aborted"}

Ended(S, c) == \A w \in S : pc[w] = "done" => stopped[c] /\ q[c] = <<>>

DrainInv ==
  /\ main \notin {"spawn", "abort", "aborted"} => ~Unborn(Worker)
  /\ ~Aborting =>
       /\ \A w \in Worker : pc[w] \notin {"dropRaw", "dropSlot"}
       /\ Ended(Prep, "qRaw") /\ Ended(Infer, "qPrep") /\ Ended(Post, "qInf")
       /\ stopped["qPrep"] => Joined(Prep)
       /\ stopped["qInf"] => Joined(Prep) /\ Joined(Infer)
       /\ stopped["rawPool"] \/ stopped["slotPool"] => main \in {"report", "returned"}

\* A working thread finds the queue it pushes to stopped only during Abort.
LEMMA RefusedByAbort ==
  ASSUME IndInv, PhaseInv, DrainInv, NEW w \in Worker, pc[w] \notin {"unborn", "done"},
         \/ w \in Prep /\ stopped["qPrep"]
         \/ w \in Infer /\ stopped["qInf"]
  PROVE  main = "abort"
BY DEF DrainInv, PhaseInv, Aborting, Joined

\* While a thread is at work the report is not being made.
LEMMA BusyWorker ==
  ASSUME IndInv, PhaseInv, NEW w \in Worker, Step(w)
  PROVE  Busy /\ pc[w] \notin {"unborn", "done"}
<1>1. UNCHANGED main
  BY DEF Step, PrepPopRaw, PrepPopSlot, PrepFill, PrepReturnRaw, PrepPush, DropSlot, InferPop,
     InferRun, InferPush, PostPop, PostPublish, PostRelease
<1>2. pc[w] \notin {"unborn", "done"}
  BY EndedStays
<1>3. main \notin {"report", "returned"}
  BY <1>2 DEF PhaseInv, Joined, Worker
<1> QED BY <1>1, <1>2, <1>3 DEF Busy

\* qPrep.push and qInf.push.
LEMMA PushKeeps ==
  ASSUME IndInv, PhaseInv, DrainInv, SlotsOwnedOnce, NEW w \in Worker, Step(w),
         \/ w \in Prep /\ PrepPush(w)
         \/ w \in Infer /\ InferPush(w)
  PROVE  Kept \/ (LostWith(slot[w]) /\ slot[w] \in Slot)
<1>1. /\ Quiet /\ UNCHANGED <<frame, inFrame>> /\ pc[w] \in {"pushPrep", "pushInf"}
      /\ pc[w] \in SlotPcs /\ pc[w] \in SlotBatchPcs /\ pc[w] \notin RawPcs
  BY DEF PrepPush, InferPush, Quiet, frames, source, outcome, SlotPcs, SlotBatchPcs, RawPcs
<1>2. ASSUME NEW c \in {"qPrep", "qInf"}, NEW l \in {"popRaw", "popPrep"}, PushTo(c, slot[w]),
             slot' = [slot EXCEPT ![w] = 0], GoTo(w, l)
      PROVE  Kept
  <2>1. slot[w] \in Slot /\ l \notin SlotBatchPcs /\ l \notin RawPcs
    BY <1>1, HeldSlot DEF SlotBatchPcs, RawPcs
  <2> QED BY <1>1, <1>2, <2>1, SlotPassKeeps DEF Kept
<1>3. CASE /\ (w \in Prep /\ stopped["qPrep"]) \/ (w \in Infer /\ stopped["qInf"])
           /\ GoTo(w, "dropSlot") /\ UNCHANGED <<q, slot>>
  <2>1. main = "abort"
    BY <1>1, <1>3, RefusedByAbort
  <2>2. "dropSlot" \notin SlotBatchPcs /\ "dropSlot" \notin RawPcs
    BY DEF SlotBatchPcs, RawPcs
  <2>3. Settles(slot[w]) /\ slot[w] \in Slot
    BY <1>1, <1>3, <2>2, SlotSettles DEF Quiet
  <2> QED BY <1>1, <2>1, <2>3 DEF LostWith, Quiet
<1>4. CASE w \in Prep /\ PrepPush(w)
  <2>1. \/ PushTo("qPrep", slot[w]) /\ slot' = [slot EXCEPT ![w] = 0] /\ GoTo(w, "popRaw")
        \/ stopped["qPrep"] /\ GoTo(w, "dropSlot") /\ UNCHANGED <<q, slot>>
    BY <1>4 DEF PrepPush
  <2>2. "qPrep" \in {"qPrep", "qInf"} /\ "popRaw" \in {"popRaw", "popPrep"}
    OBVIOUS
  <2>3. CASE stopped["qPrep"] /\ GoTo(w, "dropSlot") /\ UNCHANGED <<q, slot>>
    BY <1>3, <1>4, <2>3
  <2>4. CASE PushTo("qPrep", slot[w]) /\ slot' = [slot EXCEPT ![w] = 0] /\ GoTo(w, "popRaw")
    <3>1. Kept
      BY <1>2, <2>2, <2>4
    <3> QED BY <3>1
  <2> QED BY <2>1, <2>3, <2>4
<1>5. CASE w \in Infer /\ InferPush(w)
  <2>1. \/ PushTo("qInf", slot[w]) /\ slot' = [slot EXCEPT ![w] = 0] /\ GoTo(w, "popPrep")
        \/ stopped["qInf"] /\ GoTo(w, "dropSlot") /\ UNCHANGED <<q, slot>>
    BY <1>5 DEF InferPush
  <2>2. "qInf" \in {"qPrep", "qInf"} /\ "popPrep" \in {"popRaw", "popPrep"}
    OBVIOUS
  <2>3. CASE stopped["qInf"] /\ GoTo(w, "dropSlot") /\ UNCHANGED <<q, slot>>
    BY <1>3, <1>5, <2>3
  <2>4. CASE PushTo("qInf", slot[w]) /\ slot' = [slot EXCEPT ![w] = 0] /\ GoTo(w, "popPrep")
    <3>1. Kept
      BY <1>2, <2>2, <2>4
    <3> QED BY <3>1
  <2> QED BY <2>1, <2>3, <2>4
<1> QED BY <1>4, <1>5

\* qPrep.pop and qInf.pop.
LEMMA PopKeeps ==
  ASSUME IndInv, NEW w \in Worker, InferPop(w) \/ PostPop(w)
  PROVE  Kept
<1>1. /\ Quiet /\ UNCHANGED <<frame, inFrame>> /\ pc[w] \in {"popPrep", "popInf"}
      /\ pc[w] \notin SlotBatchPcs /\ pc[w] \notin RawPcs
  BY DEF InferPop, PostPop, Quiet, frames, source, outcome, SlotBatchPcs, RawPcs
<1>2. ASSUME NEW c \in {"qPrep", "qInf"}, NEW l \in {"run", "publish"}, CanPop(c), PopFrom(c),
             slot' = [slot EXCEPT ![w] = Head(q[c])], GoTo(w, l)
      PROVE  Kept
  <2>1. l \in SlotBatchPcs /\ l \notin RawPcs
    BY DEF SlotBatchPcs, RawPcs
  <2> QED BY <1>1, <1>2, <2>1, SlotTakeKeeps DEF Kept
<1>3. CASE GoTo(w, "done") /\ UNCHANGED <<q, slot>>
  <2>1. pc'[w] = "done" /\ \A v \in Worker \ {w} : pc'[v] = pc[v]
    BY <1>3, OthersStay
  <2>2. "done" \notin SlotBatchPcs /\ "done" \notin RawPcs
    BY DEF SlotBatchPcs, RawPcs
  <2>3. RawCarriers' = RawCarriers
    BY <1>1, <1>3, <2>1, <2>2, RawSame DEF Worker
  <2>4. SlotCarriers' = SlotCarriers
    BY <1>1, <1>3, <2>1, <2>2, SlotSame
  <2> QED BY <1>1, <2>3, <2>4 DEF Kept
<1> QED BY <1>2, <1>3 DEF InferPop, PostPop

\* Slots that carry no batch go back to the pool.
LEMMA ReturnKeeps ==
  ASSUME IndInv, NEW w \in Worker, DropSlot(w) \/ PostRelease(w)
  PROVE  Kept
<1>1. PICK l \in {"popPrep", "done", "popInf"} : GoTo(w, l)
  BY DEF DropSlot, PostRelease
<1>2. /\ Quiet /\ UNCHANGED <<frame, inFrame>> /\ pc[w] \in {"dropSlot", "giveUp", "release"}
      /\ TryPush("slotPool", slot[w]) /\ slot' = [slot EXCEPT ![w] = 0]
  BY DEF DropSlot, PostRelease, Quiet, frames, source, outcome
<1>3. /\ pc[w] \notin SlotBatchPcs /\ pc[w] \notin RawPcs /\ l \notin SlotBatchPcs /\ l \notin RawPcs
  BY <1>2 DEF SlotBatchPcs, RawPcs
<1>4. /\ pc'[w] = l /\ \A v \in Worker \ {w} : pc'[v] = pc[v]
      /\ \A v \in Worker \ {w} : slot'[v] = slot[v]
  BY <1>1, <1>2, OthersStay, SlotSet
<1>5. q'["qRaw"] = q["qRaw"] /\ q'["qPrep"] = q["qPrep"] /\ q'["qInf"] = q["qInf"]
  BY <1>2, OneChannel DEF IndInv, TypeOK, Channel
<1>6. /\ SlotOf(w) = {} /\ SlotOf(w)' = {}
      /\ Held("qPrep")' = Held("qPrep") /\ Held("qInf")' = Held("qInf")
  BY <1>3, <1>4, <1>5 DEF SlotOf, Held
<1>7. SlotCarriers' = SlotCarriers
  BY <1>4, <1>6, SlotSplit
<1>8. RawCarriers' = RawCarriers
  BY <1>2, <1>3, <1>4, <1>5, RawSame DEF Worker
<1> QED BY <1>2, <1>7, <1>8 DEF Kept

\* RunBatch and Publish.
LEMMA RunSettles ==
  ASSUME IndInv, SlotsOwnedOnce, NEW w \in Worker, InferRun(w)
  PROVE  Kept \/ (FailedIn(slot[w]) /\ slot[w] \in Slot)
<1>1. /\ UNCHANGED <<q, slot, frame, inFrame, strip, input, framesRead, sunk>> /\ pc[w] = "run"
      /\ pc[w] \in SlotBatchPcs /\ pc[w] \notin RawPcs
  BY DEF InferRun, frames, source, SlotBatchPcs, RawPcs
<1>2. CASE GoTo(w, "pushInf") /\ UNCHANGED failed
  <2>1. pc'[w] = "pushInf" /\ \A v \in Worker \ {w} : pc'[v] = pc[v]
    BY <1>2, OthersStay
  <2>2. "pushInf" \in SlotBatchPcs /\ "pushInf" \notin RawPcs
    BY DEF SlotBatchPcs, RawPcs
  <2>3. RawCarriers' = RawCarriers
    BY <1>1, <2>1, <2>2, RawSame DEF Worker
  <2>4. SlotCarriers' = SlotCarriers
    BY <1>1, <2>1, <2>2, SlotSame
  <2>5. Kept
    BY <1>1, <1>2, <2>3, <2>4 DEF Kept, Quiet
  <2> QED BY <2>5
<1>3. CASE GoTo(w, "giveUp") /\ failed' = failed \cup {input[slot[w]]}
  <2>1. "giveUp" \notin SlotBatchPcs /\ "giveUp" \notin RawPcs
    BY DEF SlotBatchPcs, RawPcs
  <2>2. Settles(slot[w]) /\ slot[w] \in Slot
    BY <1>1, <1>3, <2>1, SlotSettles
  <2> QED BY <1>1, <1>3, <2>2 DEF FailedIn
<1> QED BY <1>2, <1>3 DEF InferRun

\* What the sink is given has the number and the scores of one batch.
LEMMA PublishSettles ==
  ASSUME IndInv, SlotsOwnedOnce, ScoresFresh, NEW w \in Worker, PostPublish(w)
  PROVE  PublishedFrom(slot[w]) /\ slot[w] \in Slot
<1>1. /\ UNCHANGED <<q, slot, frame, inFrame, strip, input, framesRead>> /\ GoTo(w, "release")
      /\ pc[w] \in SlotBatchPcs /\ pc[w] \notin RawPcs
      /\ "release" \notin SlotBatchPcs /\ "release" \notin RawPcs
  BY DEF PostPublish, frames, slots, source, SlotBatchPcs, RawPcs
<1>2. Settles(slot[w]) /\ slot[w] \in Slot
  BY <1>1, SlotSettles
<1>3. sunk' = Append(sunk, [seq |-> input[slot[w]], scores |-> input[slot[w]]]) /\ UNCHANGED failed
  BY DEF PostPublish, ScoresFresh, ScoredPcs
<1> QED BY <1>2, <1>3 DEF PublishedFrom

\* What a stage thread does to the batches.
LEMMA WorkerBatch ==
  ASSUME IndInv, FramesOwnedOnce, SlotsOwnedOnce, PhaseInv, PrepNeverWaitsForSlot, DrainInv,
         ScoresFresh, NEW w \in Worker, Step(w)
  PROVE  BatchMoves
<1>1. Busy
  BY BusyWorker
<1>2. CASE w \in Prep /\ (PrepPopRaw(w) \/ PrepPopSlot(w) \/ PrepReturnRaw(w))
  BY <1>2, PrepPopRawKeeps, PrepPopSlotKeeps, PrepReturnRawKeeps DEF BatchMoves
<1>3. CASE w \in Prep /\ PrepFill(w)
  BY <1>1, <1>3, PrepFillCopies DEF BatchMoves
<1>4. CASE (w \in Prep /\ PrepPush(w)) \/ (w \in Infer /\ InferPush(w))
  BY <1>1, <1>4, PushKeeps DEF BatchMoves
<1>5. CASE DropSlot(w) \/ PostRelease(w) \/ InferPop(w) \/ PostPop(w)
  BY <1>5, ReturnKeeps, PopKeeps DEF BatchMoves
<1>6. CASE InferRun(w)
  BY <1>1, <1>6, RunSettles DEF BatchMoves
<1>7. CASE PostPublish(w)
  BY <1>1, <1>7, PublishSettles DEF BatchMoves
<1> QED BY <1>2, <1>3, <1>4, <1>5, <1>6, <1>7 DEF Step

\* The reader accepts a batch with the frame it takes.
LEMMA IngestBatch ==
  ASSUME IndInv, FramesOwnedOnce, IngestStep
  PROVE  BatchMoves
<1>1. CASE IngestTakes
  <2> DEFINE f == Head(q["rawPool"])
  <2>1. /\ CanPop("rawPool") /\ PopFrom("rawPool") /\ UNCHANGED <<pc, frame, slot, input, sunk, failed, main>>
        /\ inFrame' = f /\ framesRead' = framesRead + 1 /\ ingest = "take"
        /\ strip' = [strip EXCEPT ![f] = framesRead + 1]
    BY <1>1 DEF IngestTakes, slots, outcome
  <2>2. /\ f \in Held("rawPool") /\ f \in Frame
        /\ q'["qRaw"] = q["qRaw"] /\ q'["qPrep"] = q["qPrep"] /\ q'["qInf"] = q["qInf"]
    BY <2>1, HeldPop DEF IndInv, TypeOK, Channel, Items
  <2>3. f \notin Held("qRaw") /\ \A v \in Prep : frame[v] # f
    BY <2>2, FrameAlone
  <2>4. inFrame = 0 /\ f # 0
    BY <2>1, <2>2 DEF IndInv, TypeOK, IngestOK, Frame
  <2>5. framesRead < MaxSeq /\ Busy
    BY <2>1 DEF IndInv, TypeOK, IngestOK, OpenWhileListening, Busy
  <2> HIDE DEF f
  <2>6. f \notin RawCarriers
    BY <2>3, <2>4 DEF RawCarriers
  <2>7. RawCarriers' = RawCarriers \cup {f}
    BY <2>1, <2>2, <2>4 DEF RawCarriers, Held
  <2>8. SlotCarriers' = SlotCarriers
    BY <2>1, <2>2, SlotSame
  <2>9. Accepted(f)
    BY <2>1, <2>5, <2>6, <2>7, <2>8 DEF Accepted
  <2> QED BY <2>2, <2>5, <2>9 DEF BatchMoves
<1>2. CASE IngestPushes
  <2>1. /\ PushTo("qRaw", inFrame) /\ UNCHANGED <<pc, frame, slot>> /\ Quiet
        /\ inFrame' = 0 /\ ingest = "push"
    BY <1>2, ReaderPush DEF IngestPushes, frames, slots, outcome, Quiet
  <2>2. inFrame \in Frame /\ inFrame # 0
    BY <2>1 DEF IndInv, TypeOK, IngestOK, Frame
  <2>3. /\ Held("qRaw")' = Held("qRaw") \cup {inFrame}
        /\ q'["qPrep"] = q["qPrep"] /\ q'["qInf"] = q["qInf"]
    BY <2>1, <2>2, HeldPush DEF IndInv, TypeOK, Channel, Items
  <2>4. RawCarriers' = RawCarriers
    BY <2>1, <2>2, <2>3 DEF RawCarriers
  <2>5. SlotCarriers' = SlotCarriers
    BY <2>1, <2>3, SlotSame
  <2> QED BY <2>1, <2>4, <2>5 DEF BatchMoves, Kept
<1>3. CASE IngestStops \/ IngestSees \/ IngestBreaks \/ IngestDrops
  <2>1. Quiet /\ UNCHANGED <<q, pc, frame, slot, inFrame>>
    BY <1>3 DEF IngestStops, IngestSees, IngestBreaks, IngestDrops, Quiet, frames, slots, outcome
  <2> QED BY <2>1, RawSame, SlotSame DEF BatchMoves, Kept
<1> QED BY <1>1, <1>2, <1>3 DEF IngestStep

\* The main thread leaves the batches where they are.
LEMMA MainBatch ==
  ASSUME IndInv, MainStep \/ Keys \/ Gone \/ UNCHANGED vars
  PROVE  Kept
<1>1. Quiet /\ UNCHANGED <<q, frame, slot, inFrame>>
  BY DEF MainStep, Keys, Gone, vars, Spawn, Ready, ReapIngest, KeyS, KeyX, KeyQ, JoinIngest,
     DrainStop, DrainJoin, DrainPools, Return, AbortStop, AbortJoin, Quiet, frames, slots,
     source, outcome
<1>2. \A v \in Worker : /\ pc'[v] \in RawPcs <=> pc[v] \in RawPcs
                        /\ pc'[v] \in SlotBatchPcs <=> pc[v] \in SlotBatchPcs
  <2>1. ASSUME NEW w \in Worker, GoTo(w, FirstPc(w)), pc[w] = "unborn", NEW v \in Worker
        PROVE  /\ pc'[v] \in RawPcs <=> pc[v] \in RawPcs
               /\ pc'[v] \in SlotBatchPcs <=> pc[v] \in SlotBatchPcs
    <3>1. pc'[w] = FirstPc(w) /\ \A u \in Worker \ {w} : pc'[u] = pc[u]
      BY <2>1, OthersStay
    <3>2. FirstPc(w) \notin RawPcs /\ FirstPc(w) \notin SlotBatchPcs
      BY DEF FirstPc, RawPcs, SlotBatchPcs
    <3> QED BY <2>1, <3>1, <3>2 DEF RawPcs, SlotBatchPcs
  <2>2. UNCHANGED pc \/ \E w \in Worker : GoTo(w, FirstPc(w)) /\ pc[w] = "unborn"
    BY DEF MainStep, Keys, Gone, vars, Spawn, Ready, ReapIngest, KeyS, KeyX, KeyQ, JoinIngest,
       DrainStop, DrainJoin, DrainPools, Return, AbortStop, AbortJoin
  <2> QED BY <2>1, <2>2
<1>3. RawCarriers' = RawCarriers
  BY <1>1, <1>2, RawSame DEF Worker
<1>4. SlotCarriers' = SlotCarriers
  BY <1>1, <1>2, SlotSame
<1> QED BY <1>1, <1>3, <1>4 DEF Kept

\* Every step of every thread.
LEMMA BatchStep ==
  ASSUME IndInv, FramesOwnedOnce, SlotsOwnedOnce, PhaseInv, PrepNeverWaitsForSlot, DrainInv,
         ScoresFresh, [Next]_vars
  PROVE  BatchMoves
BY WorkerBatch, IngestBatch, MainBatch DEF Next, BatchMoves
-----------------------------------------------------------------------------
(* DrainInv is kept.                                                       *)

\* A queue that is stopped and empty stays empty.
LEMMA EmptyStays ==
  ASSUME IndInv, [Next]_vars, NEW c \in {"qRaw", "qPrep", "qInf"}, stopped[c], q[c] = <<>>
  PROVE  q'[c] = <<>>
<1>1. /\ c \in Channel /\ ~CanPush(c) /\ ~CanPop(c) /\ ChannelsOK
  BY DEF CanPush, CanPop, Channel, IndInv, TypeOK
<1>2. ASSUME NEW d \in Channel, NEW x, PushTo(d, x) /\ CanPush(d) PROVE q'[c] = <<>>
  BY <1>1, <1>2, OneChannel
<1>3. ASSUME NEW d \in Channel, NEW x, PopFrom(d) /\ CanPop(d) PROVE q'[c] = <<>>
  BY <1>1, <1>3, OneChannel
<1>4. ASSUME NEW d \in Channel, NEW x, TryPush(d, x) PROVE q'[c] = <<>>
  BY <1>2, <1>4 DEF TryPush
<1>5. ASSUME UNCHANGED q PROVE q'[c] = <<>>
  BY <1>5
<1>6. ASSUME NEW w \in Worker, Step(w) PROVE q'[c] = <<>>
  <2>1. CASE PrepPopRaw(w) \/ PrepPopSlot(w) \/ InferPop(w) \/ PostPop(w)
    BY <1>3, <1>5, <2>1 DEF PrepPopRaw, PrepPopSlot, InferPop, PostPop, Channel
  <2>2. CASE PrepPush(w) \/ InferPush(w)
    BY <1>2, <1>5, <2>2 DEF PrepPush, InferPush, Channel
  <2>3. CASE PrepReturnRaw(w) \/ DropSlot(w) \/ PostRelease(w)
    BY <1>4, <2>3 DEF PrepReturnRaw, DropSlot, PostRelease, Channel
  <2>4. CASE PrepFill(w) \/ InferRun(w) \/ PostPublish(w)
    BY <1>5, <2>4 DEF PrepFill, InferRun, PostPublish
  <2> QED BY <1>6, <2>1, <2>2, <2>3, <2>4 DEF Step
<1>7. CASE IngestStep
  <2>1. CASE IngestTakes
    BY <1>3, <2>1 DEF IngestTakes, Channel
  <2>2. CASE IngestPushes
    BY <1>2, <2>2, ReaderPush DEF IngestPushes, Channel
  <2>3. CASE IngestStops \/ IngestSees \/ IngestBreaks \/ IngestDrops
    BY <1>5, <2>3 DEF IngestStops, IngestSees, IngestBreaks, IngestDrops
  <2> QED BY <1>7, <2>1, <2>2, <2>3 DEF IngestStep
<1>8. CASE MainStep \/ Keys \/ Gone \/ UNCHANGED vars
  BY <1>5, <1>8 DEF MainStep, Keys, Gone, vars, Spawn, Ready, ReapIngest, KeyS, KeyX, KeyQ,
     JoinIngest, DrainStop, DrainJoin, DrainPools, Return, AbortStop, AbortJoin
<1> QED BY <1>6, <1>7, <1>8 DEF Next

\* Where a stage thread can be after its step when nothing is being aborted.
LEMMA NextPc ==
  ASSUME IndInv, PhaseInv, PrepNeverWaitsForSlot, DrainInv, ~Aborting, NEW w \in Worker, Step(w)
  PROVE  /\ pc'[w] \notin {"unborn", "dropRaw", "dropSlot"}
         /\ pc'[w] = "done" => \/ w \in Prep /\ stopped["qRaw"] /\ q["qRaw"] = <<>>
                               \/ w \in Infer /\ stopped["qPrep"] /\ q["qPrep"] = <<>>
                               \/ w \in Post /\ stopped["qInf"] /\ q["qInf"] = <<>>
<1>1. pc[w] \notin {"unborn", "done"} /\ pc[w] \notin {"dropRaw", "dropSlot"}
  BY EndedStays DEF DrainInv
<1>2. \A l : GoTo(w, l) => pc'[w] = l
  BY OthersStay
<1>3. CASE w \in Prep /\ PrepPopRaw(w)
  BY <1>2, <1>3 DEF PrepPopRaw, PopRefused
<1>4. CASE w \in Prep /\ PrepPopSlot(w)
  BY <1>2, <1>4 DEF PrepPopSlot, PopRefused, PrepNeverWaitsForSlot
<1>5. CASE PrepReturnRaw(w) \/ DropSlot(w)
  BY <1>1, <1>2, <1>5 DEF PrepReturnRaw, DropSlot
<1>6. CASE (w \in Prep /\ PrepPush(w)) \/ (w \in Infer /\ InferPush(w))
  <2>1. ~(w \in Prep /\ stopped["qPrep"]) /\ ~(w \in Infer /\ stopped["qInf"])
    BY <1>1, RefusedByAbort DEF Aborting
  <2> QED BY <1>2, <1>6, <2>1 DEF PrepPush, InferPush
<1>7. CASE (w \in Infer /\ InferPop(w)) \/ (w \in Post /\ PostPop(w))
  BY <1>2, <1>7 DEF InferPop, PostPop, PopRefused
<1>8. CASE PrepFill(w) \/ InferRun(w) \/ PostPublish(w) \/ PostRelease(w)
  BY <1>2, <1>8 DEF PrepFill, InferRun, PostPublish, PostRelease
<1> QED BY <1>3, <1>4, <1>5, <1>6, <1>7, <1>8 DEF Step

\* Stages end in order, and on their own only once their queue is empty.
LEMMA DrainKept ==
  IndInv /\ PhaseInv /\ PrepNeverWaitsForSlot /\ DrainInv /\ [Next]_vars => DrainInv'
<1> SUFFICES ASSUME IndInv, PhaseInv, PrepNeverWaitsForSlot, DrainInv, [Next]_vars
             PROVE  DrainInv'
  OBVIOUS
<1>1. \A c \in {"qRaw", "qPrep", "qInf"} : stopped[c] /\ q[c] = <<>> => q'[c] = <<>>
  BY EmptyStays
<1>2. CASE main' \in {"abort", "aborted"}
  BY <1>2 DEF DrainInv, Aborting
<1>3. ASSUME NEW w \in Worker, Step(w) PROVE DrainInv'
  <2>1. UNCHANGED <<stopped, main>>
    BY <1>3 DEF Step, PrepPopRaw, PrepPopSlot, PrepFill, PrepReturnRaw, PrepPush, DropSlot, InferPop,
       InferRun, InferPush, PostPop, PostPublish, PostRelease
  <2>2. CASE Aborting
    BY <1>2, <2>1, <2>2 DEF Aborting
  <2>3. CASE ~Aborting
    <3>1. /\ pc[w] \notin {"unborn", "done"} /\ \A v \in Worker \ {w} : pc'[v] = pc[v]
          /\ pc'[w] \notin {"unborn", "dropRaw", "dropSlot"}
          /\ pc'[w] = "done" => \/ w \in Prep /\ stopped["qRaw"] /\ q["qRaw"] = <<>>
                                \/ w \in Infer /\ stopped["qPrep"] /\ q["qPrep"] = <<>>
                                \/ w \in Post /\ stopped["qInf"] /\ q["qInf"] = <<>>
      BY <1>3, <2>3, EndedStays, NextPc
    <3>2. ASSUME NEW S \in SUBSET Worker, NEW c \in {"qRaw", "qPrep", "qInf"}, Ended(S, c),
                 w \in S /\ pc'[w] = "done" => stopped[c] /\ q[c] = <<>>
          PROVE  Ended(S, c)'
      BY <1>1, <2>1, <3>1, <3>2 DEF Ended
    <3>3. Ended(Prep, "qRaw")' /\ Ended(Infer, "qPrep")' /\ Ended(Post, "qInf")'
      <4>1. Ended(Prep, "qRaw") /\ Ended(Infer, "qPrep") /\ Ended(Post, "qInf")
        BY <2>3 DEF DrainInv
      <4>2. Prep \in SUBSET Worker /\ Infer \in SUBSET Worker /\ Post \in SUBSET Worker
        BY DEF Worker
      <4> QED BY <3>1, <3>2, <4>1, <4>2, Kinds
    <3>4. ASSUME NEW S \in SUBSET Worker, Joined(S) PROVE Joined(S)'
      BY <3>1, <3>4 DEF Joined
    <3>5. Unborn(Worker)' => Unborn(Worker)
      BY <3>1 DEF Unborn
    <3>6. /\ stopped["qPrep"] => Joined(Prep)'
          /\ stopped["qInf"] => Joined(Prep)' /\ Joined(Infer)'
      BY <2>3, <3>4 DEF DrainInv, Worker
    <3>7. \A v \in Worker : pc'[v] \notin {"dropRaw", "dropSlot"}
      BY <2>3, <3>1 DEF DrainInv
    <3> QED BY <2>1, <2>3, <3>3, <3>5, <3>6, <3>7 DEF DrainInv, Aborting
  <2> QED BY <2>2, <2>3
<1>4. CASE UNCHANGED <<pc, stopped, main>>
  BY <1>1, <1>4 DEF DrainInv, Ended, Joined, Unborn, Aborting
<1>5. CASE IngestStep
  BY <1>4, <1>5 DEF IngestStep, IngestStops, IngestSees, IngestBreaks, IngestDrops, IngestTakes,
     IngestPushes
<1>6. CASE main' \notin {"abort", "aborted"} /\ \E w \in Worker : Spawn(w)
  <2>1. PICK w \in Worker : /\ GoTo(w, FirstPc(w)) /\ UNCHANGED <<q, stopped, main>>
                            /\ main = "spawn"
    BY <1>6 DEF Spawn
  <2>2. \A c \in Channel : ~stopped[c]
    BY <2>1 DEF IndInv, OpenWhileListening
  <2>3. pc'[w] = FirstPc(w) /\ \A v \in Worker \ {w} : pc'[v] = pc[v]
    BY <2>1, OthersStay
  <2>4. \A v \in Worker : pc'[v] \notin {"done", "dropRaw", "dropSlot"}
    BY <2>1, <2>2, <2>3 DEF FirstPc, DrainInv, Aborting, Ended, Channel, Worker
  <2> QED BY <2>1, <2>2, <2>4 DEF DrainInv, Ended, Aborting, Channel, Worker
<1>7. CASE Ready
  BY <1>1, <1>7 DEF Ready, DrainInv, Ended, Joined, Unborn, Aborting, IndInv, OpenWhileListening, Channel
<1>8. CASE KeyX \/ KeyQ \/ JoinIngest \/ Return \/ (KeyS /\ main' # "abort")
  <2>1. /\ UNCHANGED <<q, pc, stopped>>
        /\ main \in {"console", "joinX", "joinQ", "report"}
        /\ main' \in {"console", "joinX", "joinQ", "drainRaw", "returned"}
        /\ main = "report" => main' = "returned"
    BY <1>8 DEF KeyX, KeyQ, JoinIngest, Return, KeyS
  <2>2. stopped["rawPool"] \/ stopped["slotPool"] => main = "report"
    BY <2>1 DEF DrainInv, Aborting
  <2> QED BY <2>1, <2>2 DEF DrainInv, Ended, Joined, Unborn, Aborting
<1>9. CASE DrainStop
  <2>1. PICK c \in {"qRaw", "qPrep", "qInf"} :
           /\ stopped' = [stopped EXCEPT ![c] = TRUE] /\ UNCHANGED <<q, pc, main>>
           /\ main \in {"drainRaw", "drainPrep", "drainInf"}
           /\ c = "qPrep" => main = "drainPrep"
           /\ c = "qInf" => main = "drainInf"
    <3>1. CASE main = "drainRaw"
      BY <1>9, <3>1 DEF DrainStop, DrainStage, StopChannel
    <3>2. CASE main = "drainPrep"
      BY <1>9, <3>2 DEF DrainStop, DrainStage, StopChannel
    <3>3. CASE main = "drainInf"
      BY <1>9, <3>3 DEF DrainStop, DrainStage, StopChannel
    <3> QED BY <1>9, <3>1, <3>2, <3>3, StageKeys DEF DrainStop
  <2>2. \A d \in Channel : stopped'[d] = (stopped[d] \/ d = c)
    BY <2>1 DEF IndInv, TypeOK, MainOK, Channel
  <2>3. Joined(Prep)' = Joined(Prep) /\ Joined(Infer)' = Joined(Infer) /\ Unborn(Worker)' = Unborn(Worker)
    BY <2>1 DEF Joined, Unborn
  <2>4. /\ stopped'["qPrep"] => Joined(Prep)
        /\ stopped'["qInf"] => Joined(Prep) /\ Joined(Infer)
        /\ stopped'["rawPool"] \/ stopped'["slotPool"] => stopped["rawPool"] \/ stopped["slotPool"]
    BY <2>1, <2>2 DEF DrainInv, PhaseInv, Aborting, Channel
  <2> QED BY <2>1, <2>2, <2>3, <2>4 DEF DrainInv, Ended, Aborting, Channel
<1>10. CASE DrainJoin
  <2>1. /\ UNCHANGED <<q, pc, stopped>> /\ main \in {"drainRaw", "drainPrep", "drainInf"}
        /\ main' \in {"drainPrep", "drainInf", "drainPools"}
    BY <1>10, StageKeys DEF DrainJoin, DrainStage
  <2> QED BY <2>1 DEF DrainInv, Ended, Joined, Unborn, Aborting
<1>11. CASE DrainPools
  <2>1. /\ UNCHANGED <<q, pc>> /\ main = "drainPools" /\ main' = "report"
        /\ \A c \in {"qRaw", "qPrep", "qInf"} : stopped'[c] = stopped[c]
    BY <1>11 DEF DrainPools, IndInv, TypeOK, MainOK, Channel
  <2> QED BY <2>1 DEF DrainInv, Ended, Joined, Unborn, Aborting
<1>12. CASE AbortStop \/ AbortJoin
  BY <1>2, <1>12 DEF AbortStop, AbortJoin
<1>13. CASE UNCHANGED vars
  BY <1>4, <1>13 DEF vars
<1> QED
  BY <1>2, <1>3, <1>5, <1>6, <1>7, <1>8, <1>9, <1>10, <1>11, <1>12, <1>13
     DEF Next, MainStep, Keys, Gone, ReapIngest
-----------------------------------------------------------------------------
(* The batches by number: no two buffers carry the same one, and what has    *)
(* been read is in flight, published or failed.                            *)

CarriersDistinct ==
  /\ \A f, g \in RawCarriers : strip[f] = strip[g] => f = g
  /\ \A s, t \in SlotCarriers : input[s] = input[t] => s = t
  /\ \A f \in RawCarriers, s \in SlotCarriers : strip[f] # input[s]

NumbersInv ==
  /\ InFlight \cup Published \cup failed \subseteq 1 .. framesRead
  /\ InFlight \cap Published = {} /\ InFlight \cap failed = {} /\ Published \cap failed = {}
  /\ \A i \in DOMAIN sunk : sunk[i].scores = sunk[i].seq
  /\ \A i, j \in DOMAIN sunk : i # j => sunk[i].seq # sunk[j].seq

\* Until a run is aborted no batch is lost.
NoneLost == Aborting \/ 1 .. framesRead \subseteq InFlight \cup Published \cup failed

AcceptNext ==
  /\ framesRead < MaxSeq /\ framesRead' = framesRead + 1
  /\ InFlight' = InFlight \cup {framesRead + 1} /\ UNCHANGED <<sunk, failed>>

Ends(n) ==
  /\ InFlight' = InFlight \ {n} /\ UNCHANGED framesRead
  /\ \/ sunk' = Append(sunk, [seq |-> n, scores |-> n]) /\ UNCHANGED failed
     \/ failed' = failed \cup {n} /\ UNCHANGED sunk
     \/ main = "abort" /\ UNCHANGED <<sunk, failed>>

NumberMoves == \/ InFlight' = InFlight /\ UNCHANGED <<framesRead, sunk, failed>>
               \/ Busy /\ (AcceptNext \/ \E n \in InFlight : Ends(n))

\* Carriers are buffers.
LEMMA CarrierTypes ==
  ASSUME IndInv
  PROVE  /\ RawCarriers \subseteq Frame /\ SlotCarriers \subseteq Slot
         /\ strip \in [Frame -> Nat] /\ input \in [Slot -> Nat] /\ framesRead \in Nat
<1>1. /\ Held("qRaw") \subseteq Frame /\ Held("qPrep") \subseteq Slot /\ Held("qInf") \subseteq Slot
  BY DEF Held, IndInv, TypeOK, ChannelsOK, Items, Channel
<1>2. \A w \in Prep : pc[w] \in RawPcs => frame[w] \in Frame
  BY DEF IndInv, TypeOK, FrameHeldOK, FrameHolders, FramePcs, RawPcs
<1>3. \A w \in Worker : pc[w] \in SlotBatchPcs => slot[w] \in Slot
  BY DEF IndInv, TypeOK, SlotHeldOK, SlotHolders, SlotPcs, SlotBatchPcs
<1>4. {inFrame} \ {0} \subseteq Frame
  BY DEF IndInv, TypeOK, IngestOK
<1>5. RawCarriers \subseteq Frame /\ SlotCarriers \subseteq Slot
  BY <1>1, <1>2, <1>3, <1>4 DEF RawCarriers, SlotCarriers
<1>6. strip \in [Frame -> Nat] /\ input \in [Slot -> Nat] /\ framesRead \in Nat
  BY SizeAssumption DEF IndInv, TypeOK, DataOK, IngestOK, Batch
<1> QED BY <1>5, <1>6

\* A move of the carriers, read as one of the numbers.
LEMMA NumberStep ==
  ASSUME IndInv, CarriersDistinct, InFlight \subseteq 1 .. framesRead, BatchMoves
  PROVE  NumberMoves /\ CarriersDistinct'
<1>1. /\ RawCarriers \subseteq Frame /\ SlotCarriers \subseteq Slot
      /\ strip \in [Frame -> Nat] /\ input \in [Slot -> Nat] /\ framesRead \in Nat
  BY CarrierTypes
<1>2. CASE Kept
  BY <1>2 DEF Kept, Quiet, NumberMoves, InFlight, CarriersDistinct
<1>3. ASSUME Busy, NEW f \in Frame, Accepted(f) PROVE NumberMoves /\ CarriersDistinct'
  <2>1. /\ strip'[f] = framesRead + 1 /\ \A g \in RawCarriers : strip'[g] = strip[g]
        /\ f \notin RawCarriers /\ RawCarriers' = RawCarriers \cup {f}
        /\ SlotCarriers' = SlotCarriers /\ input' = input
    BY <1>1, <1>3 DEF Accepted
  <2>2. framesRead + 1 \notin InFlight
    BY <1>1
  <2>3. \A g \in RawCarriers : strip[g] # framesRead + 1
    BY <2>2 DEF InFlight
  <2>4. \A s \in SlotCarriers : input[s] # framesRead + 1
    BY <2>2 DEF InFlight
  <2>5. CarriersDistinct'
    BY <2>1, <2>3, <2>4 DEF CarriersDistinct
  <2>6. InFlight' = InFlight \cup {framesRead + 1}
    BY <2>1 DEF InFlight
  <2>7. AcceptNext
    BY <1>3, <2>6 DEF Accepted, AcceptNext
  <2> QED BY <1>3, <2>5, <2>7 DEF NumberMoves
<1>4. ASSUME NEW f \in Frame, NEW s \in Slot, Copied(f, s) PROVE NumberMoves /\ CarriersDistinct'
  <2>1. /\ input'[s] = strip[f] /\ \A t \in SlotCarriers : input'[t] = input[t]
        /\ f \in RawCarriers /\ RawCarriers' = RawCarriers \ {f}
        /\ s \notin SlotCarriers /\ SlotCarriers' = SlotCarriers \cup {s} /\ strip' = strip
    BY <1>1, <1>4 DEF Copied
  <2>2. CarriersDistinct'
    BY <2>1 DEF CarriersDistinct
  <2>3. InFlight' = InFlight
    BY <2>1 DEF InFlight
  <2> QED BY <1>4, <2>2, <2>3 DEF Copied, NumberMoves
<1>5. ASSUME NEW s \in Slot, Settles(s)
      PROVE  /\ input[s] \in InFlight /\ InFlight' = InFlight \ {input[s]}
             /\ UNCHANGED framesRead /\ CarriersDistinct'
  <2>1. /\ s \in SlotCarriers /\ SlotCarriers' = SlotCarriers \ {s}
        /\ RawCarriers' = RawCarriers /\ strip' = strip /\ input' = input
    BY <1>5 DEF Settles
  <2>2. CarriersDistinct'
    BY <2>1 DEF CarriersDistinct
  <2>3. InFlight' = InFlight \ {input[s]}
    BY <2>1 DEF InFlight, CarriersDistinct
  <2> QED BY <1>5, <2>1, <2>2, <2>3 DEF Settles, InFlight
<1>6. ASSUME Busy, NEW s \in Slot, PublishedFrom(s) \/ FailedIn(s) \/ LostWith(s)
      PROVE  NumberMoves /\ CarriersDistinct'
  <2>1. /\ input[s] \in InFlight /\ InFlight' = InFlight \ {input[s]}
        /\ UNCHANGED framesRead /\ CarriersDistinct'
    BY <1>5, <1>6 DEF PublishedFrom, FailedIn, LostWith
  <2>2. Ends(input[s])
    BY <1>6, <2>1 DEF PublishedFrom, FailedIn, LostWith, Ends
  <2> QED BY <1>6, <2>1, <2>2 DEF NumberMoves
<1> QED BY <1>2, <1>3, <1>4, <1>6 DEF BatchMoves

\* One entry more in the sink.
LEMMA PublishedAppend ==
  ASSUME IndInv, NEW n, sunk' = Append(sunk, [seq |-> n, scores |-> n])
  PROVE  /\ Published' = Published \cup {n}
         /\ DOMAIN sunk' = DOMAIN sunk \cup {Len(sunk) + 1} /\ Len(sunk) + 1 \notin DOMAIN sunk
         /\ \A i \in DOMAIN sunk : sunk'[i] = sunk[i]
         /\ sunk'[Len(sunk) + 1] = [seq |-> n, scores |-> n]
<1>1. sunk \in Seq([seq : Batch \cup {0}, scores : Batch \cup {0}])
  BY DEF IndInv, TypeOK, DataOK
<1>2. /\ Len(sunk) \in Nat /\ DOMAIN sunk = 1 .. Len(sunk)
      /\ DOMAIN sunk' = 1 .. Len(sunk) + 1
      /\ \A i \in 1 .. Len(sunk) : sunk'[i] = sunk[i]
      /\ sunk'[Len(sunk) + 1] = [seq |-> n, scores |-> n]
  BY <1>1, LenProperties, AppendProperties
<1>3. DOMAIN sunk' = DOMAIN sunk \cup {Len(sunk) + 1} /\ Len(sunk) + 1 \notin DOMAIN sunk
  BY <1>2
<1>4. Published' = Published \cup {n}
  BY <1>2, <1>3 DEF Published
<1> QED BY <1>2, <1>3, <1>4

\* The numbers stay apart and, short of an abort, complete.
LEMMA NumbersKept ==
  ASSUME IndInv, NumbersInv, NumberMoves PROVE NumbersInv'
<1>1. framesRead \in Nat
  BY CarrierTypes
<1>2. CASE InFlight' = InFlight /\ UNCHANGED <<framesRead, sunk, failed>>
  BY <1>2 DEF NumbersInv, Published
<1>3. CASE AcceptNext
  <2>1. 1 .. framesRead' = (1 .. framesRead) \cup {framesRead + 1} /\ framesRead + 1 \notin 1 .. framesRead
    BY <1>1, <1>3 DEF AcceptNext
  <2>2. Published' = Published /\ sunk' = sunk /\ failed' = failed
        /\ InFlight' = InFlight \cup {framesRead + 1}
    BY <1>3 DEF AcceptNext, Published
  <2> QED BY <2>1, <2>2 DEF NumbersInv
<1>4. ASSUME NEW n \in InFlight, Ends(n) PROVE NumbersInv'
  <2>1. InFlight' = InFlight \ {n} /\ framesRead' = framesRead /\ n \notin Published /\ n \notin failed
    BY <1>4 DEF Ends, NumbersInv
  <2>2. CASE sunk' = sunk
    BY <1>4, <2>1, <2>2 DEF Ends, NumbersInv, Published
  <2>3. CASE sunk' = Append(sunk, [seq |-> n, scores |-> n]) /\ UNCHANGED failed
    <3>1. /\ Published' = Published \cup {n}
          /\ DOMAIN sunk' = DOMAIN sunk \cup {Len(sunk) + 1} /\ Len(sunk) + 1 \notin DOMAIN sunk
          /\ \A i \in DOMAIN sunk : sunk'[i] = sunk[i]
          /\ sunk'[Len(sunk) + 1] = [seq |-> n, scores |-> n]
      BY <2>3, PublishedAppend
    <3>2. \A i \in DOMAIN sunk : sunk[i].seq # n
      BY <2>1 DEF Published
    <3>3. \A i \in DOMAIN sunk' : sunk'[i].scores = sunk'[i].seq
      BY <3>1 DEF NumbersInv
    <3>4. \A i, j \in DOMAIN sunk' : i # j => sunk'[i].seq # sunk'[j].seq
      BY <3>1, <3>2 DEF NumbersInv
    <3> QED BY <2>1, <2>3, <3>1, <3>3, <3>4 DEF NumbersInv
  <2> QED BY <1>4, <2>2, <2>3 DEF Ends
<1> QED BY <1>2, <1>3, <1>4 DEF NumberMoves

\* Only Abort loses a batch.
LEMMA NoneLostKept ==
  ASSUME IndInv, PhaseInv, NoneLost, NumberMoves, [Next]_vars PROVE NoneLost'
<1>1. framesRead \in Nat
  BY CarrierTypes
<1>2. Aborting => Aborting'
  <2>1. ASSUME NEW w \in Worker, Step(w) PROVE UNCHANGED main
    BY <2>1, BusyWorker DEF Busy
  <2>2. CASE IngestStep
    BY <2>2 DEF IngestStep, IngestStops, IngestSees, IngestBreaks, IngestDrops, IngestTakes,
       IngestPushes, Aborting
  <2>3. CASE MainStep \/ Keys \/ Gone \/ UNCHANGED vars
    BY <2>3, StageKeys DEF MainStep, Keys, Gone, vars, Spawn, Ready, ReapIngest, KeyS, KeyX, KeyQ,
       JoinIngest, DrainStop, DrainJoin, DrainPools, Return, AbortStop, AbortJoin, Aborting
  <2> QED BY <2>1, <2>2, <2>3 DEF Next, Aborting
<1>3. CASE InFlight' = InFlight /\ UNCHANGED <<framesRead, sunk, failed>>
  BY <1>2, <1>3 DEF NoneLost, Published
<1>4. CASE AcceptNext
  <2>1. 1 .. framesRead' = (1 .. framesRead) \cup {framesRead + 1}
    BY <1>1, <1>4 DEF AcceptNext
  <2>2. Published' = Published
    BY <1>4 DEF AcceptNext, Published
  <2> QED BY <1>2, <1>4, <2>1, <2>2 DEF NoneLost, AcceptNext
<1>5. ASSUME NEW n \in InFlight, Ends(n) PROVE NoneLost'
  <2>1. CASE main = "abort"
    BY <1>2, <2>1 DEF NoneLost, Aborting
  <2>2. CASE sunk' = Append(sunk, [seq |-> n, scores |-> n]) /\ UNCHANGED failed
    <3>1. Published' = Published \cup {n}
      BY <2>2, PublishedAppend
    <3> QED BY <1>2, <1>5, <2>2, <3>1 DEF NoneLost, Ends
  <2>3. CASE failed' = failed \cup {n} /\ UNCHANGED sunk
    BY <1>2, <1>5, <2>3 DEF NoneLost, Ends, Published
  <2> QED BY <1>5, <2>1, <2>2, <2>3 DEF Ends
<1> QED BY <1>3, <1>4, <1>5 DEF NumberMoves

-----------------------------------------------------------------------------
(* What every reachable state satisfies, and what it means for the sink.    *)

\* Joined stages, see PhaseInv.
LEMMA PhaseInvariant == Spec => []PhaseInv
<1>1. Init => PhaseInv
  BY DEF Init, PhaseInv
<1> QED BY <1>1, PhaseStep, Invariance, PTL DEF Spec

\* Fresh scores, see ScoresFresh.
LEMMA ScoresInvariant == Spec => []ScoresFresh
<1>1. Init => ScoresFresh
  <2> SUFFICES ASSUME Init PROVE ScoresFresh
    OBVIOUS
  <2>1. Held("qInf") = {}
    BY DEF Init, Held, Channel
  <2>2. \A w \in Worker : pc[w] \notin ScoredPcs
    BY DEF Init, ScoredPcs
  <2> QED BY <2>1, <2>2 DEF ScoresFresh
<1> QED BY <1>1, ScoresStep, Invariance, SlotHasOneOwner, PTL DEF Spec

\* The order of Drain, see DrainInv.
LEMMA DrainInvariant == Spec => []DrainInv
<1>1. Init => DrainInv
  <2> SUFFICES ASSUME Init PROVE DrainInv
    OBVIOUS
  <2>1. main = "spawn" /\ \A c \in Channel : ~stopped[c]
    BY DEF Init
  <2>2. \A w \in Worker : pc[w] = "unborn"
    BY DEF Init
  <2> QED BY <2>1, <2>2 DEF DrainInv, Aborting, Ended, Channel, Worker
<1> QED BY <1>1, DrainKept, Invariance, PhaseInvariant, SlotNeverAwaited, PTL DEF Spec

\* Nothing is in flight before the first frame.
LEMMA NothingRead ==
  Init => /\ RawCarriers = {} /\ SlotCarriers = {} /\ InFlight = {} /\ Published = {}
          /\ failed = {} /\ framesRead = 0 /\ sunk = <<>>
<1> SUFFICES ASSUME Init
             PROVE  RawCarriers = {} /\ SlotCarriers = {} /\ Published = {}
  BY DEF Init, InFlight
<1>1. Held("qRaw") = {} /\ Held("qPrep") = {} /\ Held("qInf") = {}
  BY DEF Init, Held, Channel
<1>2. \A w \in Worker : pc[w] = "unborn"
  BY DEF Init
<1>3. {v \in Prep : pc[v] \in RawPcs} = {} /\ {v \in Worker : pc[v] \in SlotBatchPcs} = {}
  BY <1>2 DEF RawPcs, SlotBatchPcs, Worker
<1>4. {inFrame} \ {0} = {} /\ DOMAIN sunk = {}
  BY DEF Init
<1> QED BY <1>1, <1>3, <1>4 DEF RawCarriers, SlotCarriers, Published

LedgerInv == CarriersDistinct /\ NumbersInv /\ NoneLost

\* Every batch that has been read is in one buffer, in the sink, failed, or
\* lost in an abort, and it is in one of these only.
LEMMA LedgerInvariant == Spec => []LedgerInv
<1>1. Init => LedgerInv
  BY NothingRead DEF LedgerInv, CarriersDistinct, NumbersInv, NoneLost
<1>2. /\ IndInv /\ FramesOwnedOnce /\ SlotsOwnedOnce /\ PhaseInv /\ PrepNeverWaitsForSlot
      /\ DrainInv /\ ScoresFresh /\ LedgerInv /\ [Next]_vars
      => LedgerInv'
  <2> SUFFICES ASSUME IndInv, FramesOwnedOnce, SlotsOwnedOnce, PhaseInv, PrepNeverWaitsForSlot,
                      DrainInv, ScoresFresh, LedgerInv, [Next]_vars
               PROVE  LedgerInv'
    OBVIOUS
  <2>1. CarriersDistinct /\ NumbersInv /\ NoneLost /\ InFlight \subseteq 1 .. framesRead
    BY DEF LedgerInv, NumbersInv
  <2>2. BatchMoves
    BY BatchStep
  <2>3. NumberMoves /\ CarriersDistinct'
    BY <2>1, <2>2, NumberStep
  <2>4. NumbersInv' /\ NoneLost'
    BY <2>1, <2>3, NumbersKept, NoneLostKept
  <2> QED BY <2>3, <2>4 DEF LedgerInv
<1> QED BY <1>1, <1>2, Invariance, FrameHasOneOwner, SlotHasOneOwner, PhaseInvariant,
           SlotNeverAwaited, DrainInvariant, ScoresInvariant, PTL DEF Spec

\* A batch is published once, not after it failed, with its own scores.
THEOREM SinkIsExact == Spec => []SinkExact
<1>1. LedgerInv => SinkExact
  <2> SUFFICES ASSUME NumbersInv, NEW i \in DOMAIN sunk
               PROVE  sunk[i].seq \in 1 .. framesRead /\ sunk[i].seq \notin failed
    BY DEF SinkExact, NumbersInv, LedgerInv
  <2>1. sunk[i].seq \in Published
    BY DEF Published
  <2> QED BY <2>1 DEF NumbersInv
<1> QED BY <1>1, LedgerInvariant, PTL

-----------------------------------------------------------------------------
(* The pipeline implements the ledger of FrameLedger.                       *)

\* When Drain has joined all the stages nothing carries a batch any more.
LEMMA AllSettled ==
  ASSUME IndInv, PhaseInv, DrainInv, main \in {"drainPools", "report", "returned"}
  PROVE  /\ \A w \in Worker : pc[w] = "done"
         /\ q["qRaw"] = <<>> /\ q["qPrep"] = <<>> /\ q["qInf"] = <<>> /\ ingest = "off"
         /\ RawCarriers = {} /\ SlotCarriers = {} /\ InFlight = {}
<1>1. \A w \in Worker : pc[w] = "done"
  BY DEF PhaseInv, DrainInv, Joined, Unborn, Worker
<1>2. ~Aborting
  BY DEF Aborting
<1>3. q["qRaw"] = <<>>
  BY <1>1, <1>2, ThreadAssumption DEF DrainInv, Ended, Worker
<1>4. q["qPrep"] = <<>>
  BY <1>1, <1>2, ThreadAssumption DEF DrainInv, Ended, Worker
<1>5. q["qInf"] = <<>>
  BY <1>1, <1>2, ThreadAssumption DEF DrainInv, Ended, Worker
<1>6. ingest = "off" /\ {inFrame} \ {0} = {}
  <2>1. ingest = "off"
    BY DEF IndInv, OpenWhileListening
  <2>2. inFrame \in Frame \cup {0} /\ inFrame \notin Frame
    BY <2>1 DEF IndInv, TypeOK, IngestOK
  <2> QED BY <2>1, <2>2
<1>7. Held("qRaw") = {} /\ Held("qPrep") = {} /\ Held("qInf") = {}
  BY <1>3, <1>4, <1>5 DEF Held
<1>8. {v \in Prep : pc[v] \in RawPcs} = {} /\ {v \in Worker : pc[v] \in SlotBatchPcs} = {}
  BY <1>1 DEF RawPcs, SlotBatchPcs, Worker
<1>9. RawCarriers = {} /\ SlotCarriers = {}
  BY <1>6, <1>7, <1>8 DEF RawCarriers, SlotCarriers
<1> QED BY <1>1, <1>3, <1>4, <1>5, <1>6, <1>9 DEF InFlight

\* The five fates, by where the number of the batch is.
LEMMA FateOf ==
  ASSUME NEW n \in Batch
  PROVE  /\ Fate[n] = IF n \in Published THEN "published"
                      ELSE IF n \in failed THEN "failed"
                      ELSE IF n \in InFlight THEN "accepted"
                      ELSE IF n =< framesRead THEN "lost" ELSE "unread"
         /\ Fate'[n] = IF n \in Published' THEN "published"
                       ELSE IF n \in failed' THEN "failed"
                       ELSE IF n \in InFlight' THEN "accepted"
                       ELSE IF n =< framesRead' THEN "lost" ELSE "unread"
BY DEF Fate

\* One batch's fate changes.
LEMMA FateMove ==
  ASSUME NEW n \in Batch, NEW x, Fate'[n] = x, \A m \in Batch \ {n} : Fate'[m] = Fate[m]
  PROVE  Fate' = [Fate EXCEPT ![n] = x]
<1>1. Fate = [m \in Batch |-> Fate[m]] /\ Fate' = [m \in Batch |-> Fate'[m]]
  BY DEF Fate
<1> QED BY <1>1

\* What the main thread's position tells the ledger.
LEMMA MainMove ==
  ASSUME IndInv, [Next]_vars
  PROVE  \/ /\ Aborting' <=> Aborting
            /\ main' \in {"report", "returned"} <=> main \in {"report", "returned"}
            /\ main' = "report" => main = "report"
         \/ main \in {"spawn", "console"} /\ main' = "abort"
         \/ main = "drainPools" /\ main' = "report"
<1>1. ASSUME NEW w \in Worker, Step(w) PROVE UNCHANGED main
  BY <1>1 DEF Step, PrepPopRaw, PrepPopSlot, PrepFill, PrepReturnRaw, PrepPush, DropSlot,
     InferPop, InferRun, InferPush, PostPop, PostPublish, PostRelease
<1>2. CASE IngestStep
  BY <1>2 DEF IngestStep, IngestStops, IngestSees, IngestBreaks, IngestDrops, IngestTakes, IngestPushes,
     Aborting
<1>3. CASE Keys \/ Gone \/ UNCHANGED vars
  BY <1>3 DEF Keys, Gone, vars, KeyS, KeyX, KeyQ, Aborting
<1>4. CASE DrainJoin
  BY <1>4, StageKeys DEF DrainJoin, DrainStage, Aborting
<1>5. CASE MainStep
  <2>1. CASE \E w \in Worker : Spawn(w)
    BY <2>1 DEF Spawn, Aborting
  <2>2. CASE Ready \/ ReapIngest \/ JoinIngest \/ DrainStop \/ DrainPools \/ Return
    BY <2>2 DEF Ready, ReapIngest, KeyX, JoinIngest, DrainStop, DrainPools, Return, DrainStage, Aborting
  <2>3. CASE AbortStop \/ AbortJoin
    BY <2>3 DEF AbortStop, AbortJoin, Aborting
  <2> QED BY <1>4, <1>5, <2>1, <2>2, <2>3 DEF MainStep
<1>6. CASE \E w \in Worker : Step(w)
  BY <1>1, <1>6 DEF Aborting
<1> QED BY <1>2, <1>3, <1>5, <1>6 DEF Next

\* The number after the last one read is the next the ledger accepts.
LEMMA LedgerAccepts ==
  ASSUME IndInv, NumbersInv, Busy, AcceptNext
  PROVE  Ledger!Next
<1> DEFINE n == framesRead + 1
<1>1. framesRead \in Nat /\ n \in Batch /\ n \notin 1 .. framesRead
  BY SizeAssumption DEF IndInv, TypeOK, IngestOK, AcceptNext, Batch
<1>2. Published' = Published
  BY DEF AcceptNext, Published
<1>3. n \notin Published /\ n \notin failed /\ n \notin InFlight
  BY <1>1 DEF NumbersInv
<1>4. Fate[n] = "unread"
  BY <1>1, <1>3, FateOf
<1>5. Fate'[n] = "accepted"
  BY <1>1, <1>2, <1>3 DEF Fate, AcceptNext
<1>6. ASSUME NEW m \in Batch \ {n} PROVE Fate'[m] = Fate[m]
  <2>1. m =< framesRead <=> m =< framesRead'
    BY <1>1 DEF Batch, AcceptNext
  <2>2. m \in InFlight' <=> m \in InFlight
    BY DEF AcceptNext
  <2>3. failed' = failed
    BY DEF AcceptNext
  <2>4. m \in Batch
    OBVIOUS
  <2> QED BY <1>2, <2>1, <2>2, <2>3, <2>4, FateOf
<1>7. \A m \in 1 .. n - 1 : Fate[m] # "unread"
  <2> SUFFICES ASSUME NEW m \in 1 .. n - 1 PROVE Fate[m] # "unread"
    OBVIOUS
  <2>1. m \in Batch /\ m =< framesRead
    BY <1>1, SizeAssumption DEF Batch
  <2> QED BY <2>1, FateOf
<1>8. Fate' = [Fate EXCEPT ![n] = "accepted"]
  BY <1>1, <1>5, <1>6, FateMove
<1>9. Ledger!Accept(n) /\ n \in Ledger!Batch
  BY <1>1, <1>4, <1>7, <1>8 DEF Ledger!Accept, Ledger!Batch, Batch
<1> QED BY <1>9 DEF Ledger!Next, Busy

\* A number that leaves the pipeline is published, fails or is lost.
LEMMA LedgerEnds ==
  ASSUME IndInv, NumbersInv, Busy, NEW n \in InFlight, Ends(n)
  PROVE  Ledger!Next
<1>1. framesRead \in Nat /\ n \in Batch /\ n =< framesRead
  BY SizeAssumption DEF IndInv, TypeOK, IngestOK, NumbersInv, Batch
<1>2. n \notin Published /\ n \notin failed
  BY DEF NumbersInv
<1>3. Fate[n] = "accepted"
  BY <1>1, <1>2, FateOf
<1>4. n \notin InFlight' /\ framesRead' = framesRead /\ \A m \in Batch \ {n} : m \in InFlight' <=> m \in InFlight
  BY DEF Ends
<1>5. CASE sunk' = Append(sunk, [seq |-> n, scores |-> n]) /\ UNCHANGED failed
  <2>1. Published' = Published \cup {n}
    BY <1>5, PublishedAppend
  <2>2. Fate'[n] = "published" /\ \A m \in Batch \ {n} : Fate'[m] = Fate[m]
    BY <1>1, <1>4, <1>5, <2>1 DEF Fate
  <2>3. Ledger!Publish(n) /\ n \in Ledger!Batch
    BY <1>1, <1>3, <2>2, FateMove DEF Ledger!Publish, Ledger!Batch, Batch
  <2> QED BY <2>3 DEF Ledger!Next, Busy
<1>6. CASE failed' = failed \cup {n} /\ UNCHANGED sunk
  <2>1. Published' = Published
    BY <1>6 DEF Published
  <2>2. Fate'[n] = "failed" /\ \A m \in Batch \ {n} : Fate'[m] = Fate[m]
    BY <1>1, <1>2, <1>4, <1>6, <2>1 DEF Fate
  <2>3. Ledger!Fail(n) /\ n \in Ledger!Batch
    BY <1>1, <1>3, <2>2, FateMove DEF Ledger!Fail, Ledger!Batch, Batch
  <2> QED BY <2>3 DEF Ledger!Next, Busy
<1>7. CASE main = "abort" /\ UNCHANGED <<sunk, failed>>
  <2>1. Published' = Published
    BY <1>7 DEF Published
  <2>2. Fate'[n] = "lost" /\ \A m \in Batch \ {n} : Fate'[m] = Fate[m]
    BY <1>1, <1>2, <1>4, <1>7, <2>1 DEF Fate
  <2>3. Ledger!Lose(n) /\ n \in Ledger!Batch
    BY <1>1, <1>3, <1>7, <2>2, FateMove DEF Ledger!Lose, Ledger!Batch, Batch
  <2> QED BY <2>3 DEF Ledger!Next, Busy
<1> QED BY <1>5, <1>6, <1>7 DEF Ends

\* Every step is a step of the ledger or leaves it alone.
LEMMA LedgerStep ==
  ASSUME IndInv, PhaseInv, DrainInv, NumbersInv, NumberMoves, [Next]_vars
  PROVE  [Ledger!Next]_Ledger!vars
<1>1. CASE Busy /\ AcceptNext
  BY <1>1, LedgerAccepts
<1>2. CASE Busy /\ \E n \in InFlight : Ends(n)
  BY <1>2, LedgerEnds
<1>3. CASE InFlight' = InFlight /\ UNCHANGED <<framesRead, sunk, failed>>
  <2>1. Published' = Published
    BY <1>3 DEF Published
  <2>2. Fate' = Fate
    BY <1>3, <2>1 DEF Fate
  <2>3. CASE /\ Aborting' <=> Aborting
             /\ main' \in {"report", "returned"} <=> main \in {"report", "returned"}
    BY <2>2, <2>3 DEF Ledger!vars, Aborting
  <2>4. CASE main \in {"spawn", "console"} /\ main' = "abort"
    BY <2>2, <2>4 DEF Ledger!Next, Ledger!Abort
  <2>5. CASE main = "drainPools" /\ main' = "report"
    <3>1. InFlight = {}
      BY <2>5, AllSettled
    <3>2. \A n \in Ledger!Batch : Fate[n] # "accepted"
      BY <3>1 DEF Fate, Ledger!Batch, Batch
    <3> QED BY <2>2, <2>5, <3>2 DEF Ledger!Next, Ledger!Settle
  <2> QED BY <2>3, <2>4, <2>5, MainMove
<1> QED BY <1>1, <1>2, <1>3 DEF NumberMoves

\* Before the first frame the ledger is empty.
LEMMA LedgerInit == Init => Ledger!Init
<1> SUFFICES ASSUME Init PROVE Ledger!Init
  OBVIOUS
<1>1. \A n \in Batch : ~(n =< framesRead)
  BY NothingRead, SizeAssumption DEF Batch
<1>2. Fate = [n \in Batch |-> "unread"]
  BY <1>1, NothingRead DEF Fate
<1>3. main = "spawn"
  BY DEF Init
<1> QED BY <1>2, <1>3 DEF Ledger!Init, Ledger!Batch, Batch

\* The threads and queues do what the ledger promises about every batch.
THEOREM PipelineImplementsLedger == Spec => LedgerSpec
<1>1. /\ IndInv /\ FramesOwnedOnce /\ SlotsOwnedOnce /\ PhaseInv /\ PrepNeverWaitsForSlot
      /\ DrainInv /\ ScoresFresh /\ LedgerInv /\ [Next]_vars
      => [Ledger!Next]_Ledger!vars
  <2> SUFFICES ASSUME IndInv, FramesOwnedOnce, SlotsOwnedOnce, PhaseInv, PrepNeverWaitsForSlot,
                      DrainInv, ScoresFresh, LedgerInv, [Next]_vars
               PROVE  [Ledger!Next]_Ledger!vars
    OBVIOUS
  <2>1. CarriersDistinct /\ NumbersInv /\ InFlight \subseteq 1 .. framesRead
    BY DEF LedgerInv, NumbersInv
  <2>2. NumberMoves
    BY <2>1, BatchStep, NumberStep
  <2> QED BY <2>1, <2>2, LedgerStep
<1> QED BY <1>1, LedgerInit, Invariance, FrameHasOneOwner, SlotHasOneOwner, PhaseInvariant,
           SlotNeverAwaited, DrainInvariant, ScoresInvariant, LedgerInvariant, PTL
           DEF Spec, LedgerSpec, Ledger!Spec

-----------------------------------------------------------------------------
(* The counters of the final report.                                       *)

\* The post threads between Publish and the end of the slot's scope.
Releasing == {w \in Post : pc[w] = "release"}

PublishCount == Len(sunk) = completed + Cardinality(Releasing)

\* A post thread enters and leaves that set in its own steps.
LEMMA ReleasingMove ==
  ASSUME IndInv, NEW w \in Worker, NEW l, GoTo(w, l)
  PROVE  /\ Cardinality(Releasing) \in Nat
         /\ Cardinality(Releasing)' =
              IF w \notin Post \/ (l = "release" <=> pc[w] = "release") THEN Cardinality(Releasing)
              ELSE IF l = "release" THEN Cardinality(Releasing) + 1
                                    ELSE Cardinality(Releasing) - 1
<1>1. pc'[w] = l /\ \A v \in Worker \ {w} : pc'[v] = pc[v]
  BY OthersStay
<1>2. Releasing \in SUBSET Post /\ Releasing' \in SUBSET Post /\ IsFiniteSet(Post) /\ Post \subseteq Worker
  BY ThreadAssumption DEF Releasing, Worker
<1>3. \A v \in Post \ {w} : v \in Releasing <=> v \in Releasing'
  BY <1>1, <1>2 DEF Releasing
<1>4. /\ w \in Releasing <=> w \in Post /\ pc[w] = "release"
      /\ w \in Releasing' <=> w \in Post /\ l = "release"
  BY <1>1 DEF Releasing
<1>5. /\ Cardinality(Releasing) \in Nat
      /\ Cardinality(Releasing') = IF w \in Releasing <=> w \in Releasing' THEN Cardinality(Releasing)
                                   ELSE IF w \in Releasing' THEN Cardinality(Releasing) + 1
                                                            ELSE Cardinality(Releasing) - 1
  BY <1>2, <1>3, CountMove
<1> QED BY <1>4, <1>5

\* What Publish has taken is counted, or is about to be.
LEMMA PublishCountStep == IndInv /\ PublishCount /\ [Next]_vars => PublishCount'
<1> SUFFICES ASSUME IndInv, PublishCount, [Next]_vars PROVE PublishCount'
  OBVIOUS
<1>1. completed \in Nat /\ sunk \in Seq([seq : Batch \cup {0}, scores : Batch \cup {0}])
  BY DEF IndInv, TypeOK, DataOK
<1>2. ASSUME NEW w \in Worker, NEW l, GoTo(w, l), pc[w] # "release", l # "release",
             UNCHANGED <<sunk, completed>>
      PROVE  PublishCount'
  <2>1. Cardinality(Releasing)' = Cardinality(Releasing)
    BY <1>2, ReleasingMove
  <2> QED BY <1>2, <2>1 DEF PublishCount
<1>3. CASE UNCHANGED <<pc, sunk, completed>>
  BY <1>3 DEF PublishCount, Releasing
<1>4. ASSUME NEW w \in Post, PostPublish(w) PROVE PublishCount'
  <2>1. w \in Worker /\ GoTo(w, "release") /\ pc[w] = "publish" /\ completed' = completed
    BY <1>4 DEF PostPublish, Worker
  <2>2. Cardinality(Releasing)' = Cardinality(Releasing) + 1 /\ Cardinality(Releasing) \in Nat
    BY <2>1, ReleasingMove
  <2>3. sunk' = Append(sunk, [seq |-> input[slot[w]], scores |-> result[slot[w]]])
        /\ slot[w] \in Slot
    BY <1>4, <2>1, HeldSlot DEF PostPublish, SlotPcs
  <2>4. [seq |-> input[slot[w]], scores |-> result[slot[w]]]
          \in [seq : Batch \cup {0}, scores : Batch \cup {0}]
    BY <2>3 DEF IndInv, TypeOK, DataOK
  <2>5. Len(sunk') = Len(sunk) + 1 /\ Len(sunk) \in Nat
    BY <1>1, <2>3, <2>4, AppendProperties, LenProperties
  <2> QED BY <1>1, <2>1, <2>2, <2>5 DEF PublishCount
<1>5. ASSUME NEW w \in Post, PostRelease(w) PROVE PublishCount'
  <2>1. /\ w \in Worker /\ GoTo(w, "popInf") /\ pc[w] = "release" /\ completed' = completed + 1
        /\ sunk' = sunk
    BY <1>5 DEF PostRelease, Worker
  <2>2. Cardinality(Releasing)' = Cardinality(Releasing) - 1 /\ Cardinality(Releasing) \in Nat
    BY <2>1, ReleasingMove
  <2> QED BY <1>1, <2>1, <2>2 DEF PublishCount
<1>6. ASSUME NEW w \in Worker, Step(w) PROVE PublishCount'
  <2>1. CASE PrepPopRaw(w) \/ PrepPopSlot(w) \/ PrepFill(w)
    BY <1>2, <2>1 DEF PrepPopRaw, PrepPopSlot, PrepFill, outcome
  <2>2. CASE PrepReturnRaw(w) \/ DropSlot(w)
    <3>1. PICK l \in {"pushPrep", "popPrep", "done"} : GoTo(w, l)
      BY <2>2 DEF PrepReturnRaw, DropSlot
    <3> QED BY <1>2, <2>2, <3>1 DEF PrepReturnRaw, DropSlot, outcome
  <2>3. CASE PrepPush(w) \/ InferPop(w) \/ InferPush(w) \/ PostPop(w)
    BY <1>2, <2>3 DEF PrepPush, InferPop, InferPush, PostPop, outcome
  <2>4. CASE InferRun(w)
    BY <1>2, <2>4 DEF InferRun, outcome
  <2> QED BY <1>4, <1>5, <1>6, <2>1, <2>2, <2>3, <2>4 DEF Step
<1>7. CASE IngestStep
  BY <1>3, <1>7 DEF IngestStep, IngestStops, IngestSees, IngestBreaks, IngestDrops, IngestTakes,
     IngestPushes, outcome
<1>8. ASSUME NEW w \in Worker, Spawn(w) PROVE PublishCount'
  <2>1. CASE GoTo(w, FirstPc(w))
    <3>1. FirstPc(w) # "release"
      BY DEF FirstPc
    <3> QED BY <1>2, <1>8, <2>1, <3>1 DEF Spawn, outcome
  <2>2. CASE UNCHANGED pc
    BY <1>3, <1>8, <2>2 DEF Spawn, outcome
  <2> QED BY <1>8, <2>1, <2>2 DEF Spawn
<1>9. CASE MainStep /\ ~\E w \in Worker : Spawn(w)
  BY <1>3, <1>9 DEF MainStep, Ready, ReapIngest, KeyX, JoinIngest, DrainStop, DrainJoin, DrainPools,
     Return, AbortStop, AbortJoin, outcome
<1>10. CASE Keys \/ Gone \/ UNCHANGED vars
  BY <1>3, <1>10 DEF Keys, Gone, vars, KeyS, KeyX, KeyQ, outcome
<1> QED BY <1>6, <1>7, <1>8, <1>9, <1>10 DEF Next

\* When the report is made every buffer is back in its pool.
PoolsFull == main = "report" =>
               Len(q["rawPool"]) = NumFrames /\ Len(q["slotPool"]) = NumSlots

\* Once all stages are joined only the main thread moves.
LEMMA PoolsFullStep ==
  IndInv /\ PhaseInv /\ DrainInv /\ PoolsFull /\ [Next]_vars => PoolsFull'
<1> SUFFICES ASSUME IndInv, PhaseInv, DrainInv, PoolsFull, [Next]_vars, main' = "report"
             PROVE  Len(q'["rawPool"]) = NumFrames /\ Len(q'["slotPool"]) = NumSlots
  BY DEF PoolsFull
<1>1. CASE main = "drainPools"
  <2>1. /\ \A w \in Worker : pc[w] = "done"
        /\ q["qRaw"] = <<>> /\ q["qPrep"] = <<>> /\ q["qInf"] = <<>> /\ ingest = "off"
    BY <1>1, AllSettled
  <2>2. FrameHolders = {} /\ SlotHolders = {}
    BY <2>1 DEF FrameHolders, SlotHolders, FramePcs, SlotPcs, Worker
  <2>3. Cardinality(FrameHolders) = 0 /\ Cardinality(SlotHolders) = 0
    BY <2>2, FS_EmptySet
  <2>4. ~stopped["rawPool"] /\ ~stopped["slotPool"]
    BY <1>1 DEF DrainInv, Aborting
  <2>5. FramesInPlace = NumFrames /\ SlotsInPlace = NumSlots
    BY <2>4 DEF IndInv, FrameCount, SlotCount
  <2>6. Len(q["rawPool"]) \in Nat /\ Len(q["slotPool"]) \in Nat
    BY LenTypes DEF IndInv, TypeOK
  <2>7. Len(q["rawPool"]) = NumFrames /\ Len(q["slotPool"]) = NumSlots
    BY <2>1, <2>3, <2>5, <2>6 DEF FramesInPlace, SlotsInPlace
  <2>8. UNCHANGED q
    <3>1. ASSUME NEW w \in Worker, Step(w) PROVE FALSE
      BY <2>1, <3>1, EndedStays
    <3>2. ~IngestStep
      BY <2>1 DEF IngestStep, IngestStops, IngestSees, IngestBreaks, IngestDrops, IngestTakes, IngestPushes
    <3> QED BY <1>1, <3>1, <3>2 DEF Next, MainStep, Keys, Gone, vars, Spawn, Ready, ReapIngest, KeyS, KeyX,
               KeyQ, JoinIngest, DrainStop, DrainJoin, DrainPools, Return, AbortStop, AbortJoin
  <2> QED BY <2>7, <2>8
<1>2. CASE main # "drainPools"
  <2>1. main = "report"
    BY <1>2, MainMove
  <2>2. ASSUME NEW w \in Worker, Step(w) PROVE FALSE
    BY <2>1, <2>2, BusyWorker DEF Busy
  <2>3. ~IngestStep
    BY <2>1 DEF IngestStep, IngestStops, IngestSees, IngestBreaks, IngestDrops, IngestTakes,
       IngestPushes, IndInv, OpenWhileListening
  <2>4. UNCHANGED q
    BY <2>2, <2>3 DEF Next, MainStep, Keys, Gone, vars, Spawn, Ready, ReapIngest, KeyS, KeyX,
       KeyQ, JoinIngest, DrainStop, DrainJoin, DrainPools, Return, AbortStop, AbortJoin
  <2> QED BY <2>1, <2>4 DEF PoolsFull
<1> QED BY <1>1, <1>2

\* There are n numbers from 1 to n.
LEMMA NumbersUpTo ==
  ASSUME NEW n \in Nat
  PROVE  IsFiniteSet(1 .. n) /\ Cardinality(1 .. n) = n
<1>1. /\ IsFiniteSet(1 .. n)
      /\ Cardinality(1 .. n) = IF 1 > n THEN 0 ELSE n - 1 + 1
  BY FS_Interval
<1> QED BY <1>1

\* As many batches published as entries in the sink.
LEMMA PublishedSize ==
  ASSUME IndInv, NumbersInv
  PROVE  IsFiniteSet(Published) /\ Cardinality(Published) = Len(sunk)
<1>1. Len(sunk) \in Nat /\ DOMAIN sunk = 1 .. Len(sunk)
  BY LenProperties DEF IndInv, TypeOK, DataOK
<1>2. IsFiniteSet(1 .. Len(sunk)) /\ Cardinality(1 .. Len(sunk)) = Len(sunk)
  BY <1>1, NumbersUpTo
<1> DEFINE number == [i \in 1 .. Len(sunk) |-> sunk[i].seq]
<1>3. number \in Bijection(1 .. Len(sunk), Published)
  <2>1. \A i \in 1 .. Len(sunk) : number[i] \in Published
    BY <1>1 DEF Published
  <2>2. number \in [1 .. Len(sunk) -> Published]
    BY <2>1
  <2>3. \A i, j \in 1 .. Len(sunk) : number[i] = number[j] => i = j
    BY <1>1 DEF NumbersInv
  <2>4. \A n \in Published : \E i \in 1 .. Len(sunk) : number[i] = n
    BY <1>1 DEF Published
  <2> HIDE DEF number
  <2> QED BY <2>2, <2>3, <2>4 DEF Bijection, Injection, Surjection, IsInjective
<1>4. ExistsBijection(1 .. Len(sunk), Published)
  BY <1>3 DEF ExistsBijection
<1>5. IsFiniteSet(Published) /\ Cardinality(Published) = Cardinality(1 .. Len(sunk))
  BY <1>2, <1>4, FS_Bijection
<1> QED BY <1>2, <1>5

\* After Drain every frame read has been published or has failed.
THEOREM DrainDelivers == Spec => []DrainDeliversAll
<1>1. Init => PublishCount /\ PoolsFull
  <2> SUFFICES ASSUME Init PROVE PublishCount /\ PoolsFull
    OBVIOUS
  <2>1. Releasing = {}
    BY DEF Init, Releasing, Worker
  <2>2. Cardinality(Releasing) = 0 /\ Len(sunk) = 0 /\ completed = 0
    BY <2>1, FS_EmptySet DEF Init
  <2>3. main # "report"
    BY DEF Init
  <2> QED BY <2>2, <2>3 DEF PublishCount, PoolsFull
<1>2. Spec => [](PublishCount /\ PoolsFull)
  BY <1>1, PublishCountStep, PoolsFullStep, Invariance, PhaseInvariant, DrainInvariant, PTL DEF Spec
<1>3. /\ IndInv /\ PhaseInv /\ DrainInv /\ LedgerInv /\ PublishCount /\ PoolsFull
      => DrainDeliversAll
  <2> SUFFICES ASSUME IndInv, PhaseInv, DrainInv, LedgerInv, PublishCount, PoolsFull, main = "report"
               PROVE  framesRead = completed + Cardinality(failed) /\ completed = Len(sunk)
    BY DEF DrainDeliversAll, PoolsFull
  <2>1. (\A w \in Worker : pc[w] = "done") /\ InFlight = {}
    BY AllSettled
  <2>2. completed = Len(sunk)
    <3>1. Releasing = {}
      BY <2>1 DEF Releasing, Worker
    <3>2. Cardinality(Releasing) = 0
      BY <3>1, FS_EmptySet
    <3> QED BY <3>2 DEF PublishCount, IndInv, TypeOK, DataOK
  <2>3. Published \cup failed = 1 .. framesRead /\ Published \cap failed = {}
    BY <2>1 DEF LedgerInv, NumbersInv, NoneLost, Aborting
  <2>4. framesRead \in Nat /\ IsFiniteSet(1 .. framesRead) /\ Cardinality(1 .. framesRead) = framesRead
    <3>1. framesRead \in Nat
      BY SizeAssumption DEF IndInv, TypeOK, IngestOK
    <3> QED BY <3>1, NumbersUpTo
  <2>5. IsFiniteSet(failed)
    BY <2>3, <2>4, FS_Subset
  <2>6. Cardinality(Published \cup failed) = Cardinality(Published) + Cardinality(failed)
    BY <2>3, <2>5, PublishedSize, DisjointUnion DEF LedgerInv
  <2>7. Cardinality(Published) = Len(sunk)
    BY PublishedSize DEF LedgerInv
  <2> QED BY <2>2, <2>3, <2>4, <2>6, <2>7
<1> QED BY <1>2, <1>3, Invariance, PhaseInvariant, DrainInvariant, LedgerInvariant, PTL

-----------------------------------------------------------------------------
(* One thread per stage: the batches stand in line, the oldest nearest to    *)
(* the sink, and nobody overtakes.                                         *)

OneThreadEach == Cardinality(Prep) = 1 /\ Cardinality(Infer) = 1 /\ Cardinality(Post) = 1

\* The numbers at each place of the line.
PostAt  == {input[slot[w]] : w \in {v \in Post : pc[v] = "publish"}}
InferAt == {input[slot[w]] : w \in {v \in Infer : pc[v] \in {"run", "pushInf"}}}
PrepAt  == {input[slot[w]] : w \in {v \in Prep : pc[v] \in {"retRaw", "pushPrep"}}}
             \cup {strip[frame[w]] : w \in {v \in Prep : pc[v] \in RawPcs}}

\* The batches in the buffers of S, numbered by num.
BatchesIn(num, S) == {num[x] : x \in S}

At(k) == IF k = 0 THEN Published
         ELSE IF k = 1 THEN PostAt
         ELSE IF k = 2 THEN BatchesIn(input, Held("qInf"))
         ELSE IF k = 3 THEN InferAt
         ELSE IF k = 4 THEN BatchesIn(input, Held("qPrep"))
         ELSE IF k = 5 THEN PrepAt
         ELSE IF k = 6 THEN BatchesIn(strip, Held("qRaw"))
         ELSE BatchesIn(strip, {inFrame} \ {0})

LineOrder == \A j, k \in 0 .. 7 : j < k => \A n \in At(j), m \in At(k) : n < m

Sorted(s, num) == \A i, j \in DOMAIN s : i < j => num[s[i]] < num[s[j]]

QueuesSorted == Sorted(q["qRaw"], strip) /\ Sorted(q["qPrep"], input) /\ Sorted(q["qInf"], input)

LineInv == LineOrder /\ QueuesSorted /\ SunkInOrder

\* The places by name.
LEMMA AtParts ==
  /\ At(0) = Published /\ At(1) = PostAt /\ At(2) = BatchesIn(input, Held("qInf"))
  /\ At(3) = InferAt /\ At(4) = BatchesIn(input, Held("qPrep")) /\ At(5) = PrepAt
  /\ At(6) = BatchesIn(strip, Held("qRaw")) /\ At(7) = BatchesIn(strip, {inFrame} \ {0})
  /\ At(0)' = Published' /\ At(1)' = PostAt' /\ At(2)' = BatchesIn(input', Held("qInf")')
  /\ At(3)' = InferAt' /\ At(4)' = BatchesIn(input', Held("qPrep")') /\ At(5)' = PrepAt'
  /\ At(6)' = BatchesIn(strip', Held("qRaw")') /\ At(7)' = BatchesIn(strip', {inFrame'} \ {0})
BY DEF At

\* The line gets shorter, or its first in a place goes on to the next.
LEMMA LineShrinks ==
  ASSUME LineOrder, \A j \in 0 .. 7 : At(j)' \subseteq At(j)
  PROVE  LineOrder'
BY DEF LineOrder

LEMMA LineAdvances ==
  ASSUME LineOrder, NEW k \in 1 .. 7, NEW n \in At(k), At(k - 1)' \subseteq At(k - 1) \cup {n},
         \A m \in At(k)' : m \in At(k) /\ n < m,
         \A j \in 0 .. 7 : j # k /\ j # k - 1 => At(j)' \subseteq At(j)
  PROVE  LineOrder'
<1> SUFFICES ASSUME NEW i \in 0 .. 7, NEW j \in 0 .. 7, i < j, NEW a \in At(i)', NEW b \in At(j)'
             PROVE  a < b
  BY DEF LineOrder
<1>1. \A x, y \in 0 .. 7 : x < y => \A c \in At(x), d \in At(y) : c < d
  BY DEF LineOrder
<1>2. k \in 0 .. 7 /\ k - 1 \in 0 .. 7 /\ k - 1 < k /\ k \in Int
  OBVIOUS
<1>3. CASE i # k - 1 /\ j # k - 1
  <2>1. a \in At(i) /\ b \in At(j)
    BY <1>3
  <2> QED BY <1>1, <2>1
<1>4. CASE i = k - 1 /\ j # k
  <2>1. b \in At(j) /\ (a \in At(i) \/ a = n) /\ k < j
    BY <1>2, <1>4
  <2> QED BY <1>1, <1>2, <2>1
<1>5. CASE i = k - 1 /\ j = k
  <2>1. b \in At(k) /\ n < b /\ (a \in At(k - 1) \/ a = n)
    BY <1>5
  <2> QED BY <1>1, <1>2, <2>1
<1>6. CASE j = k - 1
  <2>1. a \in At(i) /\ (b \in At(j) \/ b = n) /\ i < k
    BY <1>2, <1>6
  <2> QED BY <1>1, <1>2, <1>6, <2>1
<1> QED BY <1>3, <1>4, <1>5, <1>6

\* The line as a whole is of numbers that have been read.
LEMMA LineRead ==
  ASSUME IndInv, NumbersInv
  PROVE  /\ \A k \in 0 .. 7 : At(k) \subseteq 1 .. framesRead
         /\ \A k \in 1 .. 7 : At(k) \subseteq InFlight
<1>1. At(0) \subseteq 1 .. framesRead /\ InFlight \subseteq 1 .. framesRead
  BY AtParts DEF NumbersInv
<1>2. At(1) \subseteq InFlight /\ At(3) \subseteq InFlight
  BY AtParts DEF BatchesIn, InFlight, SlotCarriers, PostAt, InferAt, SlotBatchPcs, Worker
<1>3. At(2) \subseteq InFlight /\ At(4) \subseteq InFlight
  BY AtParts DEF BatchesIn, InFlight, SlotCarriers
<1>4. At(5) \subseteq InFlight
  BY AtParts DEF BatchesIn, InFlight, SlotCarriers, RawCarriers, PrepAt, SlotBatchPcs, Worker
<1>5. At(6) \subseteq InFlight /\ At(7) \subseteq InFlight
  BY AtParts DEF BatchesIn, InFlight, RawCarriers
<1>6. ASSUME NEW k \in 1 .. 7 PROVE At(k) \subseteq InFlight
  <2>1. k = 1 \/ k = 2 \/ k = 3 \/ k = 4 \/ k = 5 \/ k = 6 \/ k = 7
    OBVIOUS
  <2> QED BY <1>2, <1>3, <1>4, <1>5, <2>1
<1>7. ASSUME NEW k \in 0 .. 7 PROVE At(k) \subseteq 1 .. framesRead
  <2>1. k = 0 \/ k \in 1 .. 7
    OBVIOUS
  <2> QED BY <1>1, <1>6, <2>1
<1> QED BY <1>6, <1>7

\* A newly read frame joins the end of the line.
LEMMA LineGrows ==
  ASSUME IndInv, NumbersInv, LineOrder, At(7)' \subseteq {framesRead + 1},
         \A j \in 0 .. 6 : At(j)' \subseteq At(j)
  PROVE  LineOrder'
<1> SUFFICES ASSUME NEW i \in 0 .. 7, NEW j \in 0 .. 7, i < j, NEW a \in At(i)', NEW b \in At(j)'
             PROVE  a < b
  BY DEF LineOrder
<1>1. i \in 0 .. 6 /\ a \in At(i) /\ framesRead \in Nat
  BY DEF IndInv, TypeOK, IngestOK
<1>2. a \in 1 .. framesRead
  BY <1>1, LineRead
<1>3. CASE j = 7
  BY <1>1, <1>2, <1>3
<1>4. CASE j # 7
  <2>1. j \in 0 .. 6 /\ b \in At(j)
    BY <1>4
  <2> QED BY <1>1, <2>1 DEF LineOrder
<1> QED BY <1>3, <1>4

\* Queues stay sorted: what joins is greater than all in it, and what leaves
\* is the least.
LEMMA SortedPush ==
  ASSUME ChannelsOK, NEW c \in Channel, NEW x \in Items(c), PushTo(c, x), NEW num,
         Sorted(q[c], num), \A y \in Held(c) : num[y] < num[x]
  PROVE  Sorted(q'[c], num)
<1>1. q[c] \in Seq(Items(c)) /\ q'[c] = Append(q[c], x)
  BY DEF PushTo, ChannelsOK
<1>2. /\ DOMAIN q[c] = 1 .. Len(q[c]) /\ Len(q[c]) \in Nat
      /\ DOMAIN q'[c] = 1 .. Len(q[c]) + 1
      /\ \A i \in 1 .. Len(q[c]) : q'[c][i] = q[c][i] /\ q[c][i] \in Held(c)
      /\ q'[c][Len(q[c]) + 1] = x
  BY <1>1, LenProperties, AppendProperties DEF Held
<1> SUFFICES ASSUME NEW i \in DOMAIN q'[c], NEW j \in DOMAIN q'[c], i < j
             PROVE  num[q'[c][i]] < num[q'[c][j]]
  BY DEF Sorted
<1>3. i \in 1 .. Len(q[c])
  BY <1>2
<1>4. CASE j \in 1 .. Len(q[c])
  BY <1>2, <1>3, <1>4 DEF Sorted
<1>5. CASE j = Len(q[c]) + 1
  BY <1>2, <1>3, <1>5
<1> QED BY <1>2, <1>4, <1>5

LEMMA SortedPop ==
  ASSUME ChannelsOK, NEW c \in Channel, CanPop(c), PopFrom(c), NEW num, Sorted(q[c], num)
  PROVE  Sorted(q'[c], num) /\ \A y \in Held(c)' : num[Head(q[c])] < num[y]
<1>1. q[c] \in Seq(Items(c)) /\ q'[c] = Tail(q[c]) /\ q[c] # <<>>
  BY DEF PopFrom, CanPop, ChannelsOK
<1>2. /\ Len(q[c]) \in Nat \ {0} /\ DOMAIN q[c] = 1 .. Len(q[c]) /\ Head(q[c]) = q[c][1]
      /\ DOMAIN q'[c] = 1 .. Len(q[c]) - 1
      /\ \A i \in 1 .. Len(q[c]) - 1 : q'[c][i] = q[c][i + 1]
  BY <1>1, LenProperties, EmptySeq, HeadTailProperties
<1>3. \A i, j \in 1 .. Len(q[c]) : i < j => num[q[c][i]] < num[q[c][j]]
  BY <1>2 DEF Sorted
<1>4. ASSUME NEW i \in 1 .. Len(q[c]) - 1, NEW j \in 1 .. Len(q[c]) - 1, i < j
      PROVE  num[q'[c][i]] < num[q'[c][j]]
  <2>0. Len(q[c]) \in Nat
    BY <1>2
  <2>1. i + 1 \in 1 .. Len(q[c]) /\ j + 1 \in 1 .. Len(q[c]) /\ i + 1 < j + 1
    BY <1>4, <2>0
  <2>2. num[q[c][i + 1]] < num[q[c][j + 1]]
    BY <1>3, <2>1
  <2> QED BY <1>2, <2>2
<1>5. ASSUME NEW y \in Held(c)' PROVE num[Head(q[c])] < num[y]
  <2>1. PICK i \in 1 .. Len(q[c]) - 1 : y = q'[c][i]
    BY <1>2 DEF Held
  <2>2. y = q[c][i + 1] /\ i + 1 \in 1 .. Len(q[c]) /\ 1 \in 1 .. Len(q[c]) /\ 1 < i + 1
    BY <1>2, <2>1
  <2> QED BY <1>2, <1>3, <2>2
<1> QED BY <1>2, <1>4, <1>5 DEF Sorted

-----------------------------------------------------------------------------
(* The steps, with one thread in each stage.                                *)

PrepOf(w) == IF pc[w] \in {"retRaw", "pushPrep"} THEN {input[slot[w]]}
             ELSE IF pc[w] \in RawPcs THEN {strip[frame[w]]} ELSE {}
InferOf(w) == IF pc[w] \in {"run", "pushInf"} THEN {input[slot[w]]} ELSE {}
PostOf(w)  == IF pc[w] = "publish" THEN {input[slot[w]]} ELSE {}

\* What a stage has is what its thread has.
LEMMA OneStage ==
  ASSUME OneThreadEach
  PROVE  /\ \A w \in Prep : Prep = {w} /\ PrepAt = PrepOf(w) /\ PrepAt' = PrepOf(w)'
         /\ \A w \in Infer : Infer = {w} /\ InferAt = InferOf(w) /\ InferAt' = InferOf(w)'
         /\ \A w \in Post : Post = {w} /\ PostAt = PostOf(w) /\ PostAt' = PostOf(w)'
<1>1. /\ \E x : Prep = {x}
      /\ \E x : Infer = {x}
      /\ \E x : Post = {x}
  BY ThreadAssumption, FS_Singleton DEF OneThreadEach
<1>2. ASSUME NEW w \in Prep
      PROVE  Prep = {w} /\ PrepAt = PrepOf(w) /\ PrepAt' = PrepOf(w)'
  <2>1. Prep = {w}
    BY <1>1
  <2> QED BY <2>1 DEF PrepAt, PrepOf, RawPcs
<1>3. ASSUME NEW w \in Infer
      PROVE  Infer = {w} /\ InferAt = InferOf(w) /\ InferAt' = InferOf(w)'
  <2>1. Infer = {w}
    BY <1>1
  <2> QED BY <2>1 DEF InferAt, InferOf
<1>4. ASSUME NEW w \in Post
      PROVE  Post = {w} /\ PostAt = PostOf(w) /\ PostAt' = PostOf(w)'
  <2>1. Post = {w}
    BY <1>1
  <2> QED BY <2>1 DEF PostAt, PostOf
<1> QED BY <1>2, <1>3, <1>4

\* What the steps of a thread leave alone when no buffer is filled.
LEMMA OtherPlaces ==
  ASSUME IndInv, NEW w \in Worker,
         \A v \in Worker \ {w} : pc'[v] = pc[v] /\ slot'[v] = slot[v],
         \A v \in Prep \ {w} : frame'[v] = frame[v], UNCHANGED <<strip, input, inFrame>>
  PROVE  /\ w \notin Prep => At(5)' = At(5)
         /\ w \notin Infer => At(3)' = At(3)
         /\ w \notin Post => At(1)' = At(1)
         /\ q'["qRaw"] = q["qRaw"] => At(6)' = At(6)
         /\ q'["qPrep"] = q["qPrep"] => At(4)' = At(4)
         /\ q'["qInf"] = q["qInf"] => At(2)' = At(2)
         /\ At(7)' = At(7)
         /\ sunk' = sunk => At(0)' = At(0)
<1>1. w \notin Prep => PrepAt' = PrepAt
  BY DEF PrepAt, Worker
<1>2. w \notin Infer => InferAt' = InferAt
  BY DEF InferAt, Worker
<1>3. w \notin Post => PostAt' = PostAt
  BY DEF PostAt, Worker
<1>4. /\ q'["qRaw"] = q["qRaw"] => Held("qRaw")' = Held("qRaw")
      /\ q'["qPrep"] = q["qPrep"] => Held("qPrep")' = Held("qPrep")
      /\ q'["qInf"] = q["qInf"] => Held("qInf")' = Held("qInf")
  BY DEF Held
<1>5. sunk' = sunk => Published' = Published
  BY DEF Published
<1>6. /\ q'["qRaw"] = q["qRaw"] => At(6)' = At(6)
      /\ q'["qPrep"] = q["qPrep"] => At(4)' = At(4)
      /\ q'["qInf"] = q["qInf"] => At(2)' = At(2)
  BY <1>4, AtParts
<1>7. At(7)' = At(7)
  BY AtParts
<1> QED BY <1>1, <1>2, <1>3, <1>5, <1>6, <1>7, AtParts

\* A step that leaves the queues and the places as they are.
LEMMA LineStays ==
  ASSUME LineInv, UNCHANGED <<strip, input, sunk>>,
         q'["qRaw"] = q["qRaw"], q'["qPrep"] = q["qPrep"], q'["qInf"] = q["qInf"],
         At(1)' \subseteq At(1), At(3)' \subseteq At(3), At(5)' \subseteq At(5), At(7)' \subseteq At(7)
  PROVE  LineInv'
<1>1. Held("qRaw")' = Held("qRaw") /\ Held("qPrep")' = Held("qPrep") /\ Held("qInf")' = Held("qInf")
  BY DEF Held
<1>2. At(0)' = At(0) /\ At(2)' = At(2) /\ At(4)' = At(4) /\ At(6)' = At(6)
  <2>1. At(0)' = At(0)
    BY AtParts DEF Published
  <2>2. At(2)' = At(2) /\ At(4)' = At(4) /\ At(6)' = At(6)
    BY <1>1, AtParts
  <2> QED BY <2>1, <2>2
<1>3. ASSUME NEW j \in 0 .. 7 PROVE At(j)' \subseteq At(j)
  <2>1. j = 0 \/ j = 1 \/ j = 2 \/ j = 3 \/ j = 4 \/ j = 5 \/ j = 6 \/ j = 7
    OBVIOUS
  <2> QED BY <1>2, <2>1
<1>4. LineOrder'
  BY <1>3, LineShrinks DEF LineInv
<1> QED BY <1>4 DEF LineInv, QueuesSorted, Sorted, SunkInOrder

\* The thread takes the first of a queue.
LEMMA LinePop ==
  ASSUME IndInv, LineInv, NEW c \in {"qRaw", "qPrep", "qInf"}, CanPop(c), PopFrom(c),
         NEW k, k = (IF c = "qRaw" THEN 6 ELSE IF c = "qPrep" THEN 4 ELSE 2),
         UNCHANGED <<strip, input, sunk>>,
         At(k - 1)' \subseteq {IF c = "qRaw" THEN strip[Head(q[c])] ELSE input[Head(q[c])]},
         k # 6 => At(5)' = At(5), k # 4 => At(3)' = At(3), k # 2 => At(1)' = At(1), At(7)' = At(7)
  PROVE  LineInv'
<1> DEFINE num == IF c = "qRaw" THEN strip ELSE input
<1>1. /\ c \in Channel /\ ChannelsOK /\ k \in {2, 4, 6} /\ Sorted(q[c], num) /\ num' = num
      /\ At(k - 1)' \subseteq {num[Head(q[c])]}
  BY DEF Channel, IndInv, TypeOK, LineInv, QueuesSorted
<1>2. /\ Held(c) = Held(c)' \cup {Head(q[c])} /\ \A d \in Channel \ {c} : q'[d] = q[d]
  BY <1>1, HeldPop
<1> HIDE DEF num
<1>3. Sorted(q'[c], num) /\ \A y \in Held(c)' : num[Head(q[c])] < num[y]
  BY <1>1, SortedPop
<1>4. At(k) = BatchesIn(num, Held(c)) /\ At(k)' = BatchesIn(num, Held(c)')
  BY <1>1, AtParts DEF num
<1>5. \A d \in {"qRaw", "qPrep", "qInf"} \ {c} : q'[d] = q[d] /\ Held(d)' = Held(d)
  BY <1>2 DEF Held, Channel
<1>6. QueuesSorted' /\ SunkInOrder'
  BY <1>1, <1>3, <1>5 DEF LineInv, QueuesSorted, Sorted, SunkInOrder, num
<1>7. ASSUME NEW j \in 0 .. 7, j # k, j # k - 1 PROVE At(j)' \subseteq At(j)
  <2>1. CASE j = 0
    BY <2>1, AtParts DEF Published
  <2>2. CASE j \in {1, 3, 5, 7}
    BY <1>1, <1>7, <2>2
  <2>3. CASE j \in {2, 4, 6}
    BY <1>5, <1>7, <2>3, AtParts
  <2> QED BY <2>1, <2>2, <2>3
<1>8. LineOrder'
  <2>1. num[Head(q[c])] \in At(k) /\ \A m \in At(k)' : m \in At(k) /\ num[Head(q[c])] < m
    BY <1>2, <1>3, <1>4 DEF BatchesIn
  <2>2. k \in 1 .. 7 /\ At(k - 1)' \subseteq At(k - 1) \cup {num[Head(q[c])]}
    BY <1>1
  <2> QED BY <1>7, <2>1, <2>2, LineAdvances DEF LineInv
<1> QED BY <1>6, <1>8 DEF LineInv

\* The only thread of a stage, or the reader, puts its batch at the end of the
\* next queue.
LEMMA LinePush ==
  ASSUME IndInv, LineInv, NEW c \in {"qRaw", "qPrep", "qInf"}, NEW x \in Items(c), PushTo(c, x),
         NEW k, k = (IF c = "qRaw" THEN 7 ELSE IF c = "qPrep" THEN 5 ELSE 3),
         UNCHANGED <<strip, input, sunk>>,
         (IF c = "qRaw" THEN strip[x] ELSE input[x]) \in At(k), At(k)' = {},
         k # 7 => At(7)' = At(7), k # 5 => At(5)' = At(5), k # 3 => At(3)' = At(3), At(1)' = At(1)
  PROVE  LineInv'
<1> DEFINE num == IF c = "qRaw" THEN strip ELSE input
<1>1. /\ c \in Channel /\ ChannelsOK /\ k \in {3, 5, 7} /\ Sorted(q[c], num) /\ num' = num
      /\ num[x] \in At(k)
  BY DEF Channel, IndInv, TypeOK, LineInv, QueuesSorted
<1>2. /\ Held(c)' = Held(c) \cup {x} /\ \A d \in Channel \ {c} : q'[d] = q[d]
  BY <1>1, HeldPush
<1> HIDE DEF num
<1>3. At(k - 1) = BatchesIn(num, Held(c)) /\ At(k - 1)' = BatchesIn(num, Held(c)')
  BY <1>1, AtParts DEF num
<1>4. \A y \in Held(c) : num[y] < num[x]
  <2>1. k - 1 \in 0 .. 7 /\ k \in 0 .. 7 /\ k - 1 < k
    BY <1>1
  <2>2. \A m \in At(k - 1) : m < num[x]
    BY <1>1, <2>1 DEF LineInv, LineOrder
  <2> QED BY <1>3, <2>2 DEF BatchesIn
<1>5. Sorted(q'[c], num)
  BY <1>1, <1>4, SortedPush
<1>6. \A d \in {"qRaw", "qPrep", "qInf"} \ {c} : q'[d] = q[d] /\ Held(d)' = Held(d)
  BY <1>2 DEF Held, Channel
<1>7. QueuesSorted' /\ SunkInOrder'
  BY <1>1, <1>5, <1>6 DEF LineInv, QueuesSorted, Sorted, SunkInOrder, num
<1>8. ASSUME NEW j \in 0 .. 7, j # k, j # k - 1 PROVE At(j)' \subseteq At(j)
  <2>1. CASE j = 0
    BY <2>1, AtParts DEF Published
  <2>2. CASE j \in {1, 3, 5, 7}
    BY <1>1, <1>8, <2>2
  <2>3. CASE j \in {2, 4, 6}
    BY <1>6, <1>8, <2>3, AtParts
  <2> QED BY <2>1, <2>2, <2>3
<1>9. LineOrder'
  <2>1. k \in 1 .. 7 /\ At(k - 1)' \subseteq At(k - 1) \cup {num[x]}
    BY <1>1, <1>2, <1>3 DEF BatchesIn
  <2> QED BY <1>1, <1>8, <2>1, LineAdvances DEF LineInv
<1> QED BY <1>7, <1>9 DEF LineInv

\* A worker's move, seen by the other places.
LEMMA WorkerPlaces ==
  ASSUME IndInv, NEW w \in Worker, NEW l, GoTo(w, l), NEW s, slot' = [slot EXCEPT ![w] = s],
         \A v \in Prep \ {w} : frame'[v] = frame[v], UNCHANGED <<strip, input, inFrame>>
  PROVE  /\ pc'[w] = l /\ slot'[w] = s
         /\ w \notin Prep => At(5)' = At(5)
         /\ w \notin Infer => At(3)' = At(3)
         /\ w \notin Post => At(1)' = At(1)
         /\ At(7)' = At(7)
<1>1. pc'[w] = l /\ slot'[w] = s /\ \A v \in Worker \ {w} : pc'[v] = pc[v] /\ slot'[v] = slot[v]
  BY OthersStay, SlotSet
<1> QED BY <1>1, OtherPlaces

\* A worker that keeps to itself: its batch, if any, stays with it.
LEMMA LineWorkerStays ==
  ASSUME IndInv, LineInv, NEW w \in Worker, NEW l, GoTo(w, l), NEW s, slot' = [slot EXCEPT ![w] = s],
         \A v \in Prep \ {w} : frame'[v] = frame[v], UNCHANGED <<strip, input, inFrame, sunk>>,
         q'["qRaw"] = q["qRaw"], q'["qPrep"] = q["qPrep"], q'["qInf"] = q["qInf"],
         w \in Prep => At(5)' \subseteq At(5),
         w \in Infer => At(3)' \subseteq At(3),
         w \in Post => At(1)' \subseteq At(1)
  PROVE  LineInv'
<1>1. /\ w \notin Prep => At(5)' = At(5)
      /\ w \notin Infer => At(3)' = At(3)
      /\ w \notin Post => At(1)' = At(1)
      /\ At(7)' = At(7)
  BY WorkerPlaces
<1> QED BY <1>1, LineStays

\* The local `slot` of a thread that does not assign it.
LEMMA SlotUnassigned ==
  ASSUME IndInv, NEW w \in Worker, UNCHANGED slot
  PROVE  slot' = [slot EXCEPT ![w] = slot[w]]
BY DEF IndInv, TypeOK, SlotHeldOK

\* What a channel holds are buffers of its kind.
LEMMA HeldItems ==
  ASSUME ChannelsOK, NEW c \in Channel
  PROVE  Held(c) \subseteq Items(c)
<1>1. q[c] \in Seq(Items(c))
  BY DEF ChannelsOK
<1>2. \A i \in DOMAIN q[c] : q[c][i] \in Items(c)
  BY <1>1
<1> QED BY <1>2 DEF Held

\* PrepStage: the batch of its one thread is in its frame, later in its slot.
LEMMA PrepPopRawLine ==
  ASSUME IndInv, OneThreadEach, LineInv, NEW w \in Prep, PrepPopRaw(w)
  PROVE  LineInv'
<1>1. /\ w \in Worker /\ w \notin Infer /\ w \notin Post /\ pc[w] = "popRaw"
      /\ UNCHANGED <<slot, strip, input, inFrame, sunk>>
      /\ slot' = [slot EXCEPT ![w] = slot[w]]
  BY Kinds, SlotUnassigned DEF PrepPopRaw, slots, source, outcome
<1>2. At(5) = PrepOf(w) /\ At(5)' = PrepOf(w)'
  BY OneStage, AtParts
<1>3. CASE PopRefused("qRaw") /\ GoTo(w, "done") /\ UNCHANGED <<q, frame>>
  <2>1. pc'[w] = "done"
    BY <1>1, <1>3, OthersStay
  <2>2. At(5)' = {}
    BY <1>2, <2>1 DEF PrepOf, RawPcs
  <2> QED BY <1>1, <1>3, <2>2, LineWorkerStays
<1>4. CASE /\ CanPop("qRaw") /\ PopFrom("qRaw") /\ GoTo(w, "popSlot")
           /\ frame' = [frame EXCEPT ![w] = Head(q["qRaw"])]
  <2>1. frame'[w] = Head(q["qRaw"]) /\ \A v \in Prep \ {w} : frame'[v] = frame[v]
    BY <1>4, FrameSet
  <2>2. /\ pc'[w] = "popSlot" /\ At(3)' = At(3) /\ At(1)' = At(1) /\ At(7)' = At(7)
    <3>1. pc'[w] = "popSlot" /\ \A v \in Worker \ {w} : pc'[v] = pc[v]
      BY <1>1, <1>4, OthersStay
    <3> QED BY <1>1, <2>1, <3>1, OtherPlaces
  <2>3. At(6 - 1)' \subseteq {strip[Head(q["qRaw"])]}
    BY <1>1, <1>2, <2>1, <2>2 DEF PrepOf, RawPcs
  <2> QED BY <1>1, <1>4, <2>2, <2>3, LinePop
<1> QED BY <1>3, <1>4 DEF PrepPopRaw

LEMMA PrepPopSlotLine ==
  ASSUME IndInv, OneThreadEach, LineInv, NEW w \in Prep, PrepPopSlot(w)
  PROVE  LineInv'
<1>1. /\ w \in Worker /\ w \notin Infer /\ w \notin Post /\ pc[w] = "popSlot"
      /\ UNCHANGED <<frame, strip, input, inFrame, sunk>>
      /\ q'["qRaw"] = q["qRaw"] /\ q'["qPrep"] = q["qPrep"] /\ q'["qInf"] = q["qInf"]
  BY Kinds, OneChannel DEF PrepPopSlot, frames, source, outcome, IndInv, TypeOK, Channel
<1>2. PICK l \in {"fill", "dropRaw"}, s \in Nat : GoTo(w, l) /\ slot' = [slot EXCEPT ![w] = s]
  <2>1. CASE PopRefused("slotPool") /\ GoTo(w, "dropRaw") /\ UNCHANGED <<q, slot>>
    <3>1. slot' = [slot EXCEPT ![w] = slot[w]] /\ slot[w] \in Nat
      BY <1>1, <2>1, SlotUnassigned DEF IndInv, TypeOK, SlotHeldOK, Slot
    <3> QED BY <2>1, <3>1
  <2>2. CASE /\ CanPop("slotPool") /\ GoTo(w, "fill") /\ PopFrom("slotPool")
             /\ slot' = [slot EXCEPT ![w] = Head(q["slotPool"])]
    <3>1. Head(q["slotPool"]) \in Nat
      BY <2>2, PopType DEF IndInv, TypeOK, Channel, Items, Slot
    <3> QED BY <2>2, <3>1
  <2> QED BY <2>1, <2>2 DEF PrepPopSlot
<1>3. At(5) = PrepOf(w) /\ At(5)' = PrepOf(w)'
  BY OneStage, AtParts
<1>4. pc'[w] = l
  BY <1>1, <1>2, OthersStay
<1>5. At(5)' \subseteq At(5)
  BY <1>1, <1>2, <1>3, <1>4 DEF PrepOf, RawPcs
<1> QED BY <1>1, <1>2, <1>5, LineWorkerStays

LEMMA PrepReturnRawLine ==
  ASSUME IndInv, OneThreadEach, LineInv, NEW w \in Prep, PrepReturnRaw(w)
  PROVE  LineInv'
<1>1. /\ w \in Worker /\ w \notin Infer /\ w \notin Post /\ pc[w] \in {"retRaw", "dropRaw"}
      /\ UNCHANGED <<slot, strip, input, inFrame, sunk>>
      /\ slot' = [slot EXCEPT ![w] = slot[w]]
      /\ \A v \in Prep \ {w} : frame'[v] = frame[v]
  BY Kinds, SlotUnassigned, FrameSet DEF PrepReturnRaw, slots, source, outcome
<1>2. q'["qRaw"] = q["qRaw"] /\ q'["qPrep"] = q["qPrep"] /\ q'["qInf"] = q["qInf"]
  BY OneChannel DEF PrepReturnRaw, IndInv, TypeOK, Channel
<1> DEFINE l == IF pc[w] = "retRaw" THEN "pushPrep" ELSE "done"
<1>3. GoTo(w, l) /\ pc'[w] = l
  BY <1>1, OthersStay DEF PrepReturnRaw
<1>4. At(5) = PrepOf(w) /\ At(5)' = PrepOf(w)'
  BY OneStage, AtParts
<1>5. At(5)' \subseteq At(5)
  BY <1>1, <1>3, <1>4 DEF PrepOf, RawPcs
<1> QED BY <1>1, <1>2, <1>3, <1>5, LineWorkerStays

\* A batch goes from the frame of the prep thread to its slot.
LEMMA PrepFillLine ==
  ASSUME IndInv, FramesOwnedOnce, SlotsOwnedOnce, OneThreadEach, LineInv, NEW w \in Prep, PrepFill(w)
  PROVE  LineInv'
<1>1. /\ w \in Worker /\ w \notin Infer /\ w \notin Post /\ pc[w] = "fill" /\ GoTo(w, "retRaw")
      /\ UNCHANGED <<q, slot, strip, frame, inFrame, sunk>>
      /\ input' = [input EXCEPT ![slot[w]] = strip[frame[w]]]
  BY Kinds DEF PrepFill, frames, source, outcome
<1>2. slot[w] \in Slot
  BY <1>1, HeldSlot DEF SlotPcs
<1>3. /\ slot[w] \notin Held("qPrep") /\ slot[w] \notin Held("qInf")
      /\ \A v \in Worker \ {w} : slot[v] # slot[w]
  BY <1>1, <1>2, SlotAlone
<1>4. pc'[w] = "retRaw" /\ \A v \in Worker \ {w} : pc'[v] = pc[v]
  BY <1>1, OthersStay
<1>5. input'[slot[w]] = strip[frame[w]] /\ \A s \in Slot \ {slot[w]} : input'[s] = input[s]
  BY <1>1, <1>2 DEF IndInv, TypeOK, DataOK
<1>6. At(5)' = At(5)
  <2>1. PrepOf(w)' = PrepOf(w)
    BY <1>1, <1>4, <1>5 DEF PrepOf, RawPcs
  <2> QED BY <2>1, OneStage, AtParts
<1>7. At(1)' = At(1) /\ At(3)' = At(3)
  <2>1. \A v \in Worker \ {w} : pc[v] \in SlotPcs => input'[slot'[v]] = input[slot[v]]
    BY <1>1, <1>3, <1>5, HeldSlot
  <2>2. \A v \in Infer : InferOf(v)' = InferOf(v)
    BY <1>1, <1>4, <2>1, Kinds DEF InferOf, SlotPcs
  <2>3. \A v \in Post : PostOf(v)' = PostOf(v)
    BY <1>1, <1>4, <2>1, Kinds DEF PostOf, SlotPcs
  <2> QED BY <2>2, <2>3, OneStage, AtParts, ThreadAssumption
<1>8. \A s \in Held("qPrep") \cup Held("qInf") : input'[s] = input[s]
  <2>1. Held("qPrep") \subseteq Slot /\ Held("qInf") \subseteq Slot
    BY HeldItems DEF IndInv, TypeOK, Channel, Items
  <2> QED BY <1>3, <1>5, <2>1
<1>9. Held("qPrep")' = Held("qPrep") /\ Held("qInf")' = Held("qInf") /\ Held("qRaw")' = Held("qRaw")
  BY <1>1 DEF Held
<1>10. At(2)' = At(2) /\ At(4)' = At(4)
  <2>1. /\ BatchesIn(input', Held("qInf")) = BatchesIn(input, Held("qInf"))
        /\ BatchesIn(input', Held("qPrep")) = BatchesIn(input, Held("qPrep"))
    BY <1>8 DEF BatchesIn
  <2> QED BY <1>9, <2>1, AtParts
<1>11. At(6)' = At(6) /\ At(7)' = At(7) /\ At(0)' = At(0)
  BY <1>1, <1>9, AtParts DEF Published
<1>12. LineOrder'
  <2>1. ASSUME NEW j \in 0 .. 7 PROVE At(j)' \subseteq At(j)
    <3>1. j = 0 \/ j = 1 \/ j = 2 \/ j = 3 \/ j = 4 \/ j = 5 \/ j = 6 \/ j = 7
      OBVIOUS
    <3> QED BY <1>6, <1>7, <1>10, <1>11, <3>1
  <2> QED BY <2>1, LineShrinks DEF LineInv
<1>13. QueuesSorted'
  <2>1. /\ \A i \in DOMAIN q["qPrep"] : input'[q["qPrep"][i]] = input[q["qPrep"][i]]
        /\ \A i \in DOMAIN q["qInf"] : input'[q["qInf"][i]] = input[q["qInf"][i]]
    BY <1>8 DEF Held
  <2>2. Sorted(q["qPrep"], input') /\ Sorted(q["qInf"], input') /\ Sorted(q["qRaw"], strip)
    BY <2>1 DEF LineInv, QueuesSorted, Sorted
  <2> QED BY <1>1, <2>2 DEF QueuesSorted, Sorted
<1> QED BY <1>1, <1>12, <1>13 DEF LineInv, SunkInOrder

\* Its push: the batch goes to the end of qPrep, or is lost.
LEMMA PrepPushLine ==
  ASSUME IndInv, OneThreadEach, LineInv, NEW w \in Prep, PrepPush(w)
  PROVE  LineInv'
<1>1. /\ w \in Worker /\ w \notin Infer /\ w \notin Post /\ pc[w] = "pushPrep"
      /\ UNCHANGED <<frame, strip, input, inFrame, sunk>> /\ slot[w] \in Slot
  BY Kinds, HeldSlot DEF PrepPush, frames, source, outcome, SlotPcs
<1>2. At(5) = PrepOf(w) /\ At(5)' = PrepOf(w)'
  BY OneStage, AtParts
<1>3. CASE stopped["qPrep"] /\ GoTo(w, "dropSlot") /\ UNCHANGED <<q, slot>>
  <2>1. pc'[w] = "dropSlot" /\ slot' = [slot EXCEPT ![w] = slot[w]]
    BY <1>1, <1>3, OthersStay, SlotUnassigned
  <2>2. At(5)' = {}
    BY <1>2, <2>1 DEF PrepOf, RawPcs
  <2> QED BY <1>1, <1>3, <2>1, <2>2, LineWorkerStays
<1>4. CASE /\ PushTo("qPrep", slot[w]) /\ GoTo(w, "popRaw") /\ slot' = [slot EXCEPT ![w] = 0]
  <2>1. /\ pc'[w] = "popRaw" /\ \A v \in Worker \ {w} : pc'[v] = pc[v] /\ slot'[v] = slot[v]
    BY <1>1, <1>4, OthersStay, SlotSet
  <2>2. At(3)' = At(3) /\ At(1)' = At(1) /\ At(7)' = At(7)
    BY <1>1, <2>1, OtherPlaces
  <2>3. At(5)' = {} /\ input[slot[w]] \in At(5) /\ slot[w] \in Items("qPrep")
    BY <1>1, <1>2, <2>1 DEF PrepOf, RawPcs, Items
  <2> QED BY <1>1, <1>4, <2>2, <2>3, LinePush
<1> QED BY <1>3, <1>4 DEF PrepPush

\* A slot that is given up carries no batch.
LEMMA DropSlotLine ==
  ASSUME IndInv, OneThreadEach, LineInv, NEW w \in Worker, DropSlot(w)
  PROVE  LineInv'
<1>1. /\ pc[w] \in {"dropSlot", "giveUp"} /\ UNCHANGED <<frame, strip, input, inFrame, sunk>>
      /\ slot' = [slot EXCEPT ![w] = 0]
  BY DEF DropSlot, frames, source, outcome
<1>2. q'["qRaw"] = q["qRaw"] /\ q'["qPrep"] = q["qPrep"] /\ q'["qInf"] = q["qInf"]
  BY OneChannel DEF DropSlot, IndInv, TypeOK, Channel
<1> DEFINE l == IF pc[w] = "giveUp" THEN "popPrep" ELSE "done"
<1>3. GoTo(w, l) /\ pc'[w] = l
  BY <1>1, OthersStay DEF DropSlot
<1>4. w \in Prep => At(5)' \subseteq At(5)
  <2>1. w \in Prep => At(5)' = PrepOf(w)'
    BY OneStage, AtParts
  <2> QED BY <1>3, <2>1 DEF PrepOf, RawPcs
<1>5. w \in Infer => At(3)' \subseteq At(3)
  <2>1. w \in Infer => At(3)' = InferOf(w)'
    BY OneStage, AtParts
  <2> QED BY <1>3, <2>1 DEF InferOf
<1>6. w \in Post => At(1)' \subseteq At(1)
  <2>1. w \in Post => At(1)' = PostOf(w)'
    BY OneStage, AtParts
  <2> QED BY <1>3, <2>1 DEF PostOf
<1> QED BY <1>1, <1>2, <1>3, <1>4, <1>5, <1>6, LineWorkerStays

\* InferStage.
LEMMA InferPopLine ==
  ASSUME IndInv, OneThreadEach, LineInv, NEW w \in Infer, InferPop(w)
  PROVE  LineInv'
<1>1. /\ w \in Worker /\ w \notin Prep /\ w \notin Post /\ pc[w] = "popPrep"
      /\ UNCHANGED <<frame, strip, input, inFrame, sunk>>
  BY Kinds DEF InferPop, frames, source, outcome
<1>2. At(3) = InferOf(w) /\ At(3)' = InferOf(w)'
  BY OneStage, AtParts
<1>3. CASE PopRefused("qPrep") /\ GoTo(w, "done") /\ UNCHANGED <<q, slot>>
  <2>1. pc'[w] = "done" /\ slot' = [slot EXCEPT ![w] = slot[w]]
    BY <1>1, <1>3, OthersStay, SlotUnassigned
  <2>2. At(3)' = {}
    BY <1>2, <2>1 DEF InferOf
  <2> QED BY <1>1, <1>3, <2>1, <2>2, LineWorkerStays
<1>4. CASE /\ CanPop("qPrep") /\ PopFrom("qPrep") /\ GoTo(w, "run")
           /\ slot' = [slot EXCEPT ![w] = Head(q["qPrep"])]
  <2>1. /\ pc'[w] = "run" /\ slot'[w] = Head(q["qPrep"])
        /\ \A v \in Worker \ {w} : pc'[v] = pc[v] /\ slot'[v] = slot[v]
    BY <1>1, <1>4, OthersStay, SlotSet
  <2>2. At(5)' = At(5) /\ At(1)' = At(1) /\ At(7)' = At(7)
    BY <1>1, <2>1, OtherPlaces
  <2>3. At(4 - 1)' \subseteq {input[Head(q["qPrep"])]}
    BY <1>1, <1>2, <2>1 DEF InferOf
  <2> QED BY <1>1, <1>4, <2>2, <2>3, LinePop
<1> QED BY <1>3, <1>4 DEF InferPop

LEMMA InferRunLine ==
  ASSUME IndInv, OneThreadEach, LineInv, NEW w \in Infer, InferRun(w)
  PROVE  LineInv'
<1>1. /\ w \in Worker /\ w \notin Prep /\ w \notin Post /\ pc[w] = "run"
      /\ UNCHANGED <<q, slot, frame, strip, input, inFrame, sunk>>
      /\ slot' = [slot EXCEPT ![w] = slot[w]]
  BY Kinds, SlotUnassigned DEF InferRun, frames, source
<1>2. PICK l \in {"pushInf", "giveUp"} : GoTo(w, l)
  BY DEF InferRun
<1>3. At(3)' \subseteq At(3)
  <2>1. At(3) = InferOf(w) /\ At(3)' = InferOf(w)'
    BY OneStage, AtParts
  <2>2. pc'[w] = l
    BY <1>1, <1>2, OthersStay
  <2> QED BY <1>1, <2>1, <2>2 DEF InferOf
<1> QED BY <1>1, <1>2, <1>3, LineWorkerStays

LEMMA InferPushLine ==
  ASSUME IndInv, OneThreadEach, LineInv, NEW w \in Infer, InferPush(w)
  PROVE  LineInv'
<1>1. /\ w \in Worker /\ w \notin Prep /\ w \notin Post /\ pc[w] = "pushInf"
      /\ UNCHANGED <<frame, strip, input, inFrame, sunk>> /\ slot[w] \in Slot
  BY Kinds, HeldSlot DEF InferPush, frames, source, outcome, SlotPcs
<1>2. At(3) = InferOf(w) /\ At(3)' = InferOf(w)'
  BY OneStage, AtParts
<1>3. CASE stopped["qInf"] /\ GoTo(w, "dropSlot") /\ UNCHANGED <<q, slot>>
  <2>1. pc'[w] = "dropSlot" /\ slot' = [slot EXCEPT ![w] = slot[w]]
    BY <1>1, <1>3, OthersStay, SlotUnassigned
  <2>2. At(3)' = {}
    BY <1>2, <2>1 DEF InferOf
  <2> QED BY <1>1, <1>3, <2>1, <2>2, LineWorkerStays
<1>4. CASE PushTo("qInf", slot[w]) /\ GoTo(w, "popPrep") /\ slot' = [slot EXCEPT ![w] = 0]
  <2>1. /\ pc'[w] = "popPrep" /\ \A v \in Worker \ {w} : pc'[v] = pc[v] /\ slot'[v] = slot[v]
    BY <1>1, <1>4, OthersStay, SlotSet
  <2>2. At(5)' = At(5) /\ At(1)' = At(1) /\ At(7)' = At(7)
    BY <1>1, <2>1, OtherPlaces
  <2>3. At(3)' = {} /\ input[slot[w]] \in At(3) /\ slot[w] \in Items("qInf")
    BY <1>1, <1>2, <2>1 DEF InferOf, Items
  <2> QED BY <1>1, <1>4, <2>2, <2>3, LinePush
<1> QED BY <1>3, <1>4 DEF InferPush

\* PostStage.
LEMMA PostPopLine ==
  ASSUME IndInv, OneThreadEach, LineInv, NEW w \in Post, PostPop(w)
  PROVE  LineInv'
<1>1. /\ w \in Worker /\ w \notin Prep /\ w \notin Infer /\ pc[w] = "popInf"
      /\ UNCHANGED <<frame, strip, input, inFrame, sunk>>
  BY Kinds DEF PostPop, frames, source, outcome
<1>2. At(1) = PostOf(w) /\ At(1)' = PostOf(w)'
  BY OneStage, AtParts
<1>3. CASE PopRefused("qInf") /\ GoTo(w, "done") /\ UNCHANGED <<q, slot>>
  <2>1. pc'[w] = "done" /\ slot' = [slot EXCEPT ![w] = slot[w]]
    BY <1>1, <1>3, OthersStay, SlotUnassigned
  <2>2. At(1)' = {}
    BY <1>2, <2>1 DEF PostOf
  <2> QED BY <1>1, <1>3, <2>1, <2>2, LineWorkerStays
<1>4. CASE /\ CanPop("qInf") /\ PopFrom("qInf") /\ GoTo(w, "publish")
           /\ slot' = [slot EXCEPT ![w] = Head(q["qInf"])]
  <2>1. /\ pc'[w] = "publish" /\ slot'[w] = Head(q["qInf"])
        /\ \A v \in Worker \ {w} : pc'[v] = pc[v] /\ slot'[v] = slot[v]
    BY <1>1, <1>4, OthersStay, SlotSet
  <2>2. At(5)' = At(5) /\ At(3)' = At(3) /\ At(7)' = At(7)
    BY <1>1, <2>1, OtherPlaces
  <2>3. At(2 - 1)' \subseteq {input[Head(q["qInf"])]}
    BY <1>1, <1>2, <2>1 DEF PostOf
  <2> QED BY <1>1, <1>4, <2>2, <2>3, LinePop
<1> QED BY <1>3, <1>4 DEF PostPop

\* The first of the line reaches the sink, which has only older ones.
LEMMA PostPublishLine ==
  ASSUME IndInv, SlotsOwnedOnce, ScoresFresh, OneThreadEach, LineInv, NEW w \in Post, PostPublish(w)
  PROVE  LineInv'
<1> DEFINE n == input[slot[w]]
<1>1. /\ w \in Worker /\ w \notin Prep /\ w \notin Infer /\ pc[w] = "publish" /\ GoTo(w, "release")
      /\ UNCHANGED <<q, slot, frame, strip, input, inFrame>>
  BY Kinds DEF PostPublish, frames, slots, source
<1>2. sunk' = Append(sunk, [seq |-> n, scores |-> n])
  BY <1>1, PublishSettles DEF PublishedFrom
<1>3. /\ Published' = Published \cup {n}
      /\ DOMAIN sunk' = DOMAIN sunk \cup {Len(sunk) + 1} /\ DOMAIN sunk = 1 .. Len(sunk) /\ Len(sunk) \in Nat
      /\ \A i \in DOMAIN sunk : sunk'[i] = sunk[i]
      /\ sunk'[Len(sunk) + 1] = [seq |-> n, scores |-> n]
  BY <1>2, PublishedAppend, LenProperties DEF IndInv, TypeOK, DataOK
<1>4. pc'[w] = "release" /\ \A v \in Worker \ {w} : pc'[v] = pc[v] /\ slot'[v] = slot[v]
  BY <1>1, OthersStay
<1>5. At(1) = {n} /\ At(1)' = {}
  <2>1. At(1) = PostOf(w) /\ At(1)' = PostOf(w)'
    BY OneStage, AtParts
  <2> QED BY <1>1, <1>4, <2>1 DEF PostOf
<1>6. /\ At(5)' = At(5) /\ At(3)' = At(3) /\ At(7)' = At(7)
      /\ At(6)' = At(6) /\ At(4)' = At(4) /\ At(2)' = At(2)
  BY <1>1, <1>4, OtherPlaces
<1>7. At(0) = Published /\ At(0)' = At(0) \cup {n}
  BY <1>3, AtParts
<1>8. LineOrder'
  <2>1. ASSUME NEW j \in 0 .. 7, j # 1, j # 0 PROVE At(j)' \subseteq At(j)
    <3>1. j = 2 \/ j = 3 \/ j = 4 \/ j = 5 \/ j = 6 \/ j = 7
      BY <2>1
    <3> QED BY <1>6, <3>1
  <2>2. At(1 - 1)' \subseteq At(1 - 1) \cup {n} /\ n \in At(1) /\ 1 \in 1 .. 7 /\ 1 - 1 = 0
    BY <1>5, <1>7
  <2> HIDE DEF n
  <2> QED BY <1>5, <2>1, <2>2, LineAdvances DEF LineInv
<1>9. SunkInOrder'
  <2>1. \A m \in Published : m < n
    BY <1>5, <1>7 DEF LineInv, LineOrder
  <2>2. \A i \in DOMAIN sunk : sunk[i].seq < n
    BY <2>1 DEF Published
  <2> SUFFICES ASSUME NEW i \in DOMAIN sunk', NEW j \in DOMAIN sunk', i < j
               PROVE  sunk'[i].seq < sunk'[j].seq
    BY DEF SunkInOrder
  <2>3. i \in DOMAIN sunk
    BY <1>3
  <2>4. CASE j \in DOMAIN sunk
    BY <1>3, <2>3, <2>4 DEF LineInv, SunkInOrder
  <2>5. CASE j = Len(sunk) + 1
    BY <1>3, <2>2, <2>3, <2>5
  <2> QED BY <1>3, <2>4, <2>5
<1>10. QueuesSorted'
  BY <1>1 DEF LineInv, QueuesSorted, Sorted
<1> QED BY <1>8, <1>9, <1>10 DEF LineInv

LEMMA PostReleaseLine ==
  ASSUME IndInv, OneThreadEach, LineInv, NEW w \in Post, PostRelease(w)
  PROVE  LineInv'
<1>1. /\ w \in Worker /\ w \notin Prep /\ w \notin Infer /\ GoTo(w, "popInf")
      /\ UNCHANGED <<frame, strip, input, inFrame, sunk>> /\ slot' = [slot EXCEPT ![w] = 0]
  BY Kinds DEF PostRelease, frames, source
<1>2. q'["qRaw"] = q["qRaw"] /\ q'["qPrep"] = q["qPrep"] /\ q'["qInf"] = q["qInf"]
  BY OneChannel DEF PostRelease, IndInv, TypeOK, Channel
<1>3. At(1)' = {}
  <2>1. At(1)' = PostOf(w)' /\ pc'[w] = "popInf"
    BY <1>1, OneStage, AtParts, OthersStay
  <2> QED BY <2>1 DEF PostOf
<1> QED BY <1>1, <1>2, <1>3, LineWorkerStays

\* Any step of a stage thread.
LEMMA WorkerLine ==
  ASSUME IndInv, FramesOwnedOnce, SlotsOwnedOnce, ScoresFresh, OneThreadEach, LineInv,
         NEW w \in Worker, Step(w)
  PROVE  LineInv'
<1>1. CASE DropSlot(w)
  BY <1>1, DropSlotLine
<1>2. CASE w \in Prep
  <2>1. PrepPopRaw(w) \/ PrepPopSlot(w) \/ PrepFill(w) \/ PrepReturnRaw(w) \/ PrepPush(w) \/ DropSlot(w)
    BY <1>2, Kinds DEF Step
  <2> QED BY <1>1, <1>2, <2>1, PrepPopRawLine, PrepPopSlotLine, PrepFillLine, PrepReturnRawLine,
             PrepPushLine
<1>3. CASE w \in Infer
  <2>1. InferPop(w) \/ InferRun(w) \/ InferPush(w) \/ DropSlot(w)
    BY <1>3, Kinds DEF Step
  <2> QED BY <1>1, <1>3, <2>1, InferPopLine, InferRunLine, InferPushLine
<1>4. CASE w \in Post
  <2>1. PostPop(w) \/ PostPublish(w) \/ PostRelease(w)
    BY <1>4, Kinds DEF Step
  <2> QED BY <1>4, <2>1, PostPopLine, PostPublishLine, PostReleaseLine
<1> QED BY <1>2, <1>3, <1>4 DEF Worker

\* Steps that move no stage thread.
LEMMA StagesStay ==
  /\ UNCHANGED <<pc, slot, input>> => At(1)' = At(1) /\ At(3)' = At(3)
  /\ UNCHANGED <<pc, slot, input, frame, strip>> => At(5)' = At(5)
<1>1. UNCHANGED <<pc, slot, input>> => PostAt' = PostAt
  BY DEF PostAt
<1>2. UNCHANGED <<pc, slot, input>> => InferAt' = InferAt
  BY DEF InferAt
<1>3. UNCHANGED <<pc, slot, input, frame, strip>> => PrepAt' = PrepAt
  BY DEF PrepAt
<1> QED BY <1>1, <1>2, <1>3, AtParts

\* The reader: a frame from the pool is new, and goes to the end of qRaw.
LEMMA IngestLine ==
  ASSUME IndInv, FramesOwnedOnce, NumbersInv, LineInv, IngestStep
  PROVE  LineInv'
<1>1. CASE IngestTakes
  <2> DEFINE f == Head(q["rawPool"])
  <2>1. /\ UNCHANGED <<pc, frame, slot, input, sunk>> /\ inFrame' = f
        /\ strip' = [strip EXCEPT ![f] = framesRead + 1]
    BY <1>1 DEF IngestTakes, slots, outcome
  <2>2. f \in Frame /\ f \in Held("rawPool")
        /\ q'["qRaw"] = q["qRaw"] /\ q'["qPrep"] = q["qPrep"] /\ q'["qInf"] = q["qInf"]
    <3>1. ChannelsOK /\ CanPop("rawPool") /\ PopFrom("rawPool") /\ "rawPool" \in Channel
          /\ Items("rawPool") = Frame
      BY <1>1 DEF IngestTakes, IndInv, TypeOK, Channel, Items
    <3> QED BY <3>1, HeldPop DEF Channel
  <2>3. f \notin Held("qRaw") /\ \A v \in Prep : frame[v] # f
    BY <2>2, FrameAlone
  <2>4. strip'[f] = framesRead + 1 /\ \A g \in Frame \ {f} : strip'[g] = strip[g]
    BY <2>1, <2>2 DEF IndInv, TypeOK, DataOK
  <2> HIDE DEF f
  <2>5. Held("qRaw")' = Held("qRaw") /\ Held("qPrep")' = Held("qPrep") /\ Held("qInf")' = Held("qInf")
    BY <2>2 DEF Held
  <2>6. At(0)' = At(0) /\ At(1)' = At(1) /\ At(2)' = At(2) /\ At(3)' = At(3) /\ At(4)' = At(4)
    <3>1. Published' = Published
      BY <2>1 DEF Published
    <3> QED BY <2>1, <2>5, <3>1, AtParts, StagesStay
  <2>7. At(5)' = At(5)
    <3>1. \A v \in Prep : pc[v] \in RawPcs => strip'[frame[v]] = strip[frame[v]]
      <4>1. \A v \in Prep : pc[v] \in RawPcs => frame[v] \in Frame
        BY DEF RawPcs, FramePcs, FrameHolders, IndInv, TypeOK, FrameHeldOK
      <4> QED BY <2>3, <2>4, <4>1
    <3>2. PrepAt' = PrepAt
      BY <2>1, <3>1 DEF PrepAt
    <3> QED BY <3>2, AtParts
  <2>8. \A g \in Held("qRaw") : strip'[g] = strip[g]
    <3>1. Held("qRaw") \subseteq Frame
      BY HeldItems DEF IndInv, TypeOK, Channel, Items
    <3> QED BY <2>3, <2>4, <3>1
  <2>9. At(6)' = At(6)
    <3>1. BatchesIn(strip', Held("qRaw")) = BatchesIn(strip, Held("qRaw"))
      BY <2>8 DEF BatchesIn
    <3> QED BY <2>5, <3>1, AtParts
  <2>10. At(7)' \subseteq {framesRead + 1}
    BY <2>1, <2>4, AtParts DEF BatchesIn
  <2>11. LineOrder'
    <3>1. ASSUME NEW j \in 0 .. 6 PROVE At(j)' \subseteq At(j)
      <4>1. j = 0 \/ j = 1 \/ j = 2 \/ j = 3 \/ j = 4 \/ j = 5 \/ j = 6
        OBVIOUS
      <4> QED BY <2>6, <2>7, <2>9, <4>1
    <3> QED BY <2>10, <3>1, LineGrows DEF LineInv
  <2>12. QueuesSorted'
    <3>1. \A i \in DOMAIN q["qRaw"] : strip'[q["qRaw"][i]] = strip[q["qRaw"][i]]
      BY <2>8 DEF Held
    <3>2. Sorted(q["qRaw"], strip')
      BY <3>1 DEF LineInv, QueuesSorted, Sorted
    <3> QED BY <2>1, <2>2, <3>2 DEF LineInv, QueuesSorted, Sorted
  <2> QED BY <2>1, <2>11, <2>12 DEF LineInv, SunkInOrder
<1>2. CASE IngestPushes
  <2>1. /\ UNCHANGED <<pc, frame, slot, strip, input, sunk>> /\ inFrame' = 0 /\ ingest = "push"
    BY <1>2 DEF IngestPushes, frames, slots, outcome
  <2>2. CanPush("qRaw") /\ PushTo("qRaw", inFrame) /\ inFrame \in Frame
    BY <1>2, <2>1, ReaderPush DEF IngestPushes, IndInv, TypeOK, IngestOK
  <2>3. At(1)' = At(1) /\ At(3)' = At(3) /\ At(5)' = At(5)
    BY <2>1, StagesStay
  <2>4. At(7)' = {} /\ strip[inFrame] \in At(7) /\ inFrame \in Items("qRaw")
    BY <2>1, <2>2, AtParts DEF BatchesIn, Items, Frame
  <2> QED BY <2>1, <2>2, <2>3, <2>4, LinePush
<1>3. CASE IngestStops \/ IngestSees \/ IngestBreaks \/ IngestDrops
  <2>1. UNCHANGED <<q, pc, frame, slot, strip, input, inFrame, sunk>>
    BY <1>3 DEF IngestStops, IngestSees, IngestBreaks, IngestDrops, frames, slots, outcome
  <2>2. At(1)' = At(1) /\ At(3)' = At(3) /\ At(5)' = At(5) /\ At(7)' = At(7)
    BY <2>1, StagesStay, AtParts
  <2> QED BY <2>1, <2>2, LineStays
<1> QED BY <1>1, <1>2, <1>3 DEF IngestStep

\* The main thread moves no batch.
LEMMA MainLine ==
  ASSUME IndInv, LineInv, MainStep \/ Keys \/ Gone \/ UNCHANGED vars
  PROVE  LineInv'
<1>1. UNCHANGED <<q, frame, slot, strip, input, inFrame, sunk>>
  BY DEF MainStep, Keys, Gone, vars, Spawn, Ready, ReapIngest, KeyS, KeyX, KeyQ, JoinIngest,
     DrainStop, DrainJoin, DrainPools, Return, AbortStop, AbortJoin, frames, slots, source, outcome
<1>2. \A v \in Worker : pc'[v] = pc[v] \/ (pc[v] = "unborn" /\ pc'[v] = FirstPc(v))
  <2>1. ASSUME NEW w \in Worker, Spawn(w)
        PROVE  \A v \in Worker : pc'[v] = pc[v] \/ (pc[v] = "unborn" /\ pc'[v] = FirstPc(v))
    BY <2>1 DEF Spawn, GoTo, IndInv, TypeOK, PcOK
  <2>2. CASE ~\E w \in Worker : Spawn(w)
    BY <2>2 DEF MainStep, Keys, Gone, vars, Ready, ReapIngest, KeyS, KeyX, KeyQ, JoinIngest,
       DrainStop, DrainJoin, DrainPools, Return, AbortStop, AbortJoin
  <2> QED BY <2>1, <2>2
<1>3. /\ \A v \in Worker : pc'[v] = "publish" => pc[v] = "publish"
      /\ \A v \in Worker : pc'[v] \in {"run", "pushInf"} => pc[v] \in {"run", "pushInf"}
      /\ \A v \in Worker : pc'[v] \in {"retRaw", "pushPrep"} => pc[v] \in {"retRaw", "pushPrep"}
      /\ \A v \in Worker : pc'[v] \in RawPcs => pc[v] \in RawPcs
  BY <1>2 DEF FirstPc, RawPcs
<1>4. At(1)' \subseteq At(1) /\ At(3)' \subseteq At(3) /\ At(5)' \subseteq At(5) /\ At(7)' = At(7)
  <2>1. PostAt' \subseteq PostAt
    BY <1>1, <1>3 DEF PostAt, Worker
  <2>2. InferAt' \subseteq InferAt
    BY <1>1, <1>3 DEF InferAt, Worker
  <2>3. PrepAt' \subseteq PrepAt
    BY <1>1, <1>3 DEF PrepAt, Worker
  <2> QED BY <1>1, <2>1, <2>2, <2>3, AtParts
<1> QED BY <1>1, <1>4, LineStays

\* At first nobody is in the line.
LEMMA LineInit == Init => LineInv
<1> SUFFICES ASSUME Init PROVE LineInv
  OBVIOUS
<1>1. Published = {} /\ InFlight = {} /\ sunk = <<>>
  BY NothingRead
<1>2. q["qRaw"] = <<>> /\ q["qPrep"] = <<>> /\ q["qInf"] = <<>>
  BY DEF Init, Channel
<1>3. \A k \in 0 .. 7 : At(k) = {}
  <2>1. IndInv /\ NumbersInv /\ 1 .. framesRead = {}
    BY InitialState, NothingRead DEF NumbersInv
  <2> QED BY <2>1, LineRead
<1> QED BY <1>1, <1>2, <1>3 DEF LineInv, LineOrder, QueuesSorted, Sorted, SunkInOrder

\* With one prep, one infer and one post thread batches are published in the
\* order in which they were read.
THEOREM OneThreadKeepsOrder ==
  ASSUME OneThreadEach
  PROVE  Spec => []SunkInOrder
<1>1. /\ IndInv /\ FramesOwnedOnce /\ SlotsOwnedOnce /\ ScoresFresh /\ LedgerInv /\ LineInv /\ [Next]_vars
      => LineInv'
  <2> SUFFICES ASSUME IndInv, FramesOwnedOnce, SlotsOwnedOnce, ScoresFresh, LedgerInv, LineInv, [Next]_vars
               PROVE  LineInv'
    OBVIOUS
  <2>1. NumbersInv
    BY DEF LedgerInv
  <2> QED BY <2>1, WorkerLine, IngestLine, MainLine DEF Next
<1>2. LineInv => SunkInOrder
  BY DEF LineInv
<1> QED BY <1>1, <1>2, LineInit, Invariance, FrameHasOneOwner, SlotHasOneOwner, ScoresInvariant,
           LedgerInvariant, PTL DEF Spec
=============================================================================
