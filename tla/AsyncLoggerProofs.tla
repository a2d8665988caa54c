------------------------- MODULE AsyncLoggerProofs -------------------------
(***************************************************************************)
(* For any number of threads, calls and queue places: what the queue has    *)
(* accepted is printed once and in order, and the drop counter covers the   *)
(* rest.                                                                    *)
(***************************************************************************)
EXTENDS AsyncLogger, FiniteSetTheorems, SequenceTheorems, TLAPS

\* The calls that have begun, and the threads inside one.
Begun   == {m \in Message : m[2] =< calls[m[1]]}
Pushing == {w \in Writer : pc[w] = "push"}

\* Who exists when: threads log only while Run is up, and the consumer leaves only
\* when nothing is queued and nobody can log any more.
Phases ==
  /\ main = "start" => instance /\ consumer = "none"
  /\ main = "up" => instance /\ consumer # "none"
  /\ main # "up" => \A w \in Writer : pc[w] = "idle"
  /\ \A w \in Writer : pc[w] = "push" => calls[w] # 0
  /\ stopped => main \in {"join", "gone"}
  /\ consumer = "done" => stopped /\ queue = <<>>
  /\ main = "gone" => consumer = "none"

\* Before the consumer's first line nothing is printed and nothing has left the
\* queue.
NothingPrinted ==
  /\ consumer \in {"none", "greet"} /\ main # "gone" =>
       printed = <<>> /\ record = Greeting /\ queue = accepted
  /\ consumer = "none" /\ main # "gone" => accepted = <<>>

\* What is printed when the logger is gone.
AllPrinted == main = "gone" => (accepted # <<>> => printed = <<Greeting>> \o accepted)

Counted == Len(accepted) + dropped + Cardinality(Pushing) = Cardinality(Begun)

Order     == TypeOK /\ Phases /\ PrintsInOrder /\ NothingPrinted /\ AllPrinted
LoggerInv == Order /\ Counted

-----------------------------------------------------------------------------
Line == Message \cup {Greeting}

\* Sequences of lines: what the proofs below need of concatenation.
LEMMA Lines ==
  ASSUME NEW s \in Seq(Line), NEW u \in Seq(Line), NEW e \in Line
  PROVE  /\ s \o <<>> = s /\ <<>> \o s = s
         /\ s \o u \in Seq(Line) /\ Append(s, e) \in Seq(Line) /\ <<e>> \in Seq(Line)
         /\ Append(s, e) = s \o <<e>>
         /\ s \o Append(u, e) = Append(s \o u, e)
<1>1. s \o <<>> = s /\ <<>> \o s = s
  BY ConcatEmptySeq
<1>2. s \o u \in Seq(Line) /\ <<e>> \in Seq(Line) /\ Append(s, e) \in Seq(Line)
  BY ConcatProperties, AppendProperties
<1>3. \A v \in Seq(Line) : Append(v, e) = v \o <<e>>
  BY AppendIsConcat
<1>4. s \o (u \o <<e>>) = (s \o u) \o <<e>>
  BY <1>2, ConcatAssociative
<1> QED BY <1>1, <1>2, <1>3, <1>4

\* A queue that is not empty is its head and its tail.
LEMMA HeadAndTail ==
  ASSUME NEW s \in Seq(Line), s # <<>>
  PROVE  Head(s) \in Line /\ Tail(s) \in Seq(Line) /\ <<Head(s)>> \o Tail(s) = s
<1>1. Head(s) \in Line /\ Tail(s) \in Seq(Line) /\ Len(Tail(s)) = Len(s) - 1
      /\ \A i \in 1 .. Len(Tail(s)) : Tail(s)[i] = s[i + 1]
  BY HeadTailProperties
<1>2. <<Head(s)>> \in Seq(Line) /\ Len(<<Head(s)>>) = 1 /\ <<Head(s)>>[1] = s[1]
  BY <1>1
<1>3. Len(s) \in Nat \ {0}
  BY EmptySeq
<1> DEFINE c == <<Head(s)>> \o Tail(s)
<1>4. /\ c \in Seq(Line) /\ Len(c) = Len(s)
      /\ \A i \in 1 .. Len(s) : c[i] = IF i =< 1 THEN <<Head(s)>>[i] ELSE Tail(s)[i - 1]
  BY <1>1, <1>2, <1>3, ConcatProperties
<1> HIDE DEF c
<1>5. \A i \in 1 .. Len(s) : c[i] = s[i]
  BY <1>1, <1>2, <1>3, <1>4
<1>6. c = s
  BY <1>4, <1>5, SeqEqual
<1> QED BY <1>1, <1>6 DEF c

\* The queues of the logger as lines.
LEMMA QueueLines ==
  ASSUME TypeOK
  PROVE  queue \in Seq(Line) /\ accepted \in Seq(Line) /\ printed \in Seq(Line)
         /\ record \in Line /\ <<Greeting>> \in Seq(Line) /\ <<record>> \in Seq(Line)
BY SeqMonotonic DEF TypeOK, Line
-----------------------------------------------------------------------------
LEMMA LoggerInit == Init => Order
<1> SUFFICES ASSUME Init
             PROVE  Order
  OBVIOUS
<1>1. <<>> \in Seq(Message) /\ <<>> \in Seq(Message \cup {Greeting}) /\ Len(<<>>) = 0
  BY EmptySeq
<1>2. TypeOK
  <2>1. /\ pc \in [Writer -> {"idle", "push"}] /\ calls \in [Writer -> 0 .. MaxCalls]
    BY LoggerAssumption DEF Init
  <2>2. 0 =< QueueCapacity /\ record \in Message \cup {Greeting}
    BY LoggerAssumption DEF Init
  <2> QED BY <1>1, <2>1, <2>2 DEF Init, TypeOK
<1> QED BY <1>2 DEF Init, Order, Phases, PrintsInOrder, NothingPrinted, AllPrinted

\* A call that is accepted comes last in the queue and last in what is to be printed.
LEMMA WriteKeepsOrder ==
  ASSUME Order, NEW w \in Writer, Write(w)
  PROVE  Order'
<1> USE DEF Order
<1> DEFINE m == <<w, calls[w]>>
           rest == printed \o (IF consumer = "write" THEN <<record>> ELSE <<>>)
<1>1. main = "up" /\ m \in Message /\ m \in Line
  <2>1. pc[w] = "push" /\ calls[w] # 0 /\ main = "up"
    BY DEF Write, Phases
  <2>2. calls[w] \in 1 .. MaxCalls
    BY <2>1, LoggerAssumption DEF TypeOK
  <2> QED BY <2>1, <2>2 DEF Message, Line
<1>2. UNCHANGED <<lifecycle, calls, consumer, record, printed>>
      /\ pc' = [pc EXCEPT ![w] = "idle"]
  BY DEF Write
<1>3. CASE ~stopped /\ Len(queue) < QueueCapacity
  <2>1. queue' = Append(queue, m) /\ accepted' = Append(accepted, m) /\ dropped' = dropped
    BY <1>3 DEF Write
  <2>2. /\ queue' \in Seq(Message) /\ accepted' \in Seq(Message)
        /\ Len(queue') = Len(queue) + 1 /\ Len(queue) \in Nat
    BY <1>1, <2>1, AppendProperties, LenProperties DEF TypeOK
  <2>3. TypeOK'
    BY <1>2, <1>3, <2>1, <2>2, LoggerAssumption DEF TypeOK, lifecycle
  <2>4. PrintsInOrder'
    <3>1. rest \in Seq(Line) /\ queue \in Seq(Line) /\ accepted \in Seq(Line) /\ <<Greeting>> \in Seq(Line)
      BY QueueLines, Lines
    <3> HIDE DEF m, rest
    <3>2. /\ rest \o Append(queue, m) = Append(rest \o queue, m)
          /\ <<Greeting>> \o Append(accepted, m) = Append(<<Greeting>> \o accepted, m)
      BY <1>1, <3>1, Lines
    <3> QED BY <1>2, <2>1, <3>2 DEF PrintsInOrder, rest
  <2>5. Phases' /\ NothingPrinted' /\ AllPrinted'
    BY <1>1, <1>2, <1>3, <2>1 DEF Phases, NothingPrinted, AllPrinted, TypeOK, lifecycle
  <2> QED BY <2>3, <2>4, <2>5
<1>4. CASE ~(~stopped /\ Len(queue) < QueueCapacity)
  <2>1. dropped' = dropped + 1 /\ UNCHANGED <<queue, accepted>>
    BY <1>4 DEF Write
  <2>2. TypeOK'
    BY <1>2, <2>1 DEF TypeOK, lifecycle
  <2>3. PrintsInOrder' /\ NothingPrinted' /\ AllPrinted'
    BY <1>2, <2>1 DEF NothingPrinted, AllPrinted, PrintsInOrder, lifecycle
  <2>4. Phases'
    BY <1>1, <1>2, <2>1 DEF Phases, TypeOK, lifecycle
  <2> QED BY <2>2, <2>3, <2>4
<1> QED BY <1>3, <1>4

\* The consumer moves the oldest record on, from the queue through its hands.
LEMMA ConsumerKeepsOrder ==
  ASSUME Order, ConsumerStep
  PROVE  Order'
<1> USE DEF Order
<1>0. /\ queue \in Seq(Line) /\ accepted \in Seq(Line) /\ printed \in Seq(Line)
      /\ record \in Line /\ <<Greeting>> \in Seq(Line) /\ <<record>> \in Seq(Line)
      /\ printed \o <<>> = printed
  BY QueueLines, Lines
<1>1. CASE WriteRecord
  <2>1. /\ printed' = printed \o <<record>> /\ printed' \in Seq(Line) /\ consumer' = "pop"
        /\ printed' \o <<>> = printed'
        /\ UNCHANGED <<lifecycle, queue, pc, calls, record, dropped, accepted>>
    BY <1>0, <1>1, Lines DEF WriteRecord
  <2>2. PrintsInOrder'
    <3>1. CASE consumer = "write"
      BY <2>1, <3>1 DEF PrintsInOrder
    <3>2. CASE consumer = "greet"
      <4>1. printed = <<>> /\ record = Greeting /\ queue = accepted
        BY <3>2, <1>1 DEF NothingPrinted, Phases
      <4>2. printed' = <<Greeting>>
        BY <1>0, <2>1, <4>1, Lines
      <4> QED BY <2>1, <4>1, <4>2 DEF PrintsInOrder
    <3> QED BY <1>1, <3>1, <3>2 DEF WriteRecord
  <2>3. Phases' /\ NothingPrinted' /\ AllPrinted'
    BY <1>1, <2>1 DEF WriteRecord, Phases, NothingPrinted, AllPrinted, lifecycle
  <2>4. TypeOK'
    BY <2>1 DEF TypeOK, Line, lifecycle
  <2> QED BY <2>2, <2>3, <2>4
<1>2. CASE Pop
  <2>1. /\ record' = Head(queue) /\ queue' = Tail(queue) /\ consumer' = "write" /\ queue # <<>>
        /\ consumer = "pop"
        /\ UNCHANGED <<lifecycle, pc, calls, dropped, printed, accepted>>
    BY <1>2 DEF Pop
  <2>2. <<Head(queue)>> \o Tail(queue) = queue /\ Tail(queue) \in Seq(Line) /\ <<Head(queue)>> \in Seq(Line)
    BY <1>0, <2>1, HeadAndTail, Lines
  <2>3. (printed \o <<Head(queue)>>) \o Tail(queue) = printed \o queue
    BY <1>0, <2>2, ConcatAssociative
  <2>4. printed \o queue = <<Greeting>> \o accepted
    BY <1>0, <2>1 DEF PrintsInOrder
  <2>5. PrintsInOrder'
    BY <2>1, <2>3, <2>4 DEF PrintsInOrder
  <2>6. TypeOK'
    <3>1. /\ Head(queue) \in Message /\ Tail(queue) \in Seq(Message) /\ Len(Tail(queue)) = Len(queue) - 1
          /\ Len(queue) \in Nat
      BY <2>1, HeadTailProperties, LenProperties DEF TypeOK
    <3> QED BY <2>1, <3>1, LoggerAssumption DEF TypeOK, lifecycle
  <2>7. Phases' /\ NothingPrinted' /\ AllPrinted'
    BY <2>1 DEF Phases, NothingPrinted, AllPrinted, lifecycle
  <2> QED BY <2>5, <2>6, <2>7
<1>3. CASE ConsumerLeaves
  BY <1>3 DEF ConsumerLeaves, Phases, NothingPrinted, AllPrinted, PrintsInOrder, TypeOK, lifecycle
<1> QED BY <1>1, <1>2, <1>3 DEF ConsumerStep

\* Everything else leaves queue and lines alone.
LEMMA OthersKeepOrder ==
  ASSUME Order, \/ \E w \in Writer : Log(w)
                \/ Start \/ Leave \/ DestructorStep \/ Gone \/ UNCHANGED vars
  PROVE  Order'
<1> USE DEF Order
<1>1. ASSUME NEW w \in Writer, Log(w)
      PROVE  Order'
  <2>1. calls'[w] = calls[w] + 1 /\ calls' \in [Writer -> 0 .. MaxCalls]
    BY <1>1, LoggerAssumption DEF Log, TypeOK
  <2>2. \A v \in Writer : v # w => calls'[v] = calls[v] /\ pc'[v] = pc[v]
    BY <1>1 DEF Log, TypeOK
  <2>3. TypeOK'
    BY <1>1, <2>1 DEF Log, TypeOK, lifecycle
  <2>4. \A v \in Writer : pc'[v] = "push" => calls'[v] # 0
    <3>1. calls[w] + 1 # 0
      BY LoggerAssumption DEF TypeOK
    <3>2. \A v \in Writer : pc[v] = "push" => calls[v] # 0
      BY DEF Phases
    <3> QED BY <2>1, <2>2, <3>1, <3>2
  <2> QED BY <1>1, <2>3, <2>4 DEF Log, Phases, NothingPrinted, AllPrinted, PrintsInOrder, lifecycle
<1>2. CASE Start
  BY <1>2 DEF Start, Phases, NothingPrinted, AllPrinted, PrintsInOrder, TypeOK
<1>3. CASE Leave
  BY <1>3 DEF Leave, Phases, NothingPrinted, AllPrinted, PrintsInOrder, TypeOK
<1>4. CASE Unpublish
  BY <1>4 DEF Unpublish, Phases, NothingPrinted, AllPrinted, PrintsInOrder, TypeOK
<1>5. CASE Stop
  BY <1>5 DEF Stop, Phases, NothingPrinted, AllPrinted, PrintsInOrder, TypeOK
<1>6. CASE Join
  <2>1. CASE consumer = "done"
    <3>1. printed = <<Greeting>> \o accepted
      <4>1. queue = <<>> /\ printed \o <<>> = printed
        BY <2>1, QueueLines, Lines DEF Phases
      <4> QED BY <2>1, <4>1 DEF PrintsInOrder
    <3> QED BY <1>6, <2>1, <3>1 DEF Join, Phases, NothingPrinted, AllPrinted, PrintsInOrder, TypeOK
  <2>2. CASE consumer = "none"
    BY <1>6, <2>2 DEF Join, Phases, NothingPrinted, AllPrinted, PrintsInOrder, TypeOK
  <2> QED BY <1>6, <2>1, <2>2 DEF Join
<1>7. CASE UNCHANGED vars
  <2>1. TypeOK' /\ Phases'
    BY <1>7 DEF vars, Phases, TypeOK
  <2>2. PrintsInOrder' /\ NothingPrinted' /\ AllPrinted'
    BY <1>7 DEF vars, NothingPrinted, AllPrinted, PrintsInOrder
  <2> QED BY <2>1, <2>2
<1> QED BY <1>1, <1>2, <1>3, <1>4, <1>5, <1>6, <1>7 DEF DestructorStep, Gone

LEMMA OrderInvariant == Spec => []Order
<1>1. Order /\ [Next]_vars => Order'
  BY WriteKeepsOrder, ConsumerKeepsOrder, OthersKeepOrder DEF Next
<1> QED BY <1>1, LoggerInit, PTL DEF Spec

\* A full queue costs the newest record, never one that was accepted, and shutting
\* down loses none: for any queue and any threads (AsyncLogger.cpp:153-181).
THEOREM PrintedInOrder == Spec => []PrintsInOrder
<1>1. Order => PrintsInOrder
  BY DEF Order
<1> QED BY <1>1, OrderInvariant, PTL
-----------------------------------------------------------------------------
(* Every call is a record that was accepted, one that was dropped, or a     *)
(* thread still in the call.                                                *)

LEMMA CallsFinite ==
  /\ IsFiniteSet(Begun) /\ Cardinality(Begun) \in Nat
  /\ IsFiniteSet(Pushing) /\ Cardinality(Pushing) \in Nat
<1>1. IsFiniteSet(1 .. MaxCalls)
  BY FS_Interval, LoggerAssumption
<1>2. IsFiniteSet(Message)
  BY <1>1, FS_Product, LoggerAssumption DEF Message
<1>3. Begun \in SUBSET Message /\ Pushing \in SUBSET Writer
  BY DEF Begun, Pushing
<1> QED BY <1>2, <1>3, FS_Subset, FS_CardinalityType, LoggerAssumption

LEMMA LoggerInitCounted == Init => Counted
<1> SUFFICES ASSUME Init
             PROVE  Counted
  OBVIOUS
<1>1. Begun = {} /\ Pushing = {}
  BY LoggerAssumption DEF Init, Begun, Pushing, Message
<1> QED BY <1>1, FS_EmptySet, EmptySeq DEF Init, Counted

\* A call begins.
LEMMA LogCounts ==
  ASSUME Order, Counted, NEW w \in Writer, Log(w)
  PROVE  Counted'
<1> DEFINE m == <<w, calls[w] + 1>>
<1>1. /\ calls' = [calls EXCEPT ![w] = calls[w] + 1] /\ pc' = [pc EXCEPT ![w] = "push"]
      /\ pc[w] = "idle" /\ calls[w] \in Nat /\ calls[w] < MaxCalls
      /\ UNCHANGED <<dropped, accepted>>
  BY LoggerAssumption DEF Log, Order, Phases, TypeOK
<1>2. Begun' = Begun \cup {m}
  <2>1. \A v \in Writer : calls'[v] = IF v = w THEN calls[w] + 1 ELSE calls[v]
    BY <1>1 DEF Order, TypeOK
  <2>2. \A v \in Writer, k \in 1 .. MaxCalls :
          k =< calls'[v] <=> k =< calls[v] \/ (v = w /\ k = calls[w] + 1)
    BY <1>1, <2>1, LoggerAssumption DEF Order, TypeOK
  <2>3. calls[w] + 1 \in 1 .. MaxCalls
    BY <1>1, LoggerAssumption
  <2>4. \A n \in Message : n \in Begun' <=> n \in Begun \cup {m}
    BY <2>2 DEF Begun, Message
  <2> QED BY <2>3, <2>4 DEF Begun, Message
<1>3. m \notin Begun
  BY <1>1 DEF Begun
<1>4. Pushing' = Pushing \cup {w} /\ w \notin Pushing
  BY <1>1 DEF Pushing, Order, TypeOK
<1> HIDE DEF m
<1>5. Cardinality(Begun') = Cardinality(Begun) + 1
  BY <1>2, <1>3, CallsFinite, FS_AddElement
<1>6. Cardinality(Pushing') = Cardinality(Pushing) + 1
  BY <1>4, CallsFinite, FS_AddElement
<1>7. Len(accepted) \in Nat /\ dropped \in Nat
  BY LenProperties DEF Order, TypeOK
<1> QED BY <1>1, <1>5, <1>6, <1>7, CallsFinite DEF Counted

\* A call ends: accepted or dropped.
LEMMA WriteCounts ==
  ASSUME Order, Counted, NEW w \in Writer, Write(w)
  PROVE  Counted'
<1>1. pc' = [pc EXCEPT ![w] = "idle"] /\ pc[w] = "push" /\ calls' = calls
  BY DEF Write
<1>2. Pushing' = Pushing \ {w} /\ w \in Pushing /\ Begun' = Begun
  BY <1>1 DEF Pushing, Begun, Order, TypeOK
<1>3. Cardinality(Pushing') = Cardinality(Pushing) - 1
  BY <1>2, CallsFinite, FS_RemoveElement
<1>4. Len(accepted) \in Nat /\ dropped \in Nat
  BY LenProperties DEF Order, TypeOK
<1>5. \/ Len(accepted') = Len(accepted) + 1 /\ dropped' = dropped
      \/ accepted' = accepted /\ dropped' = dropped + 1
  <2>1. CASE ~stopped /\ Len(queue) < QueueCapacity
    <3>1. <<w, calls[w]>> \in Message
      BY <1>1, LoggerAssumption DEF Order, Phases, TypeOK, Message
    <3>2. accepted' = Append(accepted, <<w, calls[w]>>) /\ dropped' = dropped
      BY <2>1 DEF Write
    <3> QED BY <3>1, <3>2, AppendProperties DEF Order, TypeOK
  <2>2. CASE ~(~stopped /\ Len(queue) < QueueCapacity)
    BY <2>2 DEF Write
  <2> QED BY <2>1, <2>2
<1> QED BY <1>2, <1>3, <1>4, <1>5, CallsFinite DEF Counted

LEMMA LoggerInvariant == Spec => []LoggerInv
<1>1. Init => LoggerInv
  BY LoggerInit, LoggerInitCounted DEF LoggerInv
<1>2. LoggerInv /\ [Next]_vars => LoggerInv'
  <2> SUFFICES ASSUME LoggerInv, [Next]_vars
               PROVE  LoggerInv'
    OBVIOUS
  <2>1. Order'
    BY WriteKeepsOrder, ConsumerKeepsOrder, OthersKeepOrder DEF Next, LoggerInv
  <2>2. Counted'
    <3>1. CASE UNCHANGED <<pc, calls, dropped, accepted>>
      BY <3>1 DEF LoggerInv, Counted, Begun, Pushing
    <3>2. CASE \E w \in Writer : Log(w) \/ Write(w)
      BY <3>2, LogCounts, WriteCounts DEF LoggerInv
    <3> QED BY <3>1, <3>2 DEF Next, ConsumerStep, WriteRecord, Pop, ConsumerLeaves, Start, Leave,
                              DestructorStep, Unpublish, Stop, Join, Gone, vars
  <2> QED BY <2>1, <2>2 DEF LoggerInv
<1> QED BY <1>1, <1>2, PTL DEF Spec

\* When the destructor is over every Log call is a printed line or a drop that was
\* counted (AsyncLogger.h:42, AsyncLogger.cpp:78-98, 157-160).
THEOREM CallsAccounted == Spec => []EveryCallAccounted
<1>1. LoggerInv => EveryCallAccounted
  <2> SUFFICES ASSUME LoggerInv, main = "gone"
               PROVE  EveryCallAccounted
    BY DEF EveryCallAccounted
  <2>1. Pushing = {}
    BY DEF LoggerInv, Order, Phases, Pushing
  <2>2. Cardinality(Pushing) = 0 /\ Len(accepted) \in Nat /\ dropped \in Nat
    BY <2>1, FS_EmptySet, LenProperties DEF LoggerInv, Order, TypeOK
  <2>3. Len(accepted) + dropped = Cardinality(Begun)
    BY <2>2 DEF LoggerInv, Counted
  <2> QED BY <2>3 DEF EveryCallAccounted, Begun, LoggerInv, Order, AllPrinted
<1> QED BY <1>1, LoggerInvariant, PTL
=============================================================================
