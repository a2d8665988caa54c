-------------------------- MODULE RingBufferProofs --------------------------
(***************************************************************************)
(* Theorems about RingBuffer for every number of threads and every          *)
(* capacity: indices and records stay consistent, no wake-up is lost, and   *)
(* the buffer implements the bounded channel.                               *)
(*                                                                         *)
(* On the data every step is a push, a pop or nothing (StepEffect); on the  *)
(* program counters it moves one thread, or two when a signal wakes one.    *)
(***************************************************************************)
EXTENDS RingBuffer, FiniteSetTheorems, SequenceTheorems, TLAPS

-----------------------------------------------------------------------------
(* The data: indices, slots and records.                                    *)

\* An index moved forward by at most the capacity.
Wrap(n) == IF n < Cap THEN n ELSE n - Cap

LEMMA ModuloOnce ==
  ASSUME NEW n \in Nat, NEW c \in Nat \ {0}, n >= c, n < 2 * c
  PROVE  n % c = n - c
BY SMTT(30)

LEMMA WrapIsModulo ==
  ASSUME NEW n \in Nat, n < 2 * Cap
  PROVE  n % Cap = Wrap(n) /\ Wrap(n) \in Index
<1>1. CASE n < Cap
  BY <1>1, CapAssumption DEF Wrap, Index
<1>2. CASE n >= Cap
  <2>1. \A c \in Nat \ {0} : n >= c /\ n < 2 * c => n % c = n - c
    BY ModuloOnce
  <2>2. n % Cap = n - Cap
    BY <1>2, <2>1, CapAssumption
  <2> QED BY <1>2, <2>2, CapAssumption DEF Wrap, Index
<1> QED BY <1>1, <1>2, CapAssumption

\* What a step does to slots, indices and records.
RingPush(t) == ~stopped /\ count < Cap /\ PushLocked(t)
RingPop(t)  == count > 0 /\ PopLocked(t)

LEMMA StepEffect ==
  ASSUME TypeOK, [Next]_vars
  PROVE  /\ \/ \E t \in Thread : RingPush(t) /\ stopped' = stopped
            \/ \E t \in Thread : RingPop(t) /\ stopped' = stopped
            \/ UNCHANGED ring /\ stopped' \in {stopped, TRUE}
         /\ pc' \in [Thread -> Location]
<1>1. CASE UNCHANGED vars
  BY <1>1 DEF vars, ring, TypeOK
<1>2. ASSUME NEW t \in Thread, Call(t) \/ TryPush(t) \/ TryPop(t) \/ Stop(t)
      PROVE  /\ \/ RingPush(t) /\ stopped' = stopped
                \/ RingPop(t) /\ stopped' = stopped
                \/ UNCHANGED ring /\ stopped' \in {stopped, TRUE}
             /\ pc' \in [Thread -> Location]
  <2>1. CASE Call(t)
    BY <2>1 DEF Call, GoTo, TypeOK, Location
  <2>2. CASE TryPush(t)
    BY <2>2, CapAssumption DEF TryPush, RingPush, GoTo, TypeOK, Location
  <2>3. CASE TryPop(t)
    BY <2>3, CapAssumption DEF TryPop, RingPop, GoTo, TypeOK, Location
  <2>4. CASE Stop(t)
    BY <2>4 DEF Stop, GoTo, TypeOK, Location
  <2> QED BY <1>2, <2>1, <2>2, <2>3, <2>4
<1>3. ASSUME NEW t \in Thread, Progress(t)
      PROVE  /\ \/ RingPush(t) /\ stopped' = stopped
                \/ RingPop(t) /\ stopped' = stopped
                \/ UNCHANGED ring /\ stopped' \in {stopped, TRUE}
             /\ pc' \in [Thread -> Location]
  <2>1. CASE Notify(t)
    BY <2>1 DEF Notify, NotifyOne, NotifyAll, GoTo, TypeOK, Location
  <2>2. CASE PushFails(t) \/ PushSleeps(t) \/ PushSucceeds(t)
    BY <2>2, CapAssumption DEF PushFails, PushSleeps, PushSucceeds, RingPush, GoTo, TypeOK, Location
  <2>3. CASE PopFails(t) \/ PopSleeps(t) \/ PopSucceeds(t)
    BY <2>3, CapAssumption DEF PopFails, PopSleeps, PopSucceeds, RingPop, GoTo, TypeOK, Location
  <2> QED BY <1>3, <2>1, <2>2, <2>3 DEF Progress
<1>4. ASSUME NEW t \in Thread, SpuriousWake(t)
      PROVE  UNCHANGED ring /\ stopped' = stopped /\ pc' \in [Thread -> Location]
  BY <1>4 DEF SpuriousWake, GoTo, TypeOK, Location
<1> QED BY <1>1, <1>2, <1>3, <1>4 DEF Next

LEMMA PushKeepsRing ==
  ASSUME RingInv, NEW t \in Thread, RingPush(t),
         stopped' \in BOOLEAN, pc' \in [Thread -> Location]
  PROVE  RingInv'
<1> USE DEF RingInv
<1>1. /\ tail' = Wrap(tail + 1) /\ tail' \in Index /\ head' = head
      /\ tail = Wrap(head + count) /\ count' \in 0 .. Cap
  <2>1. tail' = (tail + 1) % Cap /\ head' = head /\ count' \in 0 .. Cap
    BY CapAssumption DEF RingPush, PushLocked, TypeOK
  <2>2. tail + 1 \in Nat /\ tail + 1 < 2 * Cap
    BY CapAssumption DEF TypeOK, Index
  <2>3. head + count \in Nat /\ head + count < 2 * Cap
    BY CapAssumption DEF TypeOK, Index
  <2> QED BY <2>1, <2>2, <2>3, WrapIsModulo DEF WindowInv
<1>2. TypeOK'
  BY <1>1 DEF TypeOK, RingPush, PushLocked, Index
<1>3. WindowInv'
  <2>1. count' = count + 1
    BY DEF RingPush, PushLocked
  <2>2. (head + count + 1) % Cap = Wrap(head + count + 1)
    BY CapAssumption, WrapIsModulo DEF RingPush, TypeOK, Index
  <2>3. Wrap(Wrap(head + count) + 1) = Wrap(head + count + 1)
    BY CapAssumption DEF Wrap, TypeOK, Index, RingPush
  <2> QED BY <1>1, <2>1, <2>2, <2>3 DEF WindowInv, TypeOK, Index
<1>4. RecordsConserved'
  BY DEF RecordsConserved, RingPush, PushLocked, TypeOK
<1> QED BY <1>2, <1>3, <1>4

LEMMA PopKeepsRing ==
  ASSUME RingInv, NEW t \in Thread, RingPop(t),
         stopped' \in BOOLEAN, pc' \in [Thread -> Location]
  PROVE  RingInv'
<1> USE DEF RingInv
<1>1. /\ head' = Wrap(head + 1) /\ head' \in Index /\ tail' = tail
      /\ tail = Wrap(head + count) /\ count' \in 0 .. Cap
  <2>1. head' = (head + 1) % Cap /\ tail' = tail /\ count' \in 0 .. Cap
    BY CapAssumption DEF RingPop, PopLocked, TypeOK
  <2>2. head + 1 \in Nat /\ head + 1 < 2 * Cap
    BY CapAssumption DEF TypeOK, Index
  <2>3. head + count \in Nat /\ head + count < 2 * Cap
    BY CapAssumption DEF TypeOK, Index
  <2> QED BY <2>1, <2>2, <2>3, WrapIsModulo DEF WindowInv
<1>2. TypeOK'
  BY <1>1 DEF TypeOK, RingPop, PopLocked, Index
<1>3. WindowInv'
  <2>1. count' = count - 1
    BY DEF RingPop, PopLocked
  <2>2. Wrap(Wrap(head + 1) + (count - 1)) = Wrap(head + count)
    BY CapAssumption DEF Wrap, TypeOK, Index, RingPop
  <2>3. (head' + count') % Cap = Wrap(head' + count')
    <3>1. head' + count' \in Nat /\ head' + count' < 2 * Cap
      BY <1>1, CapAssumption DEF Index
    <3> QED BY <3>1, WrapIsModulo
  <2>4. Wrap(head' + count') = tail'
    BY <1>1, <2>1, <2>2
  <2> QED BY <2>3, <2>4 DEF WindowInv
<1>4. RecordsConserved'
  BY DEF RecordsConserved, RingPop, PopLocked, TypeOK
<1> QED BY <1>2, <1>3, <1>4

\* Indices, counter and records are consistent whatever the threads do, for every
\* capacity: a record is in one slot or in one hand, never in two, never lost
\* (push_locked and pop_locked, RingBuffer.tpp:107-130).
THEOREM RingConsistent == Spec => []RingInv
<1>1. Init => RingInv
  <2> SUFFICES ASSUME Init
               PROVE  RingInv
    OBVIOUS
  <2>1. TypeOK
    <3>1. 0 \in Index /\ 0 \in 0 .. Cap /\ "idle" \in Location
      BY CapAssumption DEF Index, Location
    <3>2. pc \in [Thread -> Location]
      BY <3>1 DEF Init
    <3> QED BY <3>1, <3>2 DEF Init, TypeOK
  <2>2. RecordsConserved
    BY DEF Init, RecordsConserved
  <2>3. 0 % Cap = 0
    <3>1. 0 < 2 * Cap /\ Wrap(0) = 0 /\ 0 \in Nat
      BY CapAssumption DEF Wrap
    <3> QED BY <3>1, WrapIsModulo
  <2> QED BY <2>1, <2>2, <2>3 DEF Init, WindowInv, RingInv
<1>2. RingInv /\ [Next]_vars => RingInv'
  <2> SUFFICES ASSUME RingInv, [Next]_vars
               PROVE  RingInv'
    OBVIOUS
  <2>1. pc' \in [Thread -> Location] /\ stopped' \in BOOLEAN
    BY StepEffect DEF RingInv, TypeOK
  <2>2. CASE UNCHANGED ring
    BY <2>1, <2>2 DEF ring, RingInv, TypeOK, WindowInv, RecordsConserved
  <2> QED BY <2>1, <2>2, StepEffect, PushKeepsRing, PopKeepsRing DEF RingInv
<1> QED BY <1>1, <1>2, PTL DEF Spec
-----------------------------------------------------------------------------
(* Program counters: who sleeps, and which notifications are still to come. *)

\* Two subsets that differ in one element at most.
LEMMA CountMove ==
  ASSUME NEW S, IsFiniteSet(S), NEW A \in SUBSET S, NEW B \in SUBSET S, NEW w,
         \A v \in S \ {w} : v \in A <=> v \in B
  PROVE  /\ Cardinality(A) \in Nat /\ Cardinality(B) \in Nat
         /\ Cardinality(B) = IF w \in A <=> w \in B THEN Cardinality(A)
                             ELSE IF w \in B THEN Cardinality(A) + 1
                                             ELSE Cardinality(A) - 1
<1>1. /\ IsFiniteSet(A) /\ Cardinality(A) \in Nat
      /\ IsFiniteSet(B) /\ Cardinality(B) \in Nat
  BY FS_Subset, FS_CardinalityType
<1>2. CASE w \in A <=> w \in B
  <2>1. B = A
    BY <1>2
  <2> QED BY <1>1, <1>2, <2>1
<1>3. CASE w \in B /\ w \notin A
  <2>1. B = A \cup {w}
    BY <1>3
  <2>2. Cardinality(A \cup {w}) = Cardinality(A) + 1
    BY <1>1, <1>3, FS_AddElement
  <2> QED BY <1>1, <1>3, <2>1, <2>2
<1>4. CASE w \notin B /\ w \in A
  <2>1. B = A \ {w}
    BY <1>4
  <2>2. Cardinality(A \ {w}) = Cardinality(A) - 1
    BY <1>1, <1>4, FS_RemoveElement
  <2> QED BY <1>1, <1>4, <2>1, <2>2
<1> QED BY <1>2, <1>3, <1>4, <1>1

\* The threads at either of two places, and how many they are.
Near(a, b) == At(a) \cup At(b)

\* A thread that moves enters one place and leaves another.
LEMMA Move ==
  ASSUME TypeOK, NEW t \in Thread, NEW l \in Location, GoTo(t, l), NEW a, NEW b
  PROVE  /\ Cardinality(Near(a, b)) \in Nat /\ Cardinality(Near(a, b)') \in Nat
         /\ Cardinality(Near(a, b)') =
              IF pc[t] \in {a, b} <=> l \in {a, b} THEN Cardinality(Near(a, b))
              ELSE IF l \in {a, b} THEN Cardinality(Near(a, b)) + 1
              ELSE Cardinality(Near(a, b)) - 1
         /\ At(a)' = IF l = a THEN At(a) \cup {t} ELSE At(a) \ {t}
<1>1. \A s \in Thread : pc'[s] = IF s = t THEN l ELSE pc[s]
  BY DEF GoTo, TypeOK
<1>2. Near(a, b) \in SUBSET Thread /\ Near(a, b)' \in SUBSET Thread
  BY DEF Near, At
<1>3. \A s \in Thread \ {t} : s \in Near(a, b) <=> s \in Near(a, b)'
  BY <1>1 DEF Near, At
<1>4. (t \in Near(a, b) <=> pc[t] \in {a, b}) /\ (t \in Near(a, b)' <=> l \in {a, b})
  BY <1>1 DEF Near, At
<1>5. At(a)' = IF l = a THEN At(a) \cup {t} ELSE At(a) \ {t}
  <2>1. CASE l = a
    BY <1>1, <2>1 DEF At
  <2>2. CASE l # a
    BY <1>1, <2>2 DEF At
  <2> QED BY <2>1, <2>2
<1> QED BY <1>2, <1>3, <1>4, <1>5, CountMove, ThreadAssumption

\* notify_one: the caller is done and some sleeper looks again.
LEMMA Wake ==
  ASSUME TypeOK, NEW t \in Thread, NEW s \in Thread, s # t, NEW signal, NEW woken,
         pc[t] = signal, pc[s] \notin {signal, woken}, woken \notin {"idle", signal}, signal # "idle",
         pc' = [pc EXCEPT ![t] = "idle", ![s] = woken]
  PROVE  /\ Cardinality(Near(signal, woken)') = Cardinality(Near(signal, woken))
         /\ \A a : a \notin {"idle", woken} => At(a)' = At(a) \ {t, s}
<1>1. \A r \in Thread : pc'[r] = IF r = s THEN woken ELSE IF r = t THEN "idle" ELSE pc[r]
  BY DEF TypeOK
<1>2. Near(signal, woken)' = (Near(signal, woken) \ {t}) \cup {s}
  BY <1>1 DEF Near, At
<1>3. t \in Near(signal, woken) /\ s \notin Near(signal, woken) \ {t}
  BY DEF Near, At
<1>4. IsFiniteSet(Near(signal, woken)) /\ Cardinality(Near(signal, woken)) \in Nat
  <2>1. Near(signal, woken) \in SUBSET Thread
    BY DEF Near, At
  <2> QED BY <2>1, FS_Subset, FS_CardinalityType, ThreadAssumption
<1>5. /\ IsFiniteSet(Near(signal, woken) \ {t})
      /\ Cardinality(Near(signal, woken) \ {t}) = Cardinality(Near(signal, woken)) - 1
  BY <1>3, <1>4, FS_RemoveElement
<1>6. Cardinality((Near(signal, woken) \ {t}) \cup {s}) = Cardinality(Near(signal, woken))
  <2> DEFINE D == Near(signal, woken) \ {t}
  <2>1. IsFiniteSet(D) /\ s \notin D
    BY <1>3, <1>5
  <2> HIDE DEF D
  <2>2. Cardinality(D \cup {s}) = Cardinality(D) + 1
    BY <2>1, FS_AddElement
  <2> QED BY <1>4, <1>5, <2>2 DEF D
<1>7. \A a : a \notin {"idle", woken} => At(a)' = At(a) \ {t, s}
  BY <1>1 DEF At
<1> QED BY <1>2, <1>6, <1>7

\* SignalsSuffice in terms of Near.
LEMMA SignalsCounted ==
  SignalsSuffice <=>
    /\ At("asleepNotFull") # {} => Cap - count =< Cardinality(Near("signalNotFull", "push"))
    /\ At("asleepNotEmpty") # {} => count =< Cardinality(Near("signalNotEmpty", "pop"))
BY DEF SignalsSuffice, Near

\* A step by which one thread t goes to another place.
LEMMA MoveKeepsSignals ==
  ASSUME TypeOK, TypeOK', SignalsSuffice, ~stopped', NEW t \in Thread, NEW l \in Location, GoTo(t, l),
         \/ pc[t] \in {"idle", "push"} /\ l = "signalNotEmpty" /\ count' = count + 1
         \/ pc[t] \in {"idle", "pop"} /\ l = "signalNotFull" /\ count' = count - 1
         \/ pc[t] = "idle" /\ l \in {"push", "pop"} /\ count' = count
         \/ pc[t] = "push" /\ l = "asleepNotFull" /\ count' = count /\ count = Cap
         \/ pc[t] = "pop" /\ l = "asleepNotEmpty" /\ count' = count /\ count = 0
         \/ pc[t] = "asleepNotFull" /\ l = "push" /\ count' = count
         \/ pc[t] = "asleepNotEmpty" /\ l = "pop" /\ count' = count
         \/ pc[t] = "signalNotEmpty" /\ At("asleepNotEmpty") = {} /\ l = "idle" /\ count' = count
         \/ pc[t] = "signalNotFull" /\ At("asleepNotFull") = {} /\ l = "idle" /\ count' = count
  PROVE  SignalsSuffice'
<1> DEFINE full  == Cardinality(Near("signalNotFull", "push"))
           empty == Cardinality(Near("signalNotEmpty", "pop"))
<1>1. full \in Nat /\ full' \in Nat
      /\ full' = IF pc[t] \in {"signalNotFull", "push"} <=> l \in {"signalNotFull", "push"}
                              THEN full ELSE IF l \in {"signalNotFull", "push"} THEN full + 1 ELSE full - 1
  BY Move
<1>2. empty \in Nat /\ empty' \in Nat
      /\ empty' = IF pc[t] \in {"signalNotEmpty", "pop"} <=> l \in {"signalNotEmpty", "pop"}
                              THEN empty ELSE IF l \in {"signalNotEmpty", "pop"} THEN empty + 1 ELSE empty - 1
  BY Move
<1>3. At("asleepNotFull")' = IF l = "asleepNotFull" THEN At("asleepNotFull") \cup {t} ELSE At("asleepNotFull") \ {t}
  BY Move
<1>4. At("asleepNotEmpty")' = IF l = "asleepNotEmpty" THEN At("asleepNotEmpty") \cup {t} ELSE At("asleepNotEmpty") \ {t}
  BY Move
<1>5. count \in 0 .. Cap /\ count' \in 0 .. Cap /\ Cap \in Nat
  BY CapAssumption DEF TypeOK
<1>6. /\ At("asleepNotFull") # {} => Cap - count =< full
      /\ At("asleepNotEmpty") # {} => count =< empty
  BY SignalsCounted
<1> HIDE DEF full, empty
<1> DEFINE Enough == /\ At("asleepNotFull")' # {} => Cap - count' =< full'
                     /\ At("asleepNotEmpty")' # {} => count' =< empty'
<1>7. Enough
  <2>1. CASE pc[t] \in {"idle", "push"} /\ l = "signalNotEmpty" /\ count' = count + 1
    BY <2>1, <1>1, <1>2, <1>3, <1>4, <1>5, <1>6
  <2>2. CASE pc[t] \in {"idle", "pop"} /\ l = "signalNotFull" /\ count' = count - 1
    BY <2>2, <1>1, <1>2, <1>3, <1>4, <1>5, <1>6
  <2>3. CASE pc[t] = "idle" /\ l \in {"push", "pop"} /\ count' = count
    BY <2>3, <1>1, <1>2, <1>3, <1>4, <1>5, <1>6
  <2>4. CASE pc[t] = "push" /\ l = "asleepNotFull" /\ count' = count /\ count = Cap
    BY <2>4, <1>1, <1>2, <1>3, <1>4, <1>5, <1>6
  <2>5. CASE pc[t] = "pop" /\ l = "asleepNotEmpty" /\ count' = count /\ count = 0
    BY <2>5, <1>1, <1>2, <1>3, <1>4, <1>5, <1>6
  <2>6. CASE pc[t] = "asleepNotFull" /\ l = "push" /\ count' = count
    BY <2>6, <1>1, <1>2, <1>3, <1>4, <1>5, <1>6
  <2>9. CASE pc[t] = "asleepNotEmpty" /\ l = "pop" /\ count' = count
    BY <2>9, <1>1, <1>2, <1>3, <1>4, <1>5, <1>6
  <2>7. CASE pc[t] = "signalNotEmpty" /\ At("asleepNotEmpty") = {} /\ l = "idle" /\ count' = count
    BY <2>7, <1>1, <1>2, <1>3, <1>4, <1>5, <1>6
  <2>8. CASE pc[t] = "signalNotFull" /\ At("asleepNotFull") = {} /\ l = "idle" /\ count' = count
    BY <2>8, <1>1, <1>2, <1>3, <1>4, <1>5, <1>6
  <2> HIDE DEF Enough
  <2> QED BY <2>1, <2>2, <2>3, <2>4, <2>5, <2>6, <2>7, <2>8, <2>9
<1> QED BY <1>7 DEF full, empty, SignalsSuffice, Near

\* While the buffer is open every step keeps the signals sufficient.
LEMMA OpenStep ==
  ASSUME TypeOK, TypeOK', SignalsSuffice, ~stopped, ~stopped', [Next]_vars
  PROVE  SignalsSuffice'
<1>1. CASE UNCHANGED vars
  BY <1>1 DEF vars, SignalsSuffice, At
<1>2. ASSUME NEW t \in Thread, Call(t) \/ TryPush(t) \/ TryPop(t) \/ Stop(t)
      PROVE  SignalsSuffice'
  <2>1. CASE Call(t)
    BY <2>1, MoveKeepsSignals DEF Call, ring, Location
  <2>2. CASE TryPush(t)
    BY <2>2, MoveKeepsSignals DEF TryPush, PushLocked, Location
  <2>3. CASE TryPop(t)
    BY <2>3, MoveKeepsSignals DEF TryPop, PopLocked, Location
  <2>4. CASE Stop(t)
    BY <2>4 DEF Stop
  <2> QED BY <1>2, <2>1, <2>2, <2>3, <2>4
<1>3. ASSUME NEW t \in Thread, Progress(t), ~Notify(t)
      PROVE  SignalsSuffice'
  <2>1. CASE PushFails(t) \/ PopFails(t)
    BY <2>1 DEF PushFails, PopFails
  <2>2. CASE PushSleeps(t)
    BY <2>2, MoveKeepsSignals DEF PushSleeps, ring, Location
  <2>3. CASE PushSucceeds(t)
    BY <2>3, MoveKeepsSignals DEF PushSucceeds, PushLocked, Location
  <2>4. CASE PopSleeps(t)
    BY <2>4, MoveKeepsSignals DEF PopSleeps, ring, Location
  <2>5. CASE PopSucceeds(t)
    BY <2>5, MoveKeepsSignals DEF PopSucceeds, PopLocked, Location
  <2> QED BY <1>3, <2>1, <2>2, <2>3, <2>4, <2>5 DEF Progress
<1>4. ASSUME NEW t \in Thread, SpuriousWake(t)
      PROVE  SignalsSuffice'
  <2>1. CASE pc[t] = "asleepNotFull" /\ GoTo(t, "push")
    BY <1>4, <2>1, MoveKeepsSignals DEF SpuriousWake, ring, Location
  <2>2. CASE pc[t] = "asleepNotEmpty" /\ GoTo(t, "pop")
    BY <1>4, <2>2, MoveKeepsSignals DEF SpuriousWake, ring, Location
  <2> QED BY <1>4, <2>1, <2>2 DEF SpuriousWake
<1>5. ASSUME NEW t \in Thread, Notify(t)
      PROVE  SignalsSuffice'
  <2>1. count' = count
    BY <1>5 DEF Notify, ring
  <2>2. CASE pc[t] = "signalNotEmpty" /\ NotifyOne(t, "asleepNotEmpty", "pop")
    <3>1. CASE At("asleepNotEmpty") = {}
      BY <2>1, <2>2, <3>1, MoveKeepsSignals DEF NotifyOne, Location
    <3>2. ASSUME NEW s \in At("asleepNotEmpty"), pc' = [pc EXCEPT ![t] = "idle", ![s] = "pop"]
          PROVE  SignalsSuffice'
      <4>1. s \in Thread /\ s # t /\ pc[s] = "asleepNotEmpty"
        BY <2>2, <3>2 DEF At
      <4>2. /\ Cardinality(Near("signalNotEmpty", "pop")') = Cardinality(Near("signalNotEmpty", "pop"))
            /\ \A a : a \notin {"idle", "pop"} => At(a)' = At(a) \ {t, s}
        <5>1. /\ pc[t] = "signalNotEmpty" /\ pc[s] \notin {"signalNotEmpty", "pop"}
              /\ "pop" \notin {"idle", "signalNotEmpty"} /\ "signalNotEmpty" # "idle"
          BY <2>2, <4>1
        <5> QED BY <3>2, <4>1, <5>1, Wake, Zenon
      <4>3. At("asleepNotEmpty")' \subseteq At("asleepNotEmpty") /\ At("asleepNotFull")' \subseteq At("asleepNotFull")
        BY <4>2
      <4>4. Near("signalNotFull", "push")' = Near("signalNotFull", "push")
        BY <2>2, <4>1, <4>2 DEF Near, At
      <4> QED BY <2>1, <4>2, <4>3, <4>4, SignalsCounted DEF SignalsSuffice, Near
    <3> QED BY <2>2, <3>1, <3>2 DEF NotifyOne
  <2>3. CASE pc[t] = "signalNotFull" /\ NotifyOne(t, "asleepNotFull", "push")
    <3>1. CASE At("asleepNotFull") = {}
      BY <2>1, <2>3, <3>1, MoveKeepsSignals DEF NotifyOne, Location
    <3>2. ASSUME NEW s \in At("asleepNotFull"), pc' = [pc EXCEPT ![t] = "idle", ![s] = "push"]
          PROVE  SignalsSuffice'
      <4>1. s \in Thread /\ s # t /\ pc[s] = "asleepNotFull"
        BY <2>3, <3>2 DEF At
      <4>2. /\ Cardinality(Near("signalNotFull", "push")') = Cardinality(Near("signalNotFull", "push"))
            /\ \A a : a \notin {"idle", "push"} => At(a)' = At(a) \ {t, s}
        <5>1. /\ pc[t] = "signalNotFull" /\ pc[s] \notin {"signalNotFull", "push"}
              /\ "push" \notin {"idle", "signalNotFull"} /\ "signalNotFull" # "idle"
          BY <2>3, <4>1
        <5> QED BY <3>2, <4>1, <5>1, Wake, Zenon
      <4>3. At("asleepNotEmpty")' \subseteq At("asleepNotEmpty") /\ At("asleepNotFull")' \subseteq At("asleepNotFull")
        BY <4>2
      <4>4. Near("signalNotEmpty", "pop")' = Near("signalNotEmpty", "pop")
        BY <2>3, <4>1, <4>2 DEF Near, At
      <4> QED BY <2>1, <4>2, <4>3, <4>4, SignalsCounted DEF SignalsSuffice, Near
    <3> QED BY <2>3, <3>1, <3>2 DEF NotifyOne
  <2>4. CASE pc[t] = "broadcastNotFull" /\ NotifyAll(t, "asleepNotFull", "push", "broadcastNotEmpty")
    <3>1. At("asleepNotFull")' = {} /\ At("asleepNotEmpty")' = At("asleepNotEmpty")
      BY <2>4 DEF NotifyAll, At
    <3>2. At("signalNotEmpty")' \cup At("pop")' = At("signalNotEmpty") \cup At("pop")
      BY <2>4 DEF NotifyAll, At
    <3> QED BY <2>1, <3>1, <3>2 DEF SignalsSuffice
  <2>5. CASE pc[t] = "broadcastNotEmpty" /\ NotifyAll(t, "asleepNotEmpty", "pop", "idle")
    <3>1. At("asleepNotEmpty")' = {} /\ At("asleepNotFull")' = At("asleepNotFull")
      BY <2>5 DEF NotifyAll, At
    <3>2. At("signalNotFull")' \cup At("push")' = At("signalNotFull") \cup At("push")
      BY <2>5 DEF NotifyAll, At
    <3> QED BY <2>1, <3>1, <3>2 DEF SignalsSuffice
  <2> QED BY <1>5, <2>2, <2>3, <2>4, <2>5 DEF Notify
<1> QED BY <1>1, <1>2, <1>3, <1>4, <1>5 DEF Next

\* After stop() nobody falls asleep, and a broadcast goes only after it has woken its
\* sleepers.
LEMMA StoppedStep ==
  ASSUME TypeOK, BroadcastsComing, stopped, [Next]_vars
  PROVE  BroadcastsComing'
<1>1. CASE UNCHANGED vars
  BY <1>1 DEF vars, BroadcastsComing, At
<1>2. ASSUME NEW t \in Thread, NEW l \in Location, GoTo(t, l),
             pc[t] \notin {"broadcastNotFull", "broadcastNotEmpty"},
             l \notin {"asleepNotFull", "asleepNotEmpty"}
      PROVE  BroadcastsComing'
  <2>1. \A s \in Thread : pc'[s] = IF s = t THEN l ELSE pc[s]
    BY <1>2 DEF GoTo, TypeOK
  <2>2. /\ At("asleepNotFull")' \subseteq At("asleepNotFull")
        /\ At("asleepNotEmpty")' \subseteq At("asleepNotEmpty")
        /\ At("broadcastNotFull") \subseteq At("broadcastNotFull")'
        /\ At("broadcastNotEmpty") \subseteq At("broadcastNotEmpty")'
    BY <1>2, <2>1 DEF At
  <2> QED BY <2>2 DEF BroadcastsComing
<1>3. ASSUME NEW t \in Thread, Stop(t)
      PROVE  BroadcastsComing'
  BY <1>2, <1>3 DEF Stop, Location
<1>4. ASSUME NEW t \in Thread, Call(t) \/ TryPush(t) \/ TryPop(t) \/ SpuriousWake(t)
      PROVE  BroadcastsComing'
  BY <1>2, <1>4 DEF Call, TryPush, TryPop, SpuriousWake, Location
<1>5. ASSUME NEW t \in Thread, Progress(t), ~Notify(t)
      PROVE  BroadcastsComing'
  BY <1>2, <1>5 DEF Progress, PushFails, PushSleeps, PushSucceeds, PopFails, PopSleeps, PopSucceeds, Location
<1>6. ASSUME NEW t \in Thread, Notify(t)
      PROVE  BroadcastsComing'
  <2>1. CASE /\ pc[t] = "signalNotEmpty" \/ pc[t] = "signalNotFull"
             /\ GoTo(t, "idle")
    BY <1>2, <2>1 DEF Location
  <2>2. ASSUME NEW s \in Thread, NEW woken \in {"push", "pop"},
               pc[t] = "signalNotEmpty" \/ pc[t] = "signalNotFull",
               pc[s] \in {"asleepNotFull", "asleepNotEmpty"},
               pc' = [pc EXCEPT ![t] = "idle", ![s] = woken]
        PROVE  BroadcastsComing'
    <3>1. \A r \in Thread : pc'[r] = IF r = s THEN woken ELSE IF r = t THEN "idle" ELSE pc[r]
      BY <2>2 DEF TypeOK
    <3>2. /\ At("asleepNotFull")' \subseteq At("asleepNotFull")
          /\ At("asleepNotEmpty")' \subseteq At("asleepNotEmpty")
      <4>1. \A r \in Thread : pc'[r] \in {"asleepNotFull", "asleepNotEmpty"} => pc'[r] = pc[r]
        <5>1. woken \notin {"asleepNotFull", "asleepNotEmpty"}
          BY <2>2
        <5> QED BY <3>1, <5>1
      <4> QED BY <4>1 DEF At
    <3>3. \A r \in Thread : pc[r] \in {"broadcastNotFull", "broadcastNotEmpty"} => pc'[r] = pc[r]
      <4>1. /\ pc[t] \notin {"broadcastNotFull", "broadcastNotEmpty"}
            /\ pc[s] \notin {"broadcastNotFull", "broadcastNotEmpty"}
        BY <2>2
      <4> QED BY <3>1, <4>1
    <3>4. /\ At("broadcastNotFull") \subseteq At("broadcastNotFull")'
          /\ At("broadcastNotEmpty") \subseteq At("broadcastNotEmpty")'
      BY <3>3 DEF At
    <3> QED BY <3>2, <3>4 DEF BroadcastsComing
  <2>3. CASE pc[t] = "broadcastNotFull" /\ NotifyAll(t, "asleepNotFull", "push", "broadcastNotEmpty")
    BY <2>3 DEF NotifyAll, At, BroadcastsComing
  <2>4. CASE pc[t] = "broadcastNotEmpty" /\ NotifyAll(t, "asleepNotEmpty", "pop", "idle")
    BY <2>4 DEF NotifyAll, At, BroadcastsComing
  <2> QED BY <1>6, <2>1, <2>2, <2>3, <2>4 DEF Notify, NotifyOne, At
<1> QED BY <1>1, <1>3, <1>4, <1>5, <1>6 DEF Next

\* No wake-up is lost, for any number of threads: although notify_one runs after the
\* unlock and wakes only one thread, a sleeper that could go on is always matched by
\* a signal still to come or a thread about to look (RingBuffer.tpp:16-43, 52-74).
THEOREM NoWakeupLost == Spec => []NoLostWakeup
<1>1. Init => NoLostWakeup
  BY DEF Init, NoLostWakeup, SignalsSuffice, At
<1>2. RingInv /\ RingInv' /\ NoLostWakeup /\ [Next]_vars => NoLostWakeup'
  <2> SUFFICES ASSUME RingInv, RingInv', NoLostWakeup, [Next]_vars
               PROVE  NoLostWakeup'
    OBVIOUS
  <2>1. TypeOK /\ TypeOK' /\ stopped' \in {stopped, TRUE} /\ stopped \in BOOLEAN
    BY StepEffect DEF RingInv, TypeOK
  <2>2. CASE stopped
    BY <2>1, <2>2, StoppedStep DEF NoLostWakeup
  <2>3. CASE ~stopped /\ ~stopped'
    BY <2>1, <2>3, OpenStep DEF NoLostWakeup
  <2>4. CASE ~stopped /\ stopped'
    <3>1. PICK t \in Thread : Stop(t)
      BY <2>4 DEF Next, vars, ring, Call, TryPush, TryPop, Progress, PushFails, PushSleeps,
         PushSucceeds, PopFails, PopSleeps, PopSucceeds, Notify, SpuriousWake
    <3>2. t \in At("broadcastNotFull")'
      BY <2>1, <3>1 DEF Stop, GoTo, At, TypeOK
    <3> QED BY <2>4, <3>2 DEF NoLostWakeup, BroadcastsComing
  <2> QED BY <2>1, <2>2, <2>3, <2>4
<1> QED BY <1>1, <1>2, RingConsistent, PTL DEF Spec
-----------------------------------------------------------------------------
(* The buffer implements the bounded channel.                               *)

LEMMA IntervalLength ==
  ASSUME NEW m \in Nat, NEW n \in Nat, 1 .. m = 1 .. n
  PROVE  m = n
<1>1. CASE m < n
  <2>1. n \in 1 .. n /\ n \notin 1 .. m
    BY <1>1
  <2> QED BY <2>1
<1>2. CASE n < m
  <2>1. m \in 1 .. m /\ m \notin 1 .. n
    BY <1>2
  <2> QED BY <2>1
<1> QED BY <1>1, <1>2

\* The slot of the i-th queued record when the oldest is at h.
SlotFrom(h, i) == Wrap(h + i - 1)

\* The queued records as a sequence, for any value of head, count and slots.
SeqFrom(h, n, s) == [i \in 1 .. n |-> s[(h + i - 1) % Cap]]

LEMMA QueuedShape ==
  ASSUME NEW h \in Index, NEW n \in 0 .. Cap, NEW s \in [Index -> Record]
  PROVE  /\ SeqFrom(h, n, s) \in Seq(Record) /\ Len(SeqFrom(h, n, s)) = n
         /\ DOMAIN SeqFrom(h, n, s) = 1 .. n
         /\ \A i \in 1 .. n : /\ SlotFrom(h, i) \in Index
                              /\ SeqFrom(h, n, s)[i] = s[SlotFrom(h, i)]
<1> DEFINE seq == SeqFrom(h, n, s)
<1>1. \A i \in 1 .. n : h + i - 1 \in Nat /\ h + i - 1 < 2 * Cap
  BY CapAssumption DEF Index
<1>2. \A i \in 1 .. n : (h + i - 1) % Cap = SlotFrom(h, i) /\ SlotFrom(h, i) \in Index
  BY <1>1, WrapIsModulo DEF SlotFrom
<1>3. /\ seq \in [1 .. n -> Record] /\ DOMAIN seq = 1 .. n
      /\ \A i \in 1 .. n : seq[i] = s[SlotFrom(h, i)]
  BY <1>2 DEF SeqFrom
<1> HIDE DEF seq
<1>4. n \in Nat
  BY CapAssumption
<1>5. seq \in Seq(Record)
  BY <1>3, <1>4, SeqDef
<1>6. DOMAIN seq = 1 .. Len(seq) /\ Len(seq) \in Nat
  BY <1>5, LenProperties
<1>7. Len(seq) = n
  BY <1>3, <1>4, <1>6, IntervalLength
<1> QED BY <1>2, <1>3, <1>5, <1>7 DEF seq

LEMMA QueuedIsSeqFrom == Queued = SeqFrom(head, count, slots) /\ Queued' = SeqFrom(head', count', slots')
BY DEF Queued, SeqFrom

\* SeqEqual with the length named.
LEMMA SameSeq ==
  ASSUME NEW m \in Int, NEW s \in Seq(Record), NEW u \in Seq(Record), Len(s) = m, Len(u) = m,
         \A i \in 1 .. m : s[i] = u[i]
  PROVE  s = u
BY SeqEqual

LEMMA PushIsPut ==
  ASSUME RingInv, RingInv', NEW t \in Thread, RingPush(t), stopped' = stopped
  PROVE  Channel!Put(t)
<1>1. /\ count \in 0 .. Cap /\ count < Cap /\ head \in Index /\ Cap \in Nat
      /\ slots \in [Index -> Record] /\ item \in [Thread -> Record] /\ tail \in Index
  BY CapAssumption DEF RingInv, TypeOK, RingPush
<1>2. /\ slots' = [slots EXCEPT ![tail] = item[t]] /\ count' = count + 1 /\ head' = head
      /\ item' = [item EXCEPT ![t] = slots[tail]]
  BY DEF RingPush, PushLocked
<1>3. tail = Wrap(head + count) /\ \A i \in 1 .. count : SlotFrom(head, i) # tail
  <2>1. head + count \in Nat /\ head + count < 2 * Cap
    BY <1>1 DEF Index
  <2>2. tail = Wrap(head + count)
    BY <2>1, WrapIsModulo DEF RingInv, WindowInv
  <2> QED BY <1>1, <2>2 DEF SlotFrom, Wrap, Index
<1>4. /\ Queued \in Seq(Record) /\ Len(Queued) = count /\ DOMAIN Queued = 1 .. count
      /\ \A i \in 1 .. count : Queued[i] = slots[SlotFrom(head, i)] /\ SlotFrom(head, i) \in Index
  BY <1>1, QueuedShape, QueuedIsSeqFrom
<1>5. /\ Queued' \in Seq(Record) /\ Len(Queued') = count + 1
      /\ \A i \in 1 .. count + 1 : Queued'[i] = slots'[SlotFrom(head, i)]
  <2>1. head' \in Index /\ count' \in 0 .. Cap /\ slots' \in [Index -> Record]
    BY DEF RingInv, TypeOK
  <2>2. /\ Queued' \in Seq(Record) /\ Len(Queued') = count'
        /\ \A i \in 1 .. count' : Queued'[i] = slots'[SlotFrom(head', i)]
    BY <2>1, QueuedShape, QueuedIsSeqFrom
  <2> QED BY <1>2, <2>2
<1>6. SlotFrom(head, count + 1) = tail
  BY <1>1, <1>3 DEF SlotFrom, Index
<1>7. Queued' = Append(Queued, item[t])
  <2> DEFINE appended == Append(Queued, item[t])
  <2>1. /\ appended \in Seq(Record)
        /\ Len(appended) = count + 1
        /\ \A i \in 1 .. count : appended[i] = Queued[i]
        /\ appended[count + 1] = item[t]
    BY <1>1, <1>4, AppendProperties
  <2>2. \A i \in 1 .. count + 1 : Queued'[i] = appended[i]
    <3>1. ASSUME NEW i \in 1 .. count
          PROVE  Queued'[i] = appended[i]
      <4>1. SlotFrom(head, i) \in Index /\ SlotFrom(head, i) # tail /\ i \in 1 .. count + 1
        BY <1>1, <1>3, <1>4
      <4>2. slots'[SlotFrom(head, i)] = slots[SlotFrom(head, i)]
        BY <1>1, <1>2, <4>1
      <4> QED BY <1>4, <1>5, <2>1, <4>1, <4>2
    <3>2. Queued'[count + 1] = appended[count + 1]
      <4>1. count + 1 \in 1 .. count + 1
        BY <1>1
      <4> QED BY <1>1, <1>2, <1>5, <1>6, <2>1, <4>1
    <3>3. \A i \in 1 .. count + 1 : i \in 1 .. count \/ i = count + 1
      BY <1>1
    <3> QED BY <3>1, <3>2, <3>3
  <2>3. count + 1 \in Int
    BY <1>1
  <2> HIDE DEF appended
  <2>4. Queued' = appended
    BY <1>5, <2>1, <2>2, <2>3, SameSeq
  <2> QED BY <2>4 DEF appended
<1>8. slots[tail] \in Record \ (Channel!Queued \cup Channel!Held)
  <2>1. slots[tail] \in Record /\ slots[tail] \notin Channel!Held
    BY <1>1 DEF RingInv, RecordsConserved, Channel!Held
  <2>2. \A i \in 1 .. count : Queued[i] # slots[tail]
    BY <1>1, <1>3, <1>4 DEF RingInv, RecordsConserved
  <2> QED BY <1>4, <2>1, <2>2 DEF Channel!Queued
<1> QED BY <1>1, <1>2, <1>4, <1>7, <1>8 DEF Channel!Put, RingPush

LEMMA PopIsTake ==
  ASSUME RingInv, RingInv', NEW t \in Thread, RingPop(t), stopped' = stopped
  PROVE  Channel!Take(t)
<1>1. /\ count \in 1 .. Cap /\ head \in Index /\ Cap \in Nat
      /\ slots \in [Index -> Record] /\ item \in [Thread -> Record]
  BY CapAssumption DEF RingInv, TypeOK, RingPop
<1>2. /\ slots' = [slots EXCEPT ![head] = item[t]] /\ count' = count - 1
      /\ head' = (head + 1) % Cap
      /\ item' = [item EXCEPT ![t] = slots[head]]
  BY DEF RingPop, PopLocked
<1>3. /\ Queued \in Seq(Record) /\ Len(Queued) = count
      /\ \A i \in 1 .. count : Queued[i] = slots[SlotFrom(head, i)] /\ SlotFrom(head, i) \in Index
  BY <1>1, QueuedShape, QueuedIsSeqFrom
<1>4. /\ Queued' \in Seq(Record) /\ Len(Queued') = count - 1
      /\ \A i \in 1 .. count - 1 : Queued'[i] = slots'[SlotFrom(head', i)]
  <2>1. head' \in Index /\ count' \in 0 .. Cap /\ slots' \in [Index -> Record]
    BY DEF RingInv, TypeOK
  <2>2. /\ Queued' \in Seq(Record) /\ Len(Queued') = count'
        /\ \A i \in 1 .. count' : Queued'[i] = slots'[SlotFrom(head', i)]
    BY <2>1, QueuedShape, QueuedIsSeqFrom
  <2> QED BY <1>2, <2>2
<1>5. head' = Wrap(head + 1)
  BY <1>1, <1>2, WrapIsModulo DEF Index
<1>6. \A i \in 1 .. count - 1 : SlotFrom(head', i) = SlotFrom(head, i + 1) /\ SlotFrom(head, i + 1) # head
  BY <1>1, <1>5 DEF SlotFrom, Wrap, Index
<1>7. SlotFrom(head, 1) = head
  BY <1>1 DEF SlotFrom, Wrap, Index
<1>8. Queued # <<>>
  BY <1>1, <1>3, EmptySeq
<1>9. Head(Queued) = slots[head]
  BY <1>1, <1>3, <1>7, <1>8
<1>10. Queued' = Tail(Queued)
  <2>1. /\ Tail(Queued) \in Seq(Record) /\ Len(Tail(Queued)) = count - 1
        /\ \A i \in 1 .. count - 1 : Tail(Queued)[i] = Queued[i + 1]
    BY <1>3, <1>8, HeadTailProperties
  <2>2. ASSUME NEW i \in 1 .. count - 1
        PROVE  Queued'[i] = Tail(Queued)[i]
    <3>1. i + 1 \in 1 .. count
      BY <1>1
    <3>2. slots'[SlotFrom(head, i + 1)] = slots[SlotFrom(head, i + 1)]
      BY <1>1, <1>2, <1>3, <1>6, <3>1
    <3> QED BY <1>3, <1>4, <1>6, <2>1, <3>1, <3>2
  <2> QED BY <1>1, <1>4, <2>1, <2>2, SameSeq
<1> QED BY <1>2, <1>8, <1>9, <1>10 DEF Channel!Take

\* Every capacity and number of threads: what callers see is a first-in first-out
\* channel that hands out each record once, refuses when full or closed, and still
\* delivers what it holds after stop() (RingBuffer.h:14-106).
THEOREM ImplementsChannel == Spec => ChannelSpec
<1>1. Init => Channel!Init
  <2> SUFFICES ASSUME Init
               PROVE  Channel!Init
    OBVIOUS
  <2>1. Queued = <<>>
    BY DEF Init, Queued
  <2> QED BY <2>1 DEF Init, Channel!Init
<1>2. RingInv /\ RingInv' /\ [Next]_vars => [Channel!Next]_(Channel!vars)
  <2> SUFFICES ASSUME RingInv, RingInv', [Next]_vars
               PROVE  [Channel!Next]_(Channel!vars)
    OBVIOUS
  <2>1. ASSUME NEW t \in Thread, RingPush(t), stopped' = stopped
        PROVE  Channel!Next
    BY <2>1, PushIsPut DEF Channel!Next
  <2>2. ASSUME NEW t \in Thread, RingPop(t), stopped' = stopped
        PROVE  Channel!Next
    BY <2>2, PopIsTake DEF Channel!Next
  <2>3. CASE UNCHANGED ring /\ stopped' \in {stopped, TRUE}
    <3>1. Queued' = Queued /\ item' = item
      BY <2>3 DEF ring, Queued
    <3>2. CASE stopped' = stopped
      BY <3>1, <3>2 DEF Channel!vars
    <3>3. CASE stopped' = TRUE
      BY <3>1, <3>3 DEF Channel!Next, Channel!Close
    <3> QED BY <2>3, <3>2, <3>3
  <2> QED BY <2>1, <2>2, <2>3, StepEffect DEF RingInv
<1> QED BY <1>1, <1>2, RingConsistent, PTL DEF Spec, ChannelSpec, Channel!Spec
=============================================================================
