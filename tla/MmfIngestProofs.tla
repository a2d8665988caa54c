-------------------------- MODULE MmfIngestProofs --------------------------
(***************************************************************************)
(* For any number of frames and sessions: the buffer stays the reader's     *)
(* while it works on it, a frame that was finished when the reader took it  *)
(* is delivered whole and is one of the current session, and every claim is *)
(* settled at most once.  Nothing is claimed about a frame the producer is  *)
(* still copying: TLC's run MmfEarlyFlag shows what happens then.            *)
(***************************************************************************)
EXTENDS MmfIngest, TLAPS

Owning == {"pop", "drop", "half1", "half2", "free"}

\* Once Start() has released the flag, a raised flag is a claim of this session.
FlagIsFresh == main \in {"reset", "arm"} \/ reader # "none" =>
                 (canRead => claimedIn = session)

\* Only the reader lowers the flag while it owns the buffer, and a claim is settled
\* just before it does.
ClaimsOpen ==
  /\ reader \in Owning => canRead
  /\ canRead => claimed # 0
  /\ canRead /\ reader # "drop" => consumed[claimed] = 0
  /\ \A n \in Frame : consumed[n] =< IF n =< claimed THEN 1 ELSE 0

MmfInv == TypeOK /\ FlagIsFresh /\ ClaimsOpen

USE DEF MmfInv, FlagIsFresh, ClaimsOpen, Owning, TypeOK, ReaderPcs, Frame, Half, Whole

LEMMA MmfInit == Init => MmfInv
<1> SUFFICES ASSUME Init
             PROVE  MmfInv
  OBVIOUS
<1>1. 0 \in 0 .. MaxFrames /\ 0 \in 0 .. MaxSessions
  BY BoundAssumption
<1>2. TypeOK
  BY <1>1 DEF Init
<1>3. FlagIsFresh /\ ClaimsOpen
  BY <1>1, BoundAssumption DEF Init
<1> QED BY <1>2, <1>3

\* The producer.
LEMMA ProducerKeeps ==
  ASSUME MmfInv, Claim \/ ProducerStep
  PROVE  MmfInv'
<1>1. CASE Claim
  <2>1. claimed + 1 \in Frame /\ claimed \in Nat
    BY <1>1, BoundAssumption DEF Claim
  <2>2. consumed[claimed + 1] = 0
    <3>1. consumed \in [Frame -> Nat] /\ ~(claimed + 1 =< claimed)
      BY <2>1
    <3>2. consumed[claimed + 1] =< IF claimed + 1 =< claimed THEN 1 ELSE 0
      BY <2>1
    <3>3. consumed[claimed + 1] \in Nat
      BY <2>1, <3>1
    <3> HIDE DEF MmfInv
    <3> QED BY <3>1, <3>2, <3>3
  <2>3. /\ claimed' = claimed + 1 /\ claimedIn' = session /\ canRead' = TRUE
        /\ producer' = "half1" /\ reader \notin Owning
        /\ UNCHANGED <<payload, event, srcStopped, reader, copy, main,
                      session, writtenIn, finished, consumed>>
    BY <1>1 DEF Claim
  <2>4. TypeOK'
    BY <2>1, <2>3
  <2>5. FlagIsFresh' /\ ClaimsOpen'
    BY <2>1, <2>2, <2>3
  <2> QED BY <2>4, <2>5
<1>2. ASSUME NEW h \in Half, NEW here \in {"half1", "half2"}, NEW next \in {"half2", "signal"},
             WriteHalf(h, here, next)
      PROVE  MmfInv'
  <2>1. /\ payload' = [payload EXCEPT ![h] = claimed]
        /\ writtenIn' = [writtenIn EXCEPT ![claimed] = session] /\ producer' = next
        /\ UNCHANGED <<canRead, event, claimed, srcStopped, reader, copy,
                      main, session, claimedIn, finished, consumed>>
    BY <1>2 DEF WriteHalf, history
  <2>2. /\ payload' \in [Half -> 0 .. MaxFrames]
        /\ writtenIn' \in [Frame -> 0 .. MaxSessions]
    BY <2>1
  <2>3. TypeOK'
    BY <2>1, <2>2
  <2>4. FlagIsFresh' /\ ClaimsOpen'
    BY <2>1
  <2> QED BY <2>3, <2>4
<1>3. CASE Signal
  BY <1>3 DEF Signal, history
<1> QED BY <1>1, <1>2, <1>3 DEF ProducerStep

\* The ingest thread.
LEMMA ReaderKeeps ==
  ASSUME MmfInv, ReaderStep \/ TimeOut \/ WaitFails
  PROVE  MmfInv'
<1> USE DEF Reader, ReaderLocal, ReaderAlone
<1>1. CASE CheckStopped
  BY <1>1 DEF CheckStopped
<1>2. CASE CheckFlag
  BY <1>2 DEF CheckFlag
<1>3. CASE Wake
  BY <1>3 DEF Wake
<1>4. CASE PopRaw
  <2>1. CASE reader' = "half1"
    BY <1>4, <2>1 DEF PopRaw
  <2>2. CASE Reader("pop", "drop") /\ Consume
    <3>1. claimed \in Frame /\ consumed[claimed] = 0
      BY <2>2, BoundAssumption
    <3> QED BY <1>4, <2>2, <3>1 DEF PopRaw, Consume
  <2> QED BY <1>4, <2>1, <2>2 DEF PopRaw
<1>5. CASE Drop
  BY <1>5 DEF Drop
<1>6. ASSUME NEW h \in Half, ReadHalf(h, "half1", "half2") \/ ReadHalf(h, "half2", "free")
      PROVE  MmfInv'
  <2>1. reader \in {"half1", "half2"} /\ reader' \in {"half2", "free"}
    <3>1. CASE ReadHalf(h, "half1", "half2")
      BY <3>1 DEF ReadHalf
    <3>2. CASE ReadHalf(h, "half2", "free")
      BY <3>2 DEF ReadHalf
    <3> QED BY <1>6, <3>1, <3>2
  <2>2. /\ UNCHANGED <<canRead, event, consumed>>
        /\ UNCHANGED <<payload, producer, claimed, srcStopped, main, session, claimedIn,
                      writtenIn, finished>>
    BY <1>6 DEF ReadHalf
  <2>3. copy' \in [Half -> 0 .. MaxFrames]
    <3>1. copy' = [copy EXCEPT ![h] = payload[h]]
      BY <1>6 DEF ReadHalf
    <3> QED BY <3>1
  <2> QED BY <2>1, <2>2, <2>3
<1>7. CASE Free
  <2>1. claimed \in Frame /\ consumed[claimed] = 0
    BY <1>7, BoundAssumption DEF Free
  <2>2. consumed' = [consumed EXCEPT ![claimed] = 1]
    BY <1>7, <2>1 DEF Free, Consume
  <2>3. /\ canRead' = FALSE /\ reader' = "deliver" /\ UNCHANGED <<event, copy>>
        /\ UNCHANGED <<payload, producer, claimed, srcStopped, main, session, claimedIn,
                      writtenIn, finished>>
        /\ main \notin {"reset", "arm"}
    BY <1>7 DEF Free
  <2>4. consumed' \in [Frame -> Nat] /\ \A n \in Frame : consumed'[n] =< IF n =< claimed THEN 1 ELSE 0
    BY <2>1, <2>2
  <2> QED BY <2>3, <2>4
<1>8. CASE Deliver
  BY <1>8 DEF Deliver
<1>9. CASE TimeOut
  BY <1>9 DEF TimeOut
<1>10. CASE WaitFails
  BY <1>10 DEF WaitFails
<1> QED BY <1>1, <1>2, <1>3, <1>4, <1>5, <1>6, <1>7, <1>8, <1>9, <1>10 DEF ReaderStep

\* Start() and Stop().
LEMMA MainKeeps ==
  ASSUME MmfInv, KeyS \/ KeyX \/ MainStep
  PROVE  MmfInv'
<1> USE DEF Main, MainLocal
<1>1. CASE KeyS
  <2>1. session' \in 0 .. MaxSessions
    BY <1>1, BoundAssumption DEF KeyS
  <2> QED BY <1>1, <2>1 DEF KeyS
<1>2. CASE KeyX
  BY <1>2 DEF KeyX
<1>3. CASE ClearEvent
  BY <1>3 DEF ClearEvent
<1>4. CASE Arm
  BY <1>4 DEF Arm
<1>5. CASE WakeReader
  BY <1>5 DEF WakeReader
<1>6. CASE Join
  BY <1>6 DEF Join
<1> QED BY <1>1, <1>2, <1>3, <1>4, <1>5, <1>6 DEF MainStep

LEMMA MmfInvariant == Spec => []MmfInv
<1>1. MmfInv /\ [Next]_vars => MmfInv'
  <2> SUFFICES ASSUME MmfInv, [Next]_vars
               PROVE  MmfInv'
    OBVIOUS
  <2>1. CASE UNCHANGED vars
    BY <2>1 DEF vars
  <2> QED BY <2>1, ProducerKeeps, ReaderKeeps, MainKeeps DEF Next
<1> QED BY <1>1, MmfInit, PTL DEF Spec

\* A frame is delivered or counted as dropped once, whatever the reader, the producer
\* and the console do in between (MmfFrameSource.cpp:108-125).
THEOREM SettledOnce == Spec => []ConsumedOnce
<1>1. MmfInv => ConsumedOnce
  <2> SUFFICES ASSUME MmfInv, NEW n \in Frame
               PROVE  consumed[n] =< 1
    BY DEF ConsumedOnce
  <2>1. consumed[n] \in Nat /\ consumed[n] =< IF n =< claimed THEN 1 ELSE 0
    OBVIOUS
  <2>2. CASE n =< claimed
    BY <2>1, <2>2
  <2>3. CASE ~(n =< claimed)
    BY <2>1, <2>3
  <2> QED BY <2>2, <2>3
<1> QED BY <1>1, MmfInvariant, PTL
-----------------------------------------------------------------------------
(* What is in the buffer and in the strip.                                 *)

\* The producer writes the frame of its last claim, in the session of that claim or
\* a later one.
PayloadIsClaims ==
  /\ claimedIn =< session
  /\ producer \in {"half1", "half2"} => claimed # 0
  /\ producer = "half2" => payload[1] = claimed
  /\ producer # "half1" /\ claimed # 0 =>
       claimedIn =< writtenIn[claimed] /\ writtenIn[claimed] =< session
  /\ Written /\ claimed # 0 => payload = Whole(claimed)

\* While the reader owns a finished frame the producer cannot claim the buffer.
CopyIsClaims ==
  /\ reader \in Owning /\ finished => Written
  /\ reader \in {"half2", "free"} /\ finished => copy[1] = claimed
  /\ reader = "free" /\ finished => copy[2] = claimed
  /\ FinishedFrameIsDelivered

DataInv == PayloadIsClaims /\ CopyIsClaims

LEMMA DataInit == Init => DataInv
<1> SUFFICES ASSUME Init
             PROVE  DataInv
  OBVIOUS
<1> QED BY BoundAssumption DEF Init, DataInv, PayloadIsClaims, CopyIsClaims, Written,
             FinishedFrameIsDelivered

\* The producer leaves a finished frame alone while the flag is up.
LEMMA ProducerKeepsData ==
  ASSUME MmfInv, MmfInv', DataInv, Claim \/ ProducerStep
  PROVE  DataInv'
<1> USE DEF DataInv, PayloadIsClaims, CopyIsClaims, Written, FinishedFrameIsDelivered
<1>1. CASE Claim
  <2>1. claimed \in Nat /\ session \in Nat /\ claimed' = claimed + 1 /\ claimedIn' = session
    BY <1>1, BoundAssumption DEF Claim
  <2>2. reader \notin Owning /\ producer' = "half1"
    BY <1>1 DEF Claim
  <2>3. UNCHANGED <<payload, reader, copy, session, writtenIn, finished>>
    BY <1>1 DEF Claim
  <2>4. PayloadIsClaims'
    BY <2>1, <2>2, <2>3
  <2>5. CopyIsClaims'
    BY <2>2, <2>3
  <2> QED BY <2>4, <2>5
<1>2. ASSUME NEW h \in Half, NEW here, NEW next, WriteHalf(h, here, next),
             \/ h = 1 /\ here = "half1" /\ next = "half2"
             \/ h = 2 /\ here = "half2" /\ next = "signal"
      PROVE  DataInv'
  <2>1. /\ producer = here /\ producer' = next /\ here \in {"half1", "half2"}
        /\ payload' = [payload EXCEPT ![h] = claimed]
        /\ writtenIn' = [writtenIn EXCEPT ![claimed] = session]
        /\ UNCHANGED <<claimed, reader, copy, session, claimedIn, finished>>
    BY <1>2 DEF WriteHalf, history
  <2>2. claimed \in Frame /\ session \in Nat /\ claimedIn \in Nat
    BY <2>1, BoundAssumption
  <2>3. writtenIn'[claimed] = session /\ \A n \in Frame : n # claimed => writtenIn'[n] = writtenIn[n]
    BY <2>1, <2>2
  <2>4. PayloadIsClaims'
    <3>1. CASE h = 1
      BY <1>2, <2>1, <2>2, <2>3, <3>1
    <3>2. CASE h = 2
      <4>1. payload'[1] = claimed /\ payload'[2] = claimed /\ producer' = "signal"
        BY <1>2, <2>1, <3>2
      <4>2. payload' \in [Half -> 0 .. MaxFrames]
        OBVIOUS
      <4>3. payload' = Whole(claimed)
        BY <4>1, <4>2
      <4>4. claimedIn =< writtenIn'[claimed] /\ writtenIn'[claimed] =< session
        BY <2>2, <2>3
      <4> QED BY <2>1, <4>1, <4>3, <4>4
    <3> QED BY <3>1, <3>2
  <2>5. ~(reader \in Owning /\ finished)
    BY <2>1
  <2>6. FinishedFrameIsDelivered'
    <3>1. SUFFICES ASSUME reader = "deliver", finished
                   PROVE  \E n \in Frame : copy = Whole(n) /\ writtenIn'[n] = session
      BY <2>1
    <3>2. PICK n \in Frame : copy = Whole(n) /\ writtenIn[n] = session
      BY <3>1
    <3> QED BY <2>3, <3>2
  <2> QED BY <2>1, <2>4, <2>5, <2>6
<1>3. CASE Signal
  <2>1. /\ producer = "signal" /\ producer' = "idle"
        /\ UNCHANGED <<payload, claimed, reader, copy, session, claimedIn, writtenIn, finished>>
    BY <1>3 DEF Signal, history
  <2> QED BY <2>1
<1>4. CASE WriteHalf(1, "half1", "half2")
  BY <1>2, <1>4
<1>5. CASE WriteHalf(2, "half2", "signal")
  BY <1>2, <1>5
<1> QED BY <1>1, <1>3, <1>4, <1>5 DEF ProducerStep

\* What the reader finds finished it copies half by half.
LEMMA ReaderKeepsData ==
  ASSUME MmfInv, MmfInv', DataInv, ReaderStep \/ TimeOut \/ WaitFails
  PROVE  DataInv'
<1> USE DEF DataInv, CopyIsClaims
<1>1. UNCHANGED <<payload, producer, claimed, session, claimedIn, writtenIn>>
  BY DEF ReaderStep, CheckStopped, CheckFlag, Wake, PopRaw, Drop, ReadHalf, Free, Deliver,
         TimeOut, WaitFails, ReaderLocal, ReaderAlone
<1>2. PayloadIsClaims'
  BY <1>1 DEF PayloadIsClaims, Written
<1> USE DEF Reader, ReaderLocal, ReaderAlone, Written, FinishedFrameIsDelivered
<1>3. CASE CheckStopped \/ Wake \/ Drop \/ Deliver \/ TimeOut \/ WaitFails
  <2>1. reader' \notin Owning \cup {"deliver"}
    BY <1>3 DEF CheckStopped, Wake, Drop, Deliver, TimeOut, WaitFails
  <2> QED BY <1>2, <2>1
<1>4. CASE CheckFlag
  <2>1. reader' \notin {"half2", "free", "deliver"} /\ (finished' => Written)
    BY <1>4 DEF CheckFlag
  <2> QED BY <1>1, <1>2, <2>1
<1>5. CASE PopRaw
  <2>1. reader = "pop" /\ reader' \in {"half1", "drop"} /\ finished' = finished
    BY <1>5 DEF PopRaw
  <2> QED BY <1>1, <1>2, <2>1
<1>6. CASE ReadHalf(1, "half1", "half2")
  <2>1. /\ reader = "half1" /\ reader' = "half2" /\ finished' = finished
        /\ copy' = [copy EXCEPT ![1] = payload[1]]
    BY <1>6 DEF ReadHalf
  <2>2. finished => payload[1] = claimed
    BY <2>1 DEF PayloadIsClaims
  <2> QED BY <1>1, <1>2, <2>1, <2>2
<1>7. CASE ReadHalf(2, "half2", "free")
  <2>1. /\ reader = "half2" /\ reader' = "free" /\ finished' = finished
        /\ copy' = [copy EXCEPT ![2] = payload[2]]
    BY <1>7 DEF ReadHalf
  <2>2. finished => payload[2] = claimed
    BY <2>1 DEF PayloadIsClaims
  <2> QED BY <1>1, <1>2, <2>1, <2>2
<1>8. CASE Free
  <2>1. reader = "free" /\ reader' = "deliver" /\ UNCHANGED <<copy, finished>>
    BY <1>8 DEF Free
  <2>2. claimed \in Frame /\ claimedIn = session /\ session \in Nat
    BY <2>1, BoundAssumption
  <2>3. ASSUME finished
        PROVE  copy = Whole(claimed) /\ writtenIn[claimed] = session
    <3>1. copy[1] = claimed /\ copy[2] = claimed
      BY <2>1, <2>3
    <3>2. copy = Whole(claimed)
      BY <3>1
    <3>3. claimedIn =< writtenIn[claimed] /\ writtenIn[claimed] =< session
      BY <2>1, <2>2, <2>3 DEF PayloadIsClaims
    <3>4. writtenIn \in [Frame -> 0 .. MaxSessions]
      OBVIOUS
    <3>5. writtenIn[claimed] \in 0 .. MaxSessions
      BY <2>2, <3>4
    <3> HIDE DEF MmfInv
    <3>6. writtenIn[claimed] = session
      BY <2>2, <3>3, <3>5, BoundAssumption
    <3> QED BY <3>2, <3>6
  <2> QED BY <1>1, <1>2, <2>1, <2>2, <2>3
<1> QED BY <1>3, <1>4, <1>5, <1>6, <1>7, <1>8 DEF ReaderStep

\* A new session begins only when there is no reader.
LEMMA MainKeepsData ==
  ASSUME MmfInv, MmfInv', DataInv, KeyS \/ KeyX \/ MainStep
  PROVE  DataInv'
<1> USE DEF DataInv
<1> HIDE DEF MmfInv
<1>1. UNCHANGED <<payload, producer, claimed, claimedIn, writtenIn, copy, finished>>
  BY DEF KeyS, KeyX, MainStep, ClearEvent, Arm, WakeReader, Join, MainLocal
<1>2. session' = session \/ (session' = session + 1 /\ reader = "none" /\ reader' = "none")
  BY DEF KeyS, KeyX, MainStep, ClearEvent, Arm, WakeReader, Join, Main
<1>3. reader' = reader \/ reader' \in {"none", "entry"}
  BY DEF KeyS, KeyX, MainStep, ClearEvent, Arm, WakeReader, Join, Main
<1>4. session \in Nat /\ claimedIn \in Nat /\ \A n \in Frame : writtenIn[n] \in Nat
  <2>1. /\ session \in 0 .. MaxSessions /\ claimedIn \in 0 .. MaxSessions
        /\ writtenIn \in [Frame -> 0 .. MaxSessions]
    BY DEF MmfInv
  <2> QED BY <2>1, BoundAssumption
<1>5. PayloadIsClaims'
  <2>1. claimed # 0 => claimed \in Frame
    BY BoundAssumption DEF MmfInv
  <2> QED BY <1>1, <1>2, <1>4, <2>1 DEF PayloadIsClaims, Written
<1>6. CopyIsClaims'
  <2>1. CASE reader' \in {"none", "entry"}
    BY <2>1 DEF CopyIsClaims, FinishedFrameIsDelivered
  <2>2. CASE reader' = reader /\ session' = session
    BY <1>1, <2>2 DEF CopyIsClaims, FinishedFrameIsDelivered, Written
  <2> QED BY <1>2, <1>3, <2>1, <2>2
<1> QED BY <1>5, <1>6

LEMMA DataInvariant == Spec => []DataInv
<1>1. MmfInv /\ MmfInv' /\ DataInv /\ [Next]_vars => DataInv'
  <2> SUFFICES ASSUME MmfInv, MmfInv', DataInv, [Next]_vars
               PROVE  DataInv'
    OBVIOUS
  <2>1. CASE UNCHANGED vars
    BY <2>1 DEF vars, DataInv, PayloadIsClaims, CopyIsClaims, Written, FinishedFrameIsDelivered
  <2> QED BY <2>1, ProducerKeepsData, ReaderKeepsData, MainKeepsData DEF Next
<1> QED BY <1>1, DataInit, MmfInvariant, PTL DEF Spec

\* A frame that was all there when ReadFrame saw the flag is delivered whole and was
\* written after Start(), whatever the producer and the console do in between
\* (MmfFrameSource.cpp:91-125, 151-158).
THEOREM FinishedIsDelivered == Spec => []FinishedFrameIsDelivered
<1>1. DataInv => FinishedFrameIsDelivered
  BY DEF DataInv, CopyIsClaims
<1> QED BY <1>1, DataInvariant, PTL
=============================================================================
