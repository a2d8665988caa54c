----------------------------- MODULE MmfIngest -----------------------------
(***************************************************************************)
(* The shared-memory hand-off between the camera process and the ingest     *)
(* thread: sfc::Frame (SharedFrameContract.h), MmfFrameSource and the main  *)
(* thread's IngestController::Start and Stop.                               *)
(*                                                                         *)
(* The producer is another program; its steps are the protocol the contract *)
(* documents (SharedFrameContract.h:52-55).  The payload is two halves, so  *)
(* that a copy takes two steps on either side.  Whether a raw buffer is     *)
(* free is up to Pipeline, which also shows that the push to qRaw fits.     *)
(***************************************************************************)
EXTENDS Naturals

CONSTANTS MaxFrames,   \* bound: frames the producer claims the buffer for
          MaxSessions  \* bound: listening sessions, 's' to 'x'

ASSUME BoundAssumption == MaxFrames \in Nat \ {0} /\ MaxSessions \in Nat \ {0}

VARIABLES
  canRead,     \* sfc::Frame::canRead
  payload,     \* sfc::Frame::payload_, the frame each half belongs to
  event,       \* the auto-reset event kReadyEventName
  producer,    \* where the producer is
  claimed,     \* number of the last frame the producer claimed the buffer for
  srcStopped,  \* MmfFrameSource::stopped_
  reader,      \* where the ingest thread is in ReadFrame
  copy,        \* the strip of the raw frame ReadFrame fills, and then pushes to qRaw
  main,        \* where the main thread is in Start, Stop or neither
  session,     \* history: sessions started
  claimedIn,   \* history: the session the last claim was made in
  writtenIn,   \* history: the session each frame was last written in
  finished,    \* history: the frame was all there when ReadFrame took it
  consumed     \* history: how often each claim was read or dropped

vars == <<canRead, payload, event, producer, claimed, srcStopped, reader, copy,
          main, session, claimedIn, writtenIn, finished, consumed>>

shared  == <<canRead, payload, event>>
history == <<session, claimedIn, finished, consumed>>

Frame == 1 .. MaxFrames
Half  == {1, 2}
Whole(n) == [h \in Half |-> n]

Init == /\ canRead = FALSE /\ payload = Whole(0) /\ event = FALSE
        /\ producer = "idle" /\ claimed = 0
        /\ srcStopped = FALSE
        /\ reader = "none" /\ copy = Whole(0)
        /\ main = "console"
        /\ session = 0 /\ claimedIn = 0 /\ writtenIn = [n \in Frame |-> 0]
        /\ finished = FALSE
        /\ consumed = [n \in Frame |-> 0]
-----------------------------------------------------------------------------
(* A definition named Bug... is a plausible mistake in the one that follows  *)
(* it; it shows that a property would notice, and nothing else uses it.     *)

(* The producer, as documented.                                            *)

\* InterlockedCompareExchange(&canRead, TRUE, FALSE) returned FALSE.
Claim == /\ producer = "idle" /\ claimed < MaxFrames /\ ~canRead
         /\ canRead' = TRUE
         /\ claimed' = claimed + 1
         /\ claimedIn' = session
         /\ producer' = "half1"
         /\ UNCHANGED <<payload, event, srcStopped, reader, copy, main,
                        session, writtenIn, finished, consumed>>

WriteHalf(h, here, next) ==
  /\ producer = here
  /\ payload' = [payload EXCEPT ![h] = claimed]
  /\ writtenIn' = [writtenIn EXCEPT ![claimed] = session]
  /\ producer' = next
  /\ UNCHANGED <<canRead, event, claimed, srcStopped, reader, copy,
                 main, history>>

Signal == /\ producer = "signal"
          /\ event' = TRUE
          /\ producer' = "idle"
          /\ UNCHANGED <<canRead, payload, claimed, srcStopped, reader, copy,
                         main, history, writtenIn>>

ProducerStep == \/ WriteHalf(1, "half1", "half2") \/ WriteHalf(2, "half2", "signal")
                \/ Signal
-----------------------------------------------------------------------------
(* MmfFrameSource::ReadFrame, called in a loop until it says Stopped.      *)

Reader(here, next) == reader = here /\ reader' = next

ReaderAlone == UNCHANGED <<payload, producer, claimed, srcStopped, main,
                           session, claimedIn, writtenIn>>
ReaderLocal == ReaderAlone /\ UNCHANGED finished

\* The producer has copied its frame.
Written == producer \in {"signal", "idle"}

CheckStopped ==
  /\ \/ Reader("entry", IF srcStopped THEN "exited" ELSE "flag")
     \/ Reader("woken", IF srcStopped THEN "exited" ELSE "reflag")
  /\ UNCHANGED <<canRead, event, copy, consumed>> /\ ReaderLocal

BugFlagOnlyAfterWait ==
  /\ \/ Reader("flag", "wait")
     \/ Reader("reflag", IF canRead THEN "pop" ELSE "entry")
  /\ finished' = (canRead /\ Written)
  /\ UNCHANGED <<canRead, event, copy, consumed>> /\ ReaderAlone

CheckFlag ==
  /\ \/ Reader("flag", IF canRead THEN "pop" ELSE "wait")
     \/ Reader("reflag", IF canRead THEN "pop" ELSE "entry") \* TimeOut
  /\ finished' = (canRead /\ Written)
  /\ UNCHANGED <<canRead, event, copy, consumed>> /\ ReaderAlone

\* WaitForSingleObject takes the signal of an auto-reset event with it.
Wake == /\ event /\ Reader("wait", "woken")
        /\ event' = FALSE
        /\ UNCHANGED <<canRead, copy, consumed>> /\ ReaderLocal

TimeOut == /\ Reader("wait", "entry")
           /\ UNCHANGED <<canRead, event, copy, consumed>> /\ ReaderLocal

\* WaitForSingleObject fails: Stopped.
WaitFails == /\ Reader("wait", "exited")
             /\ UNCHANGED <<canRead, event, copy, consumed>> /\ ReaderLocal

Consume == consumed' = [consumed EXCEPT ![claimed] = @ + 1]

PopRaw == /\ \/ Reader("pop", "half1") /\ UNCHANGED consumed
             \/ Reader("pop", "drop") /\ Consume
          /\ UNCHANGED <<canRead, event, copy>> /\ ReaderLocal

BugDropKeepsBuffer == /\ Reader("drop", "entry")
                      /\ UNCHANGED <<canRead, event, copy, consumed>>
                      /\ ReaderLocal

\* Dropped: the buffer goes back to the producer all the same.
Drop == /\ Reader("drop", "entry")
        /\ canRead' = FALSE
        /\ UNCHANGED <<event, copy, consumed>> /\ ReaderLocal

ReadHalf(h, here, next) ==
  /\ Reader(here, next)
  /\ copy' = [copy EXCEPT ![h] = payload[h]]
  /\ UNCHANGED <<canRead, event, consumed>> /\ ReaderLocal

Free == /\ Reader("free", "deliver")
        /\ canRead' = FALSE
        /\ Consume
        /\ UNCHANGED <<event, copy>> /\ ReaderLocal

Deliver == /\ Reader("deliver", "entry")
           /\ UNCHANGED <<canRead, event, copy, consumed>> /\ ReaderLocal

ReaderStep == \/ CheckStopped \/ CheckFlag \/ Wake \/ PopRaw \/ Drop
              \/ ReadHalf(1, "half1", "half2") \/ ReadHalf(2, "half2", "free")
              \/ Free \/ Deliver
-----------------------------------------------------------------------------
(* IngestController, called by the main thread.                            *)

Main(here, next) == main = here /\ main' = next

MainLocal == UNCHANGED <<payload, producer, claimed, copy, claimedIn,
                         writtenIn, finished, consumed>>

BugStartKeepsFlag ==
  /\ Main("console", "reset") /\ reader = "none" /\ session < MaxSessions
  /\ session' = session + 1
  /\ UNCHANGED <<canRead, event, srcStopped, reader>> /\ MainLocal

\* Start() with no thread to join.  MmfFrameSource::Start: release the flag,
\* clear the event, clear stopped_; only then is the thread created.
KeyS == /\ Main("console", "reset") /\ reader = "none" /\ session < MaxSessions
        /\ canRead' = FALSE
        /\ session' = session + 1
        /\ UNCHANGED <<event, srcStopped, reader>> /\ MainLocal

ClearEvent == /\ Main("reset", "arm")
              /\ event' = FALSE
              /\ UNCHANGED <<canRead, srcStopped, reader, session>> /\ MainLocal

Arm == /\ Main("arm", "console")
       /\ srcStopped' = FALSE
       /\ reader' = "entry"
       /\ UNCHANGED <<canRead, event, session>> /\ MainLocal

\* Stop(): 'x', 'q', or the ingest thread found dead.  The flag, then the
\* event, then the join.
KeyX == /\ Main("console", "wakeReader") /\ reader # "none"
        /\ srcStopped' = TRUE
        /\ UNCHANGED <<canRead, event, reader, session>> /\ MainLocal

BugStopWithoutEvent == /\ Main("wakeReader", "join")
                       /\ UNCHANGED <<canRead, event, srcStopped, reader, session>>
                       /\ MainLocal

WakeReader == /\ Main("wakeReader", "join")
              /\ event' = TRUE
              /\ UNCHANGED <<canRead, srcStopped, reader, session>> /\ MainLocal

Join == /\ Main("join", "console") /\ reader = "exited"
        /\ reader' = "none"
        /\ UNCHANGED <<canRead, event, srcStopped, session>> /\ MainLocal

MainStep == ClearEvent \/ Arm \/ WakeReader \/ Join

Next == \/ Claim \/ ProducerStep
        \/ ReaderStep \/ TimeOut \/ WaitFails
        \/ KeyS \/ KeyX \/ MainStep

Spec == Init /\ [][Next]_vars

\* Every thread that can run is scheduled, and the producer finishes the frame
\* it has begun.  No frame has to come, no key has to be pressed, and
\* WaitForSingleObject need never time out.
FairSpec == Spec /\ WF_vars(ProducerStep) /\ WF_vars(ReaderStep) /\ WF_vars(MainStep)
-----------------------------------------------------------------------------
ReaderPcs == {"none", "entry", "flag", "wait", "woken", "reflag", "pop", "drop",
              "half1", "half2", "free", "deliver", "exited"}

TypeOK ==
  /\ canRead \in BOOLEAN /\ event \in BOOLEAN /\ srcStopped \in BOOLEAN
  /\ payload \in [Half -> 0 .. MaxFrames]
  /\ copy \in [Half -> 0 .. MaxFrames]
  /\ producer \in {"idle", "half1", "half2", "signal"}
  /\ claimed \in 0 .. MaxFrames
  /\ reader \in ReaderPcs
  /\ main \in {"console", "reset", "arm", "wakeReader", "join"}
  /\ main \in {"reset", "arm"} => reader = "none"  \* MmfFrameSource.h:68
  /\ session \in 0 .. MaxSessions /\ claimedIn \in 0 .. MaxSessions
  /\ writtenIn \in [Frame -> 0 .. MaxSessions] /\ finished \in BOOLEAN
  /\ consumed \in [Frame -> Nat]

Listening == reader \notin {"none", "exited"}

\* A frame the producer had finished when ReadFrame saw the flag is delivered
\* whole, and it was written after Start(): until ReadFrame gives the buffer back
\* neither the producer nor the main thread changes it, and no finished frame of an
\* earlier session is left behind a raised flag (MmfFrameSource.cpp:91-125, 151-158).
\* For a frame that is not finished see DeliversFreshFrame.
FinishedFrameIsDelivered ==
  reader = "deliver" /\ finished =>
    \E n \in Frame : copy = Whole(n) /\ writtenIn[n] = session

\* The canRead protocol is there "to prevent frame tearing"
\* (SharedFrameContract.h:47-48), and "the first frame processed after Start() is
\* always one written after Start()" (MmfFrameSource.h:66-67): whatever ReadFrame
\* delivers is one whole frame of the current session.
DeliversFreshFrame ==
  reader = "deliver" => \E n \in Frame : copy = Whole(n) /\ writtenIn[n] = session

\* No claim is read twice, or dropped twice, or read and dropped: the reader
\* gives the buffer back on every path, the drop included
\* (MmfFrameSource.cpp:110-114).
ConsumedOnce == \A n \in Frame : consumed[n] =< 1

\* Stop() gets its thread back although the wait never times out: the flag is
\* set before the event, so a reader about to wait cannot miss both
\* (MmfFrameSource.h:75-76, "immediately instead of waiting for the timeout").
StopIsPrompt == main = "join" ~> main = "console"

\* A frame the producer has put into the buffer is taken or dropped while a
\* session lasts, although Start() may have cleared its event and the wait
\* never times out (MmfFrameSource.cpp:151-153).
ReadyFrameIsTaken ==
  canRead /\ Listening ~> ~canRead \/ srcStopped \/ reader = "exited"
=============================================================================
