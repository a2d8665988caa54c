-------------------------- MODULE IngestController --------------------------
(***************************************************************************)
(* IngestController (IngestController.h, IngestController.cpp) and the part *)
(* of the keyboard loop that uses it (textile_inference_gpu.cpp:222-257):   *)
(* the life of the ingest thread from session to session, the alive_ flag   *)
(* by which the console notices that the thread has died, and the listening *)
(* time the final report is given.  What the thread does while it runs is   *)
(* MmfIngest and Pipeline.                                                  *)
(***************************************************************************)
EXTENDS Integers

CONSTANT MaxTime     \* bound: ticks of the clock in a run

ASSUME TimeAssumption == MaxTime \in Nat \ {0}

VARIABLES
  main,         \* where the main thread is in the loop, in Start or in Stop
  quit,         \* 'q' has been pressed
  thread,       \* thread_: none, or how far the thread it owns has got
  alive,        \* alive_
  stopAsked,    \* MmfFrameSource::stopped_
  now,          \* the clock
  listenStart,  \* listenStart_
  listenedSec,  \* listenedSec_
  listened      \* history: the length of all the sessions closed so far

vars == <<main, quit, thread, alive, stopAsked, now, listenStart, listenedSec, listened>>
times == <<now, listenStart, listenedSec, listened>>

Init == /\ main = "console" /\ quit = FALSE
        /\ thread = "none" /\ alive = FALSE /\ stopAsked = FALSE
        /\ now = 0 /\ listenStart = 0 /\ listenedSec = 0 /\ listened = 0

GoTo(here, next) == main = here /\ main' = next

Tick == /\ now < MaxTime /\ main # "returned"
        /\ now' = now + 1
        /\ UNCHANGED <<main, quit, thread, alive, stopAsked, listenStart,
                       listenedSec, listened>>
-----------------------------------------------------------------------------
(* A definition named Bug... is a plausible mistake in the one that follows  *)
(* it; it shows that a property would notice, and nothing else uses it.     *)

(* Start(): source_.Start() and alive_, listenStart_, then the thread.     *)

BugStartNotAlive == /\ GoTo("console", "stamp") /\ thread = "none"
                    /\ stopAsked' = FALSE
                    /\ UNCHANGED <<quit, thread, alive, times>>

KeyS == /\ GoTo("console", "stamp") /\ thread = "none"
        /\ stopAsked' = FALSE
        /\ alive' = TRUE
        /\ UNCHANGED <<quit, thread, times>>

Stamp == /\ GoTo("stamp", "create")
         /\ listenStart' = now
         /\ UNCHANGED <<quit, thread, alive, stopAsked, now, listenedSec, listened>>

Create == /\ GoTo("create", "console")
          /\ thread' = "running"
          /\ UNCHANGED <<quit, alive, stopAsked, times>>

\* The constructor of std::thread throws: Run unwinds.
CreateThrows == /\ GoTo("create", "returned")
                /\ UNCHANGED <<quit, thread, alive, stopAsked, times>>

BugLeavesUnseen == /\ thread = "running"
                   /\ thread' = "leaving"
                   /\ UNCHANGED <<main, quit, alive, stopAsked, times>>

\* ReadFrame has returned Stopped, because it was asked to or because the wait
\* failed; alive_ is cleared a little before the thread is over.
ThreadLeaves == /\ thread = "running"
                /\ thread' = "leaving"
                /\ alive' = FALSE
                /\ UNCHANGED <<main, quit, stopAsked, times>>

ThreadEnds == /\ thread = "leaving"
              /\ thread' = "ended"
              /\ UNCHANGED <<main, quit, alive, stopAsked, times>>
-----------------------------------------------------------------------------
(* Stop(): source_.Stop(), the join, then the length of the session.       *)

BeginStop == /\ GoTo("console", "join") /\ thread # "none"
             /\ stopAsked' = TRUE
             /\ UNCHANGED <<thread, alive, times>>

KeyX == BeginStop /\ UNCHANGED quit

\* Listening() && !Alive(), looked at after every Poll.
Reap == ~alive /\ BeginStop /\ UNCHANGED quit

KeyQ == \/ BeginStop /\ quit' = TRUE
        \/ /\ GoTo("console", "report") /\ thread = "none"
           /\ quit' = TRUE
           /\ UNCHANGED <<thread, alive, stopAsked, times>>

Join == /\ GoTo("join", "account") /\ thread = "ended"
        /\ thread' = "none"
        /\ UNCHANGED <<quit, alive, stopAsked, times>>

Account == /\ GoTo("account", IF quit THEN "report" ELSE "console")
           /\ listenedSec' = now - listenStart
           /\ listened' = listened + (now - listenStart)
           /\ UNCHANGED <<quit, thread, alive, stopAsked, now, listenStart>>

\* ListenedSec(), the number logFinalReport gets.
ListenedSec == IF thread # "none" THEN now - listenStart ELSE listenedSec

Report == /\ GoTo("report", "returned")
          /\ UNCHANGED <<quit, thread, alive, stopAsked, times>>

Returned == main = "returned" /\ UNCHANGED vars

Next == \/ Tick \/ ThreadLeaves \/ ThreadEnds
        \/ KeyS \/ KeyX \/ KeyQ \/ Stamp \/ Create \/ CreateThrows
        \/ Reap \/ Join \/ Account \/ Report \/ Returned

Spec == Init /\ [][Next]_vars

-----------------------------------------------------------------------------
TypeOK ==
  /\ main \in {"console", "stamp", "create", "join", "account", "report", "returned"}
  /\ quit \in BOOLEAN /\ alive \in BOOLEAN /\ stopAsked \in BOOLEAN
  /\ thread \in {"none", "running", "leaving", "ended"}
  /\ {now, listenStart, listenedSec, listened} \subseteq 0 .. MaxTime

\* The console never takes a healthy thread for a dead one: alive_ is set
\* before the thread exists (IngestController.cpp:18-20), so Listening() &&
\* !Alive() cannot hold while the thread runs.
RunningIsAlive == thread = "running" => alive

\* A thread that dies on its own is noticed and joined, whenever it dies, so
\* that 's' can start the next session (textile_inference_gpu.cpp:253-256).
DeadThreadIsReaped == thread \in {"leaving", "ended"} ~> thread = "none"

\* IngestController.h:44: listenedSec_ is the "sum of the sessions already
\* closed by Stop()", and the report is given it.
ReportCoversAllSessions == main = "report" => ListenedSec = listened
=============================================================================
