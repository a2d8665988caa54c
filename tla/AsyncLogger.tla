----------------------------- MODULE AsyncLogger -----------------------------
(***************************************************************************)
(* AsyncLogger (AsyncLogger.h, AsyncLogger.cpp): every thread of the program *)
(* logs through a bounded queue that one low-priority thread prints.  The   *)
(* logger is the first object Run declares and the last it destroys         *)
(* (textile_inference_gpu.cpp:61-65), so the threads that log are gone by   *)
(* then.  A message is the thread that logged it and its number; its queue  *)
(* is the closable channel of BoundedChannel, one call one step.            *)
(***************************************************************************)
EXTENDS Naturals, Sequences, FiniteSets

CONSTANTS Writer,        \* the threads that log, the main thread among them
          QueueCapacity, \* [Logger] queueCapacity
          MaxCalls       \* bound: Log calls of a thread

ASSUME LoggerAssumption ==
  /\ IsFiniteSet(Writer)
  /\ QueueCapacity \in Nat \ {0} /\ MaxCalls \in Nat

VARIABLES
  main,      \* the main thread: in Start, in Run, or in the destructor
  instance,  \* g_instance # nullptr
  running,   \* running
  queue,     \* the records waiting in queue
  stopped,   \* queue.stop() has been called
  pc,        \* thread -> between calls, or in Write
  calls,     \* thread -> history: Log calls it has begun
  consumer,  \* where ConsumerLoop is
  record,    \* ConsumerLoop's record
  dropped,   \* dropped
  printed,   \* what has been printed, in order
  accepted   \* history: what the queue has accepted, in order

vars == <<main, instance, running, queue, stopped, pc, calls, consumer, record,
          dropped, printed, accepted>>
lifecycle == <<main, instance, running, stopped>>

Message  == Writer \X (1 .. MaxCalls)
Greeting == <<"greeting">>

Init == /\ main = "start" /\ instance = TRUE /\ running = FALSE
        /\ queue = <<>> /\ stopped = FALSE
        /\ pc = [w \in Writer |-> "idle"] /\ calls = [w \in Writer |-> 0]
        /\ consumer = "none" /\ record = Greeting
        /\ dropped = 0 /\ printed = <<>> /\ accepted = <<>>
-----------------------------------------------------------------------------
(* A definition named Bug... is a plausible mistake in the one that follows  *)
(* it; it shows that a property would notice, and nothing else uses it.     *)

(* Log::Info and its like, on any thread.                                  *)

\* Dispatch finds the instance and Write fills the thread's scratch record;
\* without an instance the call does nothing.
Log(w) ==
  /\ main = "up" /\ pc[w] = "idle" /\ calls[w] < MaxCalls
  /\ calls' = [calls EXCEPT ![w] = @ + 1]
  /\ pc' = [pc EXCEPT ![w] = IF instance THEN "push" ELSE "idle"]
  /\ UNCHANGED <<lifecycle, queue, consumer, record, dropped, printed, accepted>>

BugWriteWaits(w) ==
  /\ pc[w] = "push"
  /\ pc' = [pc EXCEPT ![w] = "idle"]
  /\ ~stopped /\ Len(queue) < QueueCapacity
  /\ queue' = Append(queue, <<w, calls[w]>>)
  /\ accepted' = Append(accepted, <<w, calls[w]>>)
  /\ UNCHANGED <<lifecycle, calls, consumer, record, dropped, printed>>

BugWriteDropsOldest(w) ==
  /\ pc[w] = "push"
  /\ pc' = [pc EXCEPT ![w] = "idle"]
  /\ accepted' = Append(accepted, <<w, calls[w]>>)
  /\ IF Len(queue) < QueueCapacity
     THEN /\ queue' = Append(queue, <<w, calls[w]>>) /\ UNCHANGED dropped
     ELSE /\ queue' = Append(Tail(queue), <<w, calls[w]>>)
          /\ dropped' = dropped + 1
  /\ UNCHANGED <<lifecycle, calls, consumer, record, printed>>

\* try_push_swap, or one more record lost.
Write(w) ==
  /\ pc[w] = "push"
  /\ pc' = [pc EXCEPT ![w] = "idle"]
  /\ IF ~stopped /\ Len(queue) < QueueCapacity
     THEN /\ queue' = Append(queue, <<w, calls[w]>>)
          /\ accepted' = Append(accepted, <<w, calls[w]>>)
          /\ UNCHANGED dropped
     ELSE dropped' = dropped + 1 /\ UNCHANGED <<queue, accepted>>
  /\ UNCHANGED <<lifecycle, calls, consumer, record, printed>>
-----------------------------------------------------------------------------
(* ConsumerLoop                                                            *)

WriteRecord ==
  /\ consumer \in {"greet", "write"}
  /\ printed' = Append(printed, record)
  /\ consumer' = "pop"
  /\ UNCHANGED <<lifecycle, queue, pc, calls, record, dropped, accepted>>

Pop ==
  /\ consumer = "pop" /\ queue # <<>>
  /\ record' = Head(queue)
  /\ queue' = Tail(queue)
  /\ consumer' = "write"
  /\ UNCHANGED <<lifecycle, pc, calls, dropped, printed, accepted>>

BugConsumerLeaves ==
  /\ consumer = "pop" /\ stopped
  /\ consumer' = "done"
  /\ UNCHANGED <<lifecycle, queue, pc, calls, record, dropped, printed, accepted>>

\* pop returns false: stopped and empty.
ConsumerLeaves ==
  /\ consumer = "pop" /\ stopped /\ queue = <<>>
  /\ consumer' = "done"
  /\ UNCHANGED <<lifecycle, queue, pc, calls, record, dropped, printed, accepted>>
-----------------------------------------------------------------------------
(* Start, and the destructor with the Stop it calls.                       *)

\* Creating the thread may throw: Run unwinds before anybody has logged.
Start ==
  /\ main = "start"
  /\ running' = TRUE
  /\ \/ main' = "up" /\ consumer' = "greet"
     \/ main' = "unpublish" /\ UNCHANGED consumer
  /\ UNCHANGED <<instance, queue, stopped, pc, calls, record, dropped, printed, accepted>>

\* Run is left when every thread it started has been joined.
Leave ==
  /\ main = "up" /\ \A w \in Writer : pc[w] = "idle"
  /\ main' = "unpublish"
  /\ UNCHANGED <<instance, running, queue, stopped, pc, calls, consumer, record,
                 dropped, printed, accepted>>

Unpublish ==
  /\ main = "unpublish"
  /\ instance' = FALSE
  /\ main' = "stop"
  /\ UNCHANGED <<running, queue, stopped, pc, calls, consumer, record, dropped,
                 printed, accepted>>

BugStopOnlyClearsFlag ==
  /\ main = "stop" /\ running
  /\ running' = FALSE
  /\ main' = "join"
  /\ UNCHANGED <<instance, queue, stopped, pc, calls, consumer, record, dropped,
                 printed, accepted>>

Stop ==
  /\ main = "stop" /\ running
  /\ running' = FALSE
  /\ stopped' = TRUE
  /\ main' = "join"
  /\ UNCHANGED <<instance, queue, pc, calls, consumer, record, dropped, printed,
                 accepted>>

Join ==
  /\ main = "join" /\ consumer \in {"none", "done"}
  /\ consumer' = "none"
  /\ main' = "gone"
  /\ UNCHANGED <<instance, running, queue, stopped, pc, calls, record, dropped,
                 printed, accepted>>

Gone == main = "gone" /\ UNCHANGED vars

ConsumerStep == WriteRecord \/ Pop \/ ConsumerLeaves
DestructorStep == Unpublish \/ Stop \/ Join

Next == \/ \E w \in Writer : Log(w) \/ Write(w)
        \/ ConsumerStep \/ Start \/ Leave \/ DestructorStep \/ Gone

Spec == Init /\ [][Next]_vars
-----------------------------------------------------------------------------
TypeOK ==
  /\ main \in {"start", "up", "unpublish", "stop", "join", "gone"}
  /\ instance \in BOOLEAN /\ running \in BOOLEAN /\ stopped \in BOOLEAN
  /\ queue \in Seq(Message) /\ Len(queue) =< QueueCapacity
  /\ pc \in [Writer -> {"idle", "push"}] /\ calls \in [Writer -> 0 .. MaxCalls]
  /\ consumer \in {"none", "greet", "pop", "write", "done"}
  /\ record \in Message \cup {Greeting}
  /\ dropped \in Nat
  /\ printed \in Seq(Message \cup {Greeting}) /\ accepted \in Seq(Message)

\* What the queue has accepted is printed once and in that order, the
\* consumer's own first line before it (AsyncLogger.cpp:169-181): a full queue
\* costs the newest record, never one that was accepted.
PrintsInOrder ==
  consumer \in {"pop", "write", "done"} =>
    printed \o (IF consumer = "write" THEN <<record>> ELSE <<>>) \o queue
      = <<Greeting>> \o accepted

\* "Pending logs are flushed" by the destructor (AsyncLogger.h:42): when it is
\* over, the lines printed and the number lost make up every call.
EveryCallAccounted ==
  main = "gone" =>
    /\ Len(accepted) + dropped = Cardinality({m \in Message : m[2] =< calls[m[1]]})
    /\ accepted # <<>> => printed = <<Greeting>> \o accepted

\* "Real-time execution threads are never blocked" (AsyncLogger.h:26): a call
\* comes back even if nobody ever prints another line.
CallReturns ==
  (\A w \in Writer : WF_vars(Write(w))) =>
    \A w \in Writer : pc[w] = "push" ~> pc[w] = "idle"

\* The destructor gets its consumer back, however much there is left to print.
DestructorReturns ==
  WF_vars(ConsumerStep) /\ WF_vars(DestructorStep) =>
    (main = "unpublish" ~> main = "gone")
=============================================================================
