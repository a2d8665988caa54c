----------------------------- MODULE RingBuffer -----------------------------
(***************************************************************************)
(* RingBuffer<T> (RingBuffer.h, RingBuffer.tpp): a circular array guarded   *)
(* by one mutex and two condition variables.                                *)
(*                                                                         *)
(* Everything done under the mutex is one action.  What happens outside it  *)
(* is a step of its own: a successful push or pop releases the mutex and    *)
(* only then calls notify_one, and stop() releases it before its two        *)
(* notify_all calls, so any other call may run in between.  A condition     *)
(* variable is the set of the threads asleep on it; it may wake a thread    *)
(* spuriously, and a woken thread has to take the mutex again before it     *)
(* re-evaluates its predicate.                                              *)
(*                                                                         *)
(* push(T) and try_push(T) are push_swap and try_push_swap on a copy whose  *)
(* final content is dropped (RingBuffer.tpp:26-31, 46-50): the same actions *)
(* with a spare record that nobody looks at.                                *)
(***************************************************************************)
EXTENDS Integers, Sequences, FiniteSets

CONSTANTS Thread,   \* the threads that call the buffer
          Record,   \* the records: one per slot and one per thread
          Cap       \* slots_.size()

\* The constructors assert it (RingBuffer.tpp:9, 16).
ASSUME CapAssumption == Cap \in Nat \ {0}

\* A process has finitely many threads.
ASSUME ThreadAssumption == IsFiniteSet(Thread)

VARIABLES slots, head, tail, count, stopped,
          item,     \* the record each caller swaps with the buffer
          pc        \* where each thread is in the operation it has called

vars == <<slots, head, tail, count, stopped, item, pc>>
ring == <<slots, head, tail, count, item>>

Index == 0 .. Cap - 1

\* "push" and "pop" are threads about to take the mutex inside push_swap or
\* pop, for the first time or after a wake-up; "signal..." and "broadcast..."
\* are threads past the unlock that have still to notify.
Location == {"idle", "push", "asleepNotFull", "signalNotEmpty",
             "pop", "asleepNotEmpty", "signalNotFull",
             "broadcastNotFull", "broadcastNotEmpty"}

At(l) == {t \in Thread : pc[t] = l}

GoTo(t, l) == pc' = [pc EXCEPT ![t] = l]
-----------------------------------------------------------------------------
(* A definition named Bug... is a plausible mistake in the one that follows  *)
(* it; it shows that a property would notice, and nothing else uses it.     *)

Init == /\ slots \in [Index -> Record]
        /\ item \in [Thread -> Record]
        /\ \A i, j \in Index : i # j => slots[i] # slots[j]
        /\ \A s, t \in Thread : s # t => item[s] # item[t]
        /\ \A i \in Index, t \in Thread : slots[i] # item[t]
        /\ head = 0 /\ tail = 0 /\ count = 0
        /\ stopped = FALSE
        /\ pc = [t \in Thread |-> "idle"]

BugPushKeepsTail(t) == /\ slots' = [slots EXCEPT ![tail] = item[t]]
                       /\ item' = [item EXCEPT ![t] = slots[tail]]
                       /\ count' = count + 1
                       /\ UNCHANGED <<head, tail>>

\* push_locked
PushLocked(t) == /\ slots' = [slots EXCEPT ![tail] = item[t]]
                 /\ item' = [item EXCEPT ![t] = slots[tail]]
                 /\ tail' = (tail + 1) % Cap
                 /\ count' = count + 1
                 /\ UNCHANGED head

\* pop_locked
PopLocked(t) == /\ slots' = [slots EXCEPT ![head] = item[t]]
                /\ item' = [item EXCEPT ![t] = slots[head]]
                /\ head' = (head + 1) % Cap
                /\ count' = count - 1
                /\ UNCHANGED tail

\* A thread enters push_swap or pop; the calls themselves are never forced.
Call(t) == /\ pc[t] = "idle"
           /\ \E op \in {"push", "pop"} : GoTo(t, op)
           /\ UNCHANGED <<ring, stopped>>

\* push_swap, from taking the mutex to releasing it or falling asleep.
PushFails(t) == /\ pc[t] = "push" /\ stopped
                /\ GoTo(t, "idle")
                /\ UNCHANGED <<ring, stopped>>

PushSleeps(t) == /\ pc[t] = "push" /\ ~stopped /\ count = Cap
                 /\ GoTo(t, "asleepNotFull")
                 /\ UNCHANGED <<ring, stopped>>

\* Notifying only when the buffer was empty.
BugPushSignalsOnEdge(t) == /\ pc[t] = "push" /\ ~stopped /\ count < Cap
                           /\ PushLocked(t)
                           /\ GoTo(t, IF count = 0 THEN "signalNotEmpty" ELSE "idle")
                           /\ UNCHANGED stopped

PushSucceeds(t) == /\ pc[t] = "push" /\ ~stopped /\ count < Cap
                   /\ PushLocked(t)
                   /\ GoTo(t, "signalNotEmpty")
                   /\ UNCHANGED stopped

BugTryPushWhenStopped(t) == /\ pc[t] = "idle" /\ count # Cap
                            /\ PushLocked(t)
                            /\ GoTo(t, "signalNotEmpty")
                            /\ UNCHANGED stopped

\* try_push_swap; a refused call changes nothing.
TryPush(t) == /\ pc[t] = "idle" /\ ~stopped /\ count # Cap
              /\ PushLocked(t)
              /\ GoTo(t, "signalNotEmpty")
              /\ UNCHANGED stopped

\* pop, from taking the mutex to releasing it or falling asleep.
PopFails(t) == /\ pc[t] = "pop" /\ stopped /\ count = 0
               /\ GoTo(t, "idle")
               /\ UNCHANGED <<ring, stopped>>

PopSleeps(t) == /\ pc[t] = "pop" /\ ~stopped /\ count = 0
                /\ GoTo(t, "asleepNotEmpty")
                /\ UNCHANGED <<ring, stopped>>

PopSucceeds(t) == /\ pc[t] = "pop" /\ count > 0
                  /\ PopLocked(t)
                  /\ GoTo(t, "signalNotFull")
                  /\ UNCHANGED stopped

\* try_pop; it never reads `stopped`.
TryPop(t) == /\ pc[t] = "idle" /\ count # 0
             /\ PopLocked(t)
             /\ GoTo(t, "signalNotFull")
             /\ UNCHANGED stopped

BugStopWakesConsumers(t) == /\ pc[t] = "idle"
                            /\ stopped' = TRUE
                            /\ GoTo(t, "broadcastNotEmpty")
                            /\ UNCHANGED ring

\* stop(): the flag under the mutex, the two broadcasts after it.
Stop(t) == /\ pc[t] = "idle"
           /\ stopped' = TRUE
           /\ GoTo(t, "broadcastNotFull")
           /\ UNCHANGED ring
-----------------------------------------------------------------------------
BugNotifyNobody(t, asleep, woken) == GoTo(t, "idle")

\* notify_one wakes some sleeper if there is one, and is then forgotten.
NotifyOne(t, asleep, woken) ==
  IF At(asleep) = {} THEN GoTo(t, "idle")
  ELSE \E s \in At(asleep) : pc' = [pc EXCEPT ![t] = "idle", ![s] = woken]

NotifyAll(t, asleep, woken, next) ==
  pc' = [s \in Thread |-> IF s = t THEN next
                          ELSE IF pc[s] = asleep THEN woken ELSE pc[s]]

Notify(t) ==
  /\ \/ pc[t] = "signalNotEmpty" /\ NotifyOne(t, "asleepNotEmpty", "pop")
     \/ pc[t] = "signalNotFull" /\ NotifyOne(t, "asleepNotFull", "push")
     \/ /\ pc[t] = "broadcastNotFull"
        /\ NotifyAll(t, "asleepNotFull", "push", "broadcastNotEmpty")
     \/ /\ pc[t] = "broadcastNotEmpty"
        /\ NotifyAll(t, "asleepNotEmpty", "pop", "idle")
  /\ UNCHANGED <<ring, stopped>>

\* std::condition_variable::wait may return without a notification.
SpuriousWake(t) ==
  /\ \/ pc[t] = "asleepNotFull" /\ GoTo(t, "push")
     \/ pc[t] = "asleepNotEmpty" /\ GoTo(t, "pop")
  /\ UNCHANGED <<ring, stopped>>

\* What a scheduled thread does of its own accord once it is in a call.
Progress(t) == \/ PushFails(t) \/ PushSleeps(t) \/ PushSucceeds(t)
               \/ PopFails(t) \/ PopSleeps(t) \/ PopSucceeds(t)
               \/ Notify(t)

Next == \E t \in Thread : \/ Call(t) \/ TryPush(t) \/ TryPop(t) \/ Stop(t)
                          \/ Progress(t) \/ SpuriousWake(t)

Spec == Init /\ [][Next]_vars

\* Every thread inside a call is eventually scheduled; no call is ever forced
\* and no wake-up ever comes on its own.
FairSpec == Spec /\ \A t \in Thread : WF_vars(Progress(t))
-----------------------------------------------------------------------------
TypeOK == /\ slots \in [Index -> Record]
          /\ head \in Index /\ tail \in Index
          /\ count \in 0 .. Cap
          /\ stopped \in BOOLEAN
          /\ item \in [Thread -> Record]
          /\ pc \in [Thread -> Location]

\* The indices and the counter describe one window: the next free slot lies
\* count slots past the oldest record (head, tail, count of RingBuffer.h).
WindowInv == tail = (head + count) % Cap

\* Swapping moves records but never copies or loses one: all slots and all
\* callers hold different records (push_locked, pop_locked).
RecordsConserved ==
  /\ \A i, j \in Index : i # j => slots[i] # slots[j]
  /\ \A s, t \in Thread : s # t => item[s] # item[t]
  /\ \A i \in Index, t \in Thread : slots[i] # item[t]

\* Slots, indices and records together; its three parts make it inductive.
RingInv == TypeOK /\ WindowInv /\ RecordsConserved

\* While the buffer is open and a producer sleeps, each free slot is matched by a
\* notification still to come or a producer about to look again; while a
\* consumer sleeps, so is each queued record.
SignalsSuffice ==
  /\ At("asleepNotFull") # {} =>
       Cap - count =< Cardinality(At("signalNotFull") \cup At("push"))
  /\ At("asleepNotEmpty") # {} =>
       count =< Cardinality(At("signalNotEmpty") \cup At("pop"))

\* Nobody sleeps on a stopped buffer unless the broadcast is still to come.
BroadcastsComing ==
  /\ At("asleepNotFull") # {} => At("broadcastNotFull") # {}
  /\ At("asleepNotEmpty") # {} =>
       At("broadcastNotFull") \cup At("broadcastNotEmpty") # {}

\* No wake-up is lost although notify_one runs after the unlock and stop()
\* broadcasts after it has released the mutex (RingBuffer.tpp:16, 42, 69-71).
NoLostWakeup == IF stopped THEN BroadcastsComing ELSE SignalsSuffice

\* The buffer implements the bounded channel: the queued records are the count
\* slots from head on, in order.
Queued == [i \in 1 .. count |-> slots[(head + i - 1) % Cap]]

Channel == INSTANCE BoundedChannel WITH chan <- Queued, closed <- stopped

ChannelSpec == Channel!Spec

\* After stop() every blocked caller is released and can return
\* (RingBuffer.h:104, "unblocks waiting threads").
StopUnblocks ==
  stopped ~> At("asleepNotFull") \cup At("asleepNotEmpty") = {}

\* A consumer is never left asleep for ever on a buffer that stays non-empty,
\* nor a producer on one that stays non-full.
NoStuckSleeper ==
  /\ []<>(At("asleepNotEmpty") = {} \/ count = 0)
  /\ []<>(At("asleepNotFull") = {} \/ count = Cap)
=============================================================================
