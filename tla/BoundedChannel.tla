--------------------------- MODULE BoundedChannel ---------------------------
(***************************************************************************)
(* What RingBuffer<T> promises its callers (RingBuffer.h), with no indices, *)
(* no mutex and no condition variables: a bounded first-in first-out        *)
(* channel that can be closed.  Records change hands by swapping: a caller  *)
(* that puts a record receives some spare record of the channel, a caller   *)
(* that takes one leaves its own record behind as a spare.  A spare is a    *)
(* spent LogRecord in the logger and a null pointer in the pipeline queues. *)
(***************************************************************************)
EXTENDS Naturals, Sequences

CONSTANTS Thread,   \* the threads that call the channel
          Record,   \* the records that exist: held, queued or spare
          Cap       \* the largest number of queued records

VARIABLES chan,     \* the queued records, oldest first
          closed,   \* stop() has been called
          item      \* the record each thread holds

vars == <<chan, closed, item>>

Queued == {chan[i] : i \in DOMAIN chan}
Held   == {item[t] : t \in Thread}

Init == /\ chan = <<>>
        /\ closed = FALSE
        /\ item \in [Thread -> Record]
        /\ \A s, t \in Thread : s # t => item[s] # item[t]

Put(t) == /\ ~closed
          /\ Len(chan) < Cap
          /\ chan' = Append(chan, item[t])
          /\ \E spare \in Record \ (Queued \cup Held) :
               item' = [item EXCEPT ![t] = spare]
          /\ UNCHANGED closed

\* A closed channel still hands out what it holds: pop fails only when empty.
Take(t) == /\ chan # <<>>
           /\ item' = [item EXCEPT ![t] = Head(chan)]
           /\ chan' = Tail(chan)
           /\ UNCHANGED closed

Close == /\ closed' = TRUE
         /\ UNCHANGED <<chan, item>>

Next == (\E t \in Thread : Put(t) \/ Take(t)) \/ Close

Spec == Init /\ [][Next]_vars
=============================================================================
