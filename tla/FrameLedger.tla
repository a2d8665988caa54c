---------------------------- MODULE FrameLedger ----------------------------
(***************************************************************************)
(* What the pipeline promises about the frames it has read, with no        *)
(* queues, slots or threads (StageWorkers.h, Stages.h, ResultSink.h).       *)
(* A frame that was accepted from the source is published once or fails     *)
(* once; it is lost only when the run is aborted by an exception, and when  *)
(* the run has settled (the final report) nothing is outstanding.           *)
(***************************************************************************)
EXTENDS Naturals

CONSTANT MaxSeq      \* bound: frames the producer offers

VARIABLES fate,      \* what has become of each batch
          aborting,  \* an exception is unwinding the run
          settled    \* the drain is over

vars == <<fate, aborting, settled>>

Batch == 1 .. MaxSeq

Init == /\ fate = [n \in Batch |-> "unread"]
        /\ aborting = FALSE /\ settled = FALSE

\* Frames are accepted in the order of their sequence numbers.
Accept(n) == /\ fate[n] = "unread"
             /\ \A m \in 1 .. n - 1 : fate[m] # "unread"
             /\ fate' = [fate EXCEPT ![n] = "accepted"]

Publish(n) == fate[n] = "accepted" /\ fate' = [fate EXCEPT ![n] = "published"]

Fail(n) == fate[n] = "accepted" /\ fate' = [fate EXCEPT ![n] = "failed"]

Lose(n) == /\ aborting
           /\ fate[n] = "accepted" /\ fate' = [fate EXCEPT ![n] = "lost"]

Abort == ~settled /\ aborting' = TRUE /\ UNCHANGED <<fate, settled>>

Settle == /\ ~aborting
          /\ \A n \in Batch : fate[n] # "accepted"
          /\ settled' = TRUE
          /\ UNCHANGED <<fate, aborting>>

Next == \/ /\ ~settled
           /\ \E n \in Batch : Accept(n) \/ Publish(n) \/ Fail(n) \/ Lose(n)
           /\ UNCHANGED <<aborting, settled>>
        \/ Abort
        \/ Settle

Spec == Init /\ [][Next]_vars
=============================================================================
