------------------------------ MODULE BatchCall ------------------------------
(***************************************************************************)
(* What OrtSessionConfig::RunBatch promises the stages around it: a call on *)
(* a slot takes effect at once.  It ends, either with all outputs of the    *)
(* slot computed from the batch in its input, or with an exception, and     *)
(* from then on the slot is the caller's alone.  Pipeline's InferRun relies *)
(* on it; OrtBatch implements it on a CUDA stream.                          *)
(***************************************************************************)
EXTENDS Integers

CONSTANTS Slot, MaxBatch

VARIABLES
  place,   \* slot -> "pool", "queued" (filled), "infer" (in the call), "done"
  batch,   \* slot -> the batch prep filled it with
  out      \* slot -> the batch whose outputs the post stage finds, 0 before

vars == <<place, batch, out>>

Init == /\ place = [s \in Slot |-> "pool"]
        /\ batch = [s \in Slot |-> 0] /\ out = [s \in Slot |-> 0]

Move(s, from, to) == place[s] = from /\ place' = [place EXCEPT ![s] = to]

Fill(s) == /\ Move(s, "pool", "queued")
           /\ \E b \in 1 .. MaxBatch : batch' = [batch EXCEPT ![s] = b]
           /\ UNCHANGED out

Call(s) == Move(s, "queued", "infer") /\ UNCHANGED <<batch, out>>

Succeed(s) == /\ Move(s, "infer", "done")
              /\ out' = [out EXCEPT ![s] = batch[s]]
              /\ UNCHANGED batch

Throw(s) == Move(s, "infer", "pool") /\ UNCHANGED <<batch, out>>

Release(s) == /\ Move(s, "done", "pool")
              /\ out' = [out EXCEPT ![s] = 0]
              /\ UNCHANGED batch

Next == \E s \in Slot : Fill(s) \/ Call(s) \/ Succeed(s) \/ Throw(s) \/ Release(s)

\* What holds whether or not anything is scheduled, and all of it.
SafeSpec == Init /\ [][Next]_vars

Spec == /\ SafeSpec
        /\ \A s \in Slot : WF_vars(Succeed(s) \/ Throw(s))
=============================================================================
