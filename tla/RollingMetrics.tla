--------------------------- MODULE RollingMetrics ---------------------------
(***************************************************************************)
(* PerformanceMetrics and RollingField (PerformanceMetrics.cpp,             *)
(* RollingAverage.cpp) as the stage threads use them: every stage adds the  *)
(* time of a batch to its rolling window before it passes the batch on, and *)
(* the post thread that completes a batch may print a line of averages.     *)
(* Each of these calls takes a lock of its own, so they interleave.         *)
(* A sample is the number of the batch it was taken of.  There is one prep  *)
(* thread and one infer thread here, so batches reach qInf in order, and    *)
(* PostThreads post threads, the ones that count and print.                 *)
(***************************************************************************)
EXTENDS Integers, FiniteSets, Sequences, SequencesExt

CONSTANTS NumBatches,        \* bound: batches in a run
          PostThreads,
          windowDimension

ASSUME MetricsAssumption == {NumBatches, PostThreads, windowDimension} \subseteq Nat \ {0}

VARIABLES
  stage,      \* where each batch is
  index,      \* what addPostprocessingTime returned for a batch a thread still holds
  shown,      \* the averages that thread has read so far
  field,      \* the three rolling windows; "gpu" stands for gpu, h2d, run and d2h
  added,      \* history: the samples each window was ever given
  completedBatches,
  lines       \* history: the [MONITOR] lines

metricsVars == <<stage, index, shown, field, added, completedBatches, lines>>

Batches == 1 .. NumBatches

\* printRollingAverage asks for them in this order.
Fields == <<"preprocessing", "gpu", "postprocessing">>

Positions == 0 .. windowDimension - 1

MetricsInit ==
  /\ stage = [b \in Batches |-> "unread"]
  /\ index = [b \in Batches |-> 0]
  /\ shown = [b \in Batches |-> <<>>]
  /\ field = [f \in ToSet(Fields) |->
                [window |-> [i \in Positions |-> 0], writeIndex |-> 0, count |-> 0]]
  /\ added = [f \in ToSet(Fields) |-> <<>>]
  /\ completedBatches = 0
  /\ lines = <<>>

Move(b, from, to) == stage[b] = from /\ stage' = [stage EXCEPT ![b] = to]
-----------------------------------------------------------------------------
(* A definition named Bug... is a plausible mistake in the one that follows  *)
(* it; it shows that a property would notice, and nothing else uses it.     *)

BugAdd(f, b) ==
  /\ LET w == field[f]
     IN field' = [field EXCEPT ![f] =
          [window     |-> [w.window EXCEPT ![w.writeIndex] = b],
           writeIndex |-> (w.writeIndex + 1) % windowDimension,
           count      |-> IF w.count + 1 < windowDimension THEN w.count + 1 ELSE w.count]]
  /\ added' = [added EXCEPT ![f] = Append(@, b)]

\* RollingField::add
Add(f, b) ==
  /\ LET w == field[f]
     IN field' = [field EXCEPT ![f] =
          [window     |-> [w.window EXCEPT ![w.writeIndex] = b],
           writeIndex |-> (w.writeIndex + 1) % windowDimension,
           count      |-> IF w.count < windowDimension THEN w.count + 1 ELSE w.count]]
  /\ added' = [added EXCEPT ![f] = Append(@, b)]

\* RollingField::average: what it is the mean of.
Average(f) == {field[f].window[i] : i \in 0 .. field[f].count - 1}

\* Those in front of b in the queue before a stage, or in the hands of its threads.
Ahead(b) == {a \in Batches : a < b /\ stage[a] = stage[b]}

\* PrepStage has filled the slot; the push to qPrep comes after.
Preprocess(b) == /\ Move(b, "read", "prepared") /\ Ahead(b) = {}
                 /\ Add("preprocessing", b)
                 /\ UNCHANGED <<index, shown, completedBatches, lines>>

Infer(b) == /\ Move(b, "prepared", "inferred") /\ Ahead(b) = {}
            /\ Add("gpu", b)
            /\ UNCHANGED <<index, shown, completedBatches, lines>>

\* RunBatch throws: no sample, and the batch goes no further.
InferFails(b) == /\ Move(b, "prepared", "failed") /\ Ahead(b) = {}
                 /\ UNCHANGED <<index, shown, field, added, completedBatches, lines>>

AtPost == {b \in Batches : stage[b] \in {"timed", "counted"}}

\* A post thread has published a batch: addPostprocessingTime, the sample first.
Postprocess(b) == /\ Cardinality(AtPost \cup Ahead(b)) < PostThreads
                  /\ Move(b, "inferred", "timed")
                  /\ Add("postprocessing", b)
                  /\ UNCHANGED <<index, shown, completedBatches, lines>>

\* fetch_add
Count(b) == /\ Move(b, "timed", "counted")
            /\ completedBatches' = completedBatches + 1
            /\ index' = [index EXCEPT ![b] = completedBatches + 1]
            /\ UNCHANGED <<shown, field, added, lines>>

\* The shared counter is read again.
BugClosesWindow(b) == completedBatches % windowDimension = 0

ClosesWindow(b) == index[b] % windowDimension = 0

Leave(b) == /\ Move(b, "counted", "done")
            /\ index' = [index EXCEPT ![b] = 0]
            /\ shown' = [shown EXCEPT ![b] = <<>>]
            /\ UNCHANGED <<field, added, completedBatches>>

NothingToPrint(b) == ~ClosesWindow(b) /\ Leave(b) /\ UNCHANGED lines

ReadAverage(b) == /\ stage[b] = "counted" /\ ClosesWindow(b)
                  /\ Len(shown[b]) < Len(Fields)
                  /\ shown' = [shown EXCEPT ![b] = Append(@, Average(Fields[Len(@) + 1]))]
                  /\ UNCHANGED <<stage, index, field, added, completedBatches, lines>>

PrintLine(b) == /\ Len(shown[b]) = Len(Fields)
                /\ lines' = Append(lines, [last |-> index[b], means |-> shown[b]])
                /\ Leave(b)

MetricsStep == \E b \in Batches :
  \/ Preprocess(b) \/ Infer(b) \/ InferFails(b) \/ Postprocess(b) \/ Count(b)
  \/ NothingToPrint(b) \/ ReadAverage(b) \/ PrintLine(b)
-----------------------------------------------------------------------------
\* The windows that have been completed, each by the number of its last batch.
Windows == {n \in 1 .. completedBatches : n % windowDimension = 0}

\* Whichever threads complete the batches of a window, one of them prints its line
\* or is about to, and no other ever does (PerformanceMetrics.cpp:54-59; the header
\* tells of a version that read the counter twice and was racy).
OneLinePerWindow ==
  /\ \A n \in Windows :
       Cardinality({j \in DOMAIN lines : lines[j].last = n})
         + Cardinality({b \in Batches : index[b] = n}) = 1
  /\ \A j \in DOMAIN lines : lines[j].last \in Windows

\* The mean of windowDimension samples in a row, the last the n-th.
Rolling(f, n) == {added[f][j] : j \in n - windowDimension + 1 .. n}

\* A line never shows a window that is not yet full or is out of date: each of its
\* means is over windowDimension samples in a row, and at least as many batches as
\* the line speaks of have gone by.  It needs each stage to add its sample before it
\* passes the batch on or counts it (Stages.cpp:427, 461, PerformanceMetrics.cpp:47-49).
MeansCoverWindow ==
  \A j \in DOMAIN lines, k \in DOMAIN Fields :
    \E n \in lines[j].last .. Len(added[Fields[k]]) :
      lines[j].means[k] = Rolling(Fields[k], n)
=============================================================================
