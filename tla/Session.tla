------------------------------ MODULE Session ------------------------------
(***************************************************************************)
(* A run of the program from the first key to the report, as the console    *)
(* and the telemetry see it: IngestController decides when frames are read, *)
(* RollingMetrics follows each batch through the stages, and Run writes the *)
(* final report once Drain has joined every stage                           *)
(* (textile_inference_gpu.cpp:222-278).                                     *)
(***************************************************************************)
EXTENDS IngestController, RollingMetrics

VARIABLE report     \* what logFinalReport was given and read, empty before it

sessionVars == <<vars, metricsVars, report>>

FramesRead == Cardinality({b \in Batches : stage[b] # "unread"})

\* The ingest thread reads the next frame; the pipeline will make a batch of it.
ReadFrame == /\ thread = "running" /\ FramesRead < NumBatches
             /\ Move(FramesRead + 1, "unread", "read")
             /\ UNCHANGED <<vars, index, shown, field, added, completedBatches, lines, report>>

(* A definition named Bug... is a plausible mistake in the one that follows  *)
(* it; it shows that a property would notice, and nothing else uses it.     *)

\* The post threads are not waited for.
BugDrained == \A b \in Batches : stage[b] \notin {"read", "prepared"}

\* Every stage has been joined: what was read has been published or has failed.
Drained == \A b \in Batches : stage[b] \in {"unread", "done", "failed"}

\* The window the report claims its means are over.
ReportedWindow == IF windowDimension < completedBatches THEN windowDimension
                  ELSE completedBatches

FinalReport == /\ Report /\ Drained
               /\ report' = [listenedSec |-> ListenedSec, completed |-> completedBatches,
                             lostInPipeline |-> FramesRead - completedBatches,
                             window |-> ReportedWindow,
                             means |-> [f \in ToSet(Fields) |-> Average(f)]]
               /\ UNCHANGED metricsVars

Console == \/ Tick \/ ThreadLeaves \/ ThreadEnds
           \/ KeyS \/ KeyX \/ KeyQ \/ Stamp \/ Create \/ CreateThrows
           \/ Reap \/ Join \/ Account

SessionInit == Init /\ MetricsInit /\ report = <<>>

SessionNext == \/ Console /\ UNCHANGED <<metricsVars, report>>
               \/ ReadFrame
               \/ MetricsStep /\ UNCHANGED <<vars, report>>
               \/ FinalReport
               \/ Returned /\ UNCHANGED <<metricsVars, report>>

ThreadStep == (stopAsked /\ ThreadLeaves) \/ ThreadEnds

\* Every thread is scheduled; nothing makes a user press a key.
SessionSpec ==
  /\ SessionInit /\ [][SessionNext]_sessionVars
  /\ WF_vars(ThreadStep /\ UNCHANGED <<metricsVars, report>>)
  /\ WF_vars((Stamp \/ Create \/ Reap \/ Join \/ Account) /\ UNCHANGED <<metricsVars, report>>)
-----------------------------------------------------------------------------
\* The report is written once, when nothing can change its numbers any more: the
\* frames it calls lost are those whose inference failed, every window that was
\* completed has its line by then, and the means it gives for inference and
\* post-processing are over as many batches as it says (PerformanceMetrics.cpp:75-99).
ReportIsFinal ==
  report # <<>> =>
    /\ report.completed = completedBatches
    /\ report.lostInPipeline = Cardinality({b \in Batches : stage[b] = "failed"})
    /\ {lines[j].last : j \in DOMAIN lines} = Windows
    /\ \A f \in {"gpu", "postprocessing"} : Cardinality(report.means[f]) = report.window
=============================================================================
