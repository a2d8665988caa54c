--------------------------- MODULE SessionProofs ---------------------------
(***************************************************************************)
(* For any number of batches, post threads and any window size: each window *)
(* is printed once, by a line whose means are over full windows; the final  *)
(* report agrees with them; and the console never takes a healthy ingest    *)
(* thread for a dead one.                                                   *)
(***************************************************************************)
EXTENDS Session, FiniteSetTheorems, SequenceTheorems, TLAPS

-----------------------------------------------------------------------------
(* The ingest thread.                                                       *)

\* alive_ is set before the thread is there.
AliveInv ==
  /\ thread = "running" => alive
  /\ main \in {"stamp", "create"} => alive /\ thread = "none"

\* IngestController.cpp:18-20: Listening() && !Alive() never holds of a thread that
\* runs, whatever the keyboard, the thread and the pipeline do.
THEOREM HealthyThreadIsAlive == SessionSpec => []RunningIsAlive
<1>1. SessionInit => AliveInv
  BY DEF SessionInit, Init, AliveInv
<1>2. AliveInv /\ [SessionNext]_sessionVars => AliveInv'
  <2> SUFFICES ASSUME AliveInv, [SessionNext]_sessionVars
               PROVE  AliveInv'
    OBVIOUS
  <2> USE DEF AliveInv, GoTo
  <2>1. CASE UNCHANGED vars
    BY <2>1 DEF vars
  <2>2. CASE Console
    <3>1. CASE Tick \/ ThreadLeaves \/ ThreadEnds
      BY <3>1 DEF Tick, ThreadLeaves, ThreadEnds
    <3>2. CASE KeyS \/ Stamp \/ Create \/ CreateThrows
      BY <3>2 DEF KeyS, Stamp, Create, CreateThrows
    <3>3. CASE KeyX \/ KeyQ \/ Reap
      BY <3>3 DEF KeyX, KeyQ, Reap, BeginStop
    <3>4. CASE Join \/ Account
      BY <3>4 DEF Join, Account
    <3> QED BY <2>2, <3>1, <3>2, <3>3, <3>4 DEF Console
  <2>3. CASE FinalReport
    BY <2>3 DEF FinalReport, Report
  <2> QED BY <2>1, <2>2, <2>3 DEF SessionNext, sessionVars, ReadFrame, Returned
<1>3. AliveInv => RunningIsAlive
  BY DEF AliveInv, RunningIsAlive
<1> QED BY <1>1, <1>2, <1>3, PTL DEF SessionSpec
-----------------------------------------------------------------------------
(* The [MONITOR] lines.                                                     *)

Stages == {"unread", "read", "prepared", "inferred", "failed", "timed", "counted", "done"}

Field == ToSet(Fields)
Means == SUBSET Nat
Line  == [last : Nat, means : Seq(Means)]

MetricsTypeOK ==
  /\ stage \in [Batches -> Stages]
  /\ index \in [Batches -> Nat]
  /\ shown \in [Batches -> Seq(Means)]
  /\ field \in [Field -> [window : [Positions -> Nat], writeIndex : Positions,
                          count : 0 .. windowDimension]]
  /\ completedBatches \in Nat
  /\ lines \in Seq(Line)

\* The number fetch_add has given a thread is its own until it has printed its line or
\* passed it over; a window that is complete is held by a thread or printed.
LineInv ==
  /\ MetricsTypeOK
  /\ \A b \in Batches : index[b] =< completedBatches
  /\ \A b \in Batches : index[b] # 0 <=> stage[b] = "counted"
  /\ \A b \in Batches : shown[b] # <<>> => ClosesWindow(b) /\ stage[b] = "counted"
  /\ \A b, c \in Batches : b # c /\ index[b] = index[c] => index[b] = 0
  /\ \A j \in DOMAIN lines : lines[j].last \in Windows
  /\ \A j, k \in DOMAIN lines : j # k => lines[j].last # lines[k].last
  /\ \A j \in DOMAIN lines, b \in Batches : lines[j].last # index[b]
  /\ \A n \in Windows : \/ \E j \in DOMAIN lines : lines[j].last = n
                        \/ \E b \in Batches : index[b] = n

LEMMA Constants ==
  /\ windowDimension \in Nat \ {0} /\ NumBatches \in Nat \ {0}
  /\ Batches \subseteq Nat \ {0}
BY MetricsAssumption DEF Batches

\* A sample more in a window, or its mean.
LEMMA AddType ==
  ASSUME MetricsTypeOK, NEW f \in Field, NEW b \in Batches, Add(f, b)
  PROVE  field' \in [Field -> [window : [Positions -> Nat], writeIndex : Positions,
                               count : 0 .. windowDimension]]
<1>1. /\ field[f].window \in [Positions -> Nat] /\ field[f].writeIndex \in Positions
      /\ field[f].count \in 0 .. windowDimension
  BY DEF MetricsTypeOK
<1>2. (field[f].writeIndex + 1) % windowDimension \in Positions
  BY <1>1, Constants DEF Positions
<1>3. (IF field[f].count < windowDimension THEN field[f].count + 1 ELSE field[f].count)
        \in 0 .. windowDimension
  BY <1>1, Constants
<1>4. [field[f].window EXCEPT ![field[f].writeIndex] = b] \in [Positions -> Nat]
  BY <1>1, Constants
<1> QED BY <1>2, <1>3, <1>4 DEF Add, MetricsTypeOK

LEMMA AverageType ==
  ASSUME MetricsTypeOK, NEW f \in Field
  PROVE  Average(f) \in Means
<1>1. /\ field[f].window \in [Positions -> Nat] /\ field[f].count \in 0 .. windowDimension
  BY DEF MetricsTypeOK
<1>2. \A i \in 0 .. field[f].count - 1 : i \in Positions
  BY <1>1, Constants DEF Positions
<1> QED BY <1>1, <1>2 DEF Average, Means

LEMMA FieldNames ==
  /\ "preprocessing" \in Field /\ "gpu" \in Field /\ "postprocessing" \in Field
  /\ Len(Fields) = 3 /\ \A k \in 1 .. 3 : Fields[k] \in Field
<1>1. DOMAIN Fields = 1 .. 3 /\ Len(Fields) = 3
  BY DEF Fields
<1>2. Fields[1] = "preprocessing" /\ Fields[2] = "gpu" /\ Fields[3] = "postprocessing"
  BY DEF Fields
<1> HIDE DEF Fields
<1>3. \A k \in 1 .. 3 : Fields[k] \in Field
  BY <1>1 DEF Field, ToSet
<1>4. Fields[1] \in Field /\ Fields[2] \in Field /\ Fields[3] \in Field
  BY <1>3
<1> QED BY <1>1, <1>2, <1>3, <1>4

LEMMA LineInit == MetricsInit => LineInv
<1> SUFFICES ASSUME MetricsInit PROVE LineInv
  OBVIOUS
<1> USE DEF MetricsInit
<1>1. field \in [Field -> [window : [Positions -> Nat], writeIndex : Positions,
                          count : 0 .. windowDimension]]
  <2>1. 0 \in Positions /\ 0 \in 0 .. windowDimension
    BY Constants DEF Positions
  <2>2. [i \in Positions |-> 0] \in [Positions -> Nat]
    OBVIOUS
  <2> QED BY <2>1, <2>2 DEF Field
<1>2. lines \in Seq(Line) /\ DOMAIN lines = {}
  OBVIOUS
<1>3. shown \in [Batches -> Seq(Means)]
  OBVIOUS
<1>4. stage \in [Batches -> Stages] /\ \A b \in Batches : stage[b] # "counted"
  BY DEF Stages
<1>5. Windows = {}
  BY Constants DEF Windows
<1> QED BY <1>1, <1>2, <1>3, <1>4, <1>5 DEF LineInv, MetricsTypeOK

\* A batch goes from one stage to the next and no thread counts or prints.
LEMMA MoveKeeps ==
  ASSUME LineInv, NEW b \in Batches, NEW from, NEW to \in Stages, Move(b, from, to),
         from # "counted", to # "counted",
         field' \in [Field -> [window : [Positions -> Nat], writeIndex : Positions,
                              count : 0 .. windowDimension]],
         UNCHANGED <<index, shown, completedBatches, lines>>
  PROVE  LineInv'
<1>1. /\ stage' \in [Batches -> Stages]
      /\ \A c \in Batches : stage'[c] = "counted" <=> stage[c] = "counted"
  BY DEF LineInv, MetricsTypeOK, Move
<1>2. MetricsTypeOK'
  BY <1>1 DEF LineInv, MetricsTypeOK
<1>3. Windows' = Windows
  BY DEF Windows
<1> QED BY <1>1, <1>2, <1>3 DEF LineInv, ClosesWindow

LEMMA CountKeeps ==
  ASSUME LineInv, NEW b \in Batches, Count(b)
  PROVE  LineInv'
<1> DEFINE n == completedBatches + 1
<1>1. /\ stage[b] = "timed" /\ stage' = [stage EXCEPT ![b] = "counted"]
      /\ completedBatches' = n /\ index' = [index EXCEPT ![b] = n]
      /\ UNCHANGED <<shown, field, lines>>
  BY DEF Count, Move
<1>2. /\ stage \in [Batches -> Stages] /\ index \in [Batches -> Nat]
      /\ completedBatches \in Nat /\ n \in Nat /\ n # 0
  BY DEF LineInv, MetricsTypeOK
<1>3. /\ index'[b] = n /\ stage'[b] = "counted" /\ index[b] = 0 /\ shown[b] = <<>>
      /\ \A c \in Batches : c # b => index'[c] = index[c] /\ stage'[c] = stage[c]
  BY <1>1, <1>2 DEF LineInv
<1>4. /\ \A m \in Windows : m \in Nat /\ m # 0 /\ m =< completedBatches /\ m \in Windows'
      /\ \A m \in Windows' : m \in Windows \/ m = n
  BY <1>1, <1>2 DEF Windows
<1> HIDE DEF n
<1>5. MetricsTypeOK'
  BY <1>1, <1>2 DEF LineInv, MetricsTypeOK, Stages
<1>6. \A c \in Batches : index'[c] =< completedBatches'
  BY <1>1, <1>2, <1>3 DEF LineInv, n
<1>7. \A c \in Batches : index'[c] # 0 <=> stage'[c] = "counted"
  BY <1>2, <1>3 DEF LineInv
<1>8. \A c \in Batches : shown'[c] # <<>> => ClosesWindow(c)' /\ stage'[c] = "counted"
  BY <1>1, <1>3 DEF LineInv, ClosesWindow
<1>9. \A c, d \in Batches : c # d /\ index'[c] = index'[d] => index'[c] = 0
  <2>1. \A c \in Batches : c # b => index'[c] # n
    BY <1>2, <1>3 DEF LineInv, n
  <2> QED BY <2>1, <1>3 DEF LineInv
<1>10. /\ \A j \in DOMAIN lines' : lines'[j].last \in Windows'
       /\ \A j, k \in DOMAIN lines' : j # k => lines'[j].last # lines'[k].last
  BY <1>1, <1>4 DEF LineInv
<1>11. \A j \in DOMAIN lines', c \in Batches : lines'[j].last # index'[c]
  <2>1. \A j \in DOMAIN lines : lines[j].last # n
    BY <1>2, <1>4 DEF LineInv, n
  <2> QED BY <2>1, <1>1, <1>3 DEF LineInv
<1>12. \A m \in Windows' : \/ \E j \in DOMAIN lines' : lines'[j].last = m
                          \/ \E c \in Batches : index'[c] = m
  BY <1>1, <1>3, <1>4 DEF LineInv
<1> QED BY <1>5, <1>6, <1>7, <1>8, <1>9, <1>10, <1>11, <1>12 DEF LineInv

\* What Leave does to the batch whose thread is done with its number, and to the others.
Left(b) ==
  /\ stage[b] = "counted" /\ stage'[b] = "done"
  /\ index[b] # 0 /\ index'[b] = 0
  /\ shown'[b] = <<>>
  /\ \A c \in Batches : c # b => /\ index'[c] = index[c] /\ stage'[c] = stage[c]
                                /\ shown'[c] = shown[c]
  /\ completedBatches' = completedBatches /\ Windows' = Windows

LEMMA LeaveKeeps ==
  ASSUME LineInv, NEW b \in Batches, Leave(b)
  PROVE  /\ Left(b) /\ UNCHANGED field
         /\ index' \in [Batches -> Nat] /\ shown' \in [Batches -> Seq(Means)]
         /\ stage' \in [Batches -> Stages]
<1>1. /\ stage[b] = "counted" /\ stage' = [stage EXCEPT ![b] = "done"]
      /\ index' = [index EXCEPT ![b] = 0] /\ shown' = [shown EXCEPT ![b] = <<>>]
      /\ UNCHANGED <<field, completedBatches>>
  BY DEF Leave, Move
<1>2. /\ stage \in [Batches -> Stages] /\ index \in [Batches -> Nat]
      /\ shown \in [Batches -> Seq(Means)]
  BY DEF LineInv, MetricsTypeOK
<1>3. Windows' = Windows
  BY <1>1 DEF Windows
<1>4. index[b] # 0
  BY <1>1 DEF LineInv
<1>5. stage' \in [Batches -> Stages]
  BY <1>1, <1>2 DEF Stages
<1>6. <<>> \in Seq(Means)
  OBVIOUS
<1>7. shown' \in [Batches -> Seq(Means)] /\ index' \in [Batches -> Nat]
  BY <1>1, <1>2, <1>6
<1>8. stage'[b] = "done" /\ index'[b] = 0 /\ shown'[b] = <<>>
  BY <1>1, <1>2
<1>9. \A c \in Batches : c # b => /\ index'[c] = index[c] /\ stage'[c] = stage[c]
                                 /\ shown'[c] = shown[c]
  BY <1>1, <1>2
<1> QED BY <1>1, <1>3, <1>4, <1>5, <1>7, <1>8, <1>9 DEF Left

LEMMA NothingToPrintKeeps ==
  ASSUME LineInv, NEW b \in Batches, NothingToPrint(b)
  PROVE  LineInv'
<1>1. Leave(b) /\ lines' = lines /\ ~ClosesWindow(b)
  BY DEF NothingToPrint
<1>0. Left(b)
  BY <1>1, LeaveKeeps
<1>2. MetricsTypeOK'
  <2>1. /\ index' \in [Batches -> Nat] /\ shown' \in [Batches -> Seq(Means)]
        /\ stage' \in [Batches -> Stages]
    BY <1>1, LeaveKeeps
  <2>2. UNCHANGED field /\ completedBatches' = completedBatches /\ lines' = lines
    BY <1>1, LeaveKeeps DEF Left
  <2>3. MetricsTypeOK
    BY DEF LineInv
  <2> QED BY <2>1, <2>2, <2>3 DEF MetricsTypeOK
<1>3. index[b] \notin Windows
  BY <1>1 DEF Windows, ClosesWindow
<1>4. \A c \in Batches : index'[c] =< completedBatches'
  <2>1. completedBatches \in Nat
    BY DEF LineInv, MetricsTypeOK
  <2> QED BY <2>1, <1>0 DEF LineInv, Left
<1>5. \A c \in Batches : index'[c] # 0 <=> stage'[c] = "counted"
  BY <1>1, <1>0 DEF LineInv, Left
<1>6. \A c \in Batches : shown'[c] # <<>> => ClosesWindow(c)' /\ stage'[c] = "counted"
  BY <1>1, <1>0 DEF LineInv, ClosesWindow, Left
<1>7. \A c, d \in Batches : c # d /\ index'[c] = index'[d] => index'[c] = 0
  BY <1>1, <1>0 DEF LineInv, Left
<1>8. /\ \A j \in DOMAIN lines' : lines'[j].last \in Windows'
      /\ \A j, k \in DOMAIN lines' : j # k => lines'[j].last # lines'[k].last
  BY <1>1, <1>0 DEF LineInv, Left
<1>9. \A j \in DOMAIN lines', c \in Batches : lines'[j].last # index'[c]
  <2>1. 0 \notin Windows
    BY DEF Windows
  <2> QED BY <2>1, <1>1, <1>0 DEF LineInv, Left
<1>10. \A m \in Windows' : \/ \E j \in DOMAIN lines' : lines'[j].last = m
                          \/ \E c \in Batches : index'[c] = m
  BY <1>1, <1>3, <1>0 DEF LineInv, Left
<1> QED BY <1>2, <1>4, <1>5, <1>6, <1>7, <1>8, <1>9, <1>10 DEF LineInv

LEMMA ReadAverageKeeps ==
  ASSUME LineInv, NEW b \in Batches, ReadAverage(b)
  PROVE  LineInv'
<1>1. /\ stage[b] = "counted" /\ ClosesWindow(b) /\ Len(shown[b]) < 3
      /\ shown' = [shown EXCEPT ![b] = Append(@, Average(Fields[Len(@) + 1]))]
      /\ UNCHANGED <<stage, index, field, completedBatches, lines>>
  BY FieldNames DEF ReadAverage
<1>2. shown \in [Batches -> Seq(Means)] /\ Len(shown[b]) \in Nat
  BY DEF LineInv, MetricsTypeOK
<1>3. Len(shown[b]) + 1 \in 1 .. 3
  BY <1>1, <1>2
<1>4. Average(Fields[Len(shown[b]) + 1]) \in Means
  BY <1>3, FieldNames, AverageType DEF LineInv
<1>5. Append(shown[b], Average(Fields[Len(shown[b]) + 1])) \in Seq(Means)
  BY <1>2, <1>4
<1>6. shown' \in [Batches -> Seq(Means)]
  BY <1>1, <1>2, <1>5
<1>7. \A c \in Batches : c # b => shown'[c] = shown[c]
  BY <1>1, <1>2
<1>8. MetricsTypeOK' /\ Windows' = Windows
  BY <1>1, <1>6 DEF LineInv, MetricsTypeOK, Windows
<1>9. \A c \in Batches : shown'[c] # <<>> => ClosesWindow(c)' /\ stage'[c] = "counted"
  BY <1>1, <1>7 DEF LineInv, ClosesWindow
<1> QED BY <1>1, <1>8, <1>9 DEF LineInv

LEMMA PrintLineKeeps ==
  ASSUME LineInv, NEW b \in Batches, PrintLine(b)
  PROVE  LineInv'
<1> DEFINE n    == index[b]
           line == [last |-> n, means |-> shown[b]]
           top  == Len(lines) + 1
<1>1. Leave(b) /\ lines' = Append(lines, line) /\ Len(shown[b]) = 3
  BY FieldNames DEF PrintLine
<1>0. Left(b)
  BY <1>1, LeaveKeeps
<1>2. /\ lines \in Seq(Line) /\ n \in Nat /\ shown[b] \in Seq(Means)
      /\ completedBatches \in Nat
  BY DEF LineInv, MetricsTypeOK
<1>3. line \in Line /\ line.last = n
  BY <1>2 DEF Line
<1>4. n # 0 /\ n =< completedBatches /\ n % windowDimension = 0
  <2>1. ASSUME shown[b] = <<>> PROVE FALSE
    <3>1. Len(<<>>) = 0
      BY EmptySeq
    <3>2. Len(shown[b]) = 0
      BY <2>1, <3>1, Zenon
    <3>3. 3 = 0
      BY <3>2, <1>1, Zenon
    <3> QED BY <3>3
  <2> QED BY <2>1, <1>1, <1>0 DEF LineInv, ClosesWindow, Left
<1>5. n \in Windows
  BY <1>2, <1>4 DEF Windows
<1> HIDE DEF line, n
<1>6. /\ lines' \in Seq(Line) /\ DOMAIN lines' = DOMAIN lines \cup {top}
      /\ top \notin DOMAIN lines /\ lines'[top] = line
      /\ \A j \in DOMAIN lines : lines'[j] = lines[j]
  BY <1>1, <1>2, <1>3
<1> HIDE DEF top
<1>7. MetricsTypeOK'
  <2>1. MetricsTypeOK
    BY DEF LineInv
  <2>2. /\ index' \in [Batches -> Nat] /\ shown' \in [Batches -> Seq(Means)]
        /\ stage' \in [Batches -> Stages] /\ UNCHANGED <<field, completedBatches>>
    BY <1>1, LeaveKeeps DEF Left
  <2> QED BY <2>1, <2>2, <1>6 DEF MetricsTypeOK
<1>8. \A c \in Batches : index'[c] =< completedBatches'
  <2>1. completedBatches \in Nat
    BY DEF LineInv, MetricsTypeOK
  <2> QED BY <2>1, <1>0 DEF LineInv, Left
<1>9. \A c \in Batches : index'[c] # 0 <=> stage'[c] = "counted"
  BY <1>1, <1>0 DEF LineInv, Left
<1>10. \A c \in Batches : shown'[c] # <<>> => ClosesWindow(c)' /\ stage'[c] = "counted"
  BY <1>1, <1>0 DEF LineInv, ClosesWindow, Left
<1>11. \A c, d \in Batches : c # d /\ index'[c] = index'[d] => index'[c] = 0
  BY <1>1, <1>0 DEF LineInv, Left
<1>12. \A j \in DOMAIN lines' : lines'[j].last \in Windows'
  BY <1>1, <1>3, <1>5, <1>6, <1>0 DEF LineInv, Left
<1>13. \A j, k \in DOMAIN lines' : j # k => lines'[j].last # lines'[k].last
  BY <1>3, <1>6 DEF LineInv, n
<1>14. \A j \in DOMAIN lines', c \in Batches : lines'[j].last # index'[c]
  <2>1. 0 \notin Windows
    BY DEF Windows
  <2>2. \A c \in Batches : index'[c] # n
    BY <1>1, <1>4, <1>0 DEF LineInv, n, Left
  <2>3. \A j \in DOMAIN lines, c \in Batches : lines[j].last # index'[c]
    BY <2>1, <1>1, <1>0 DEF LineInv, Left
  <2> QED BY <2>2, <2>3, <1>3, <1>6
<1>15. \A m \in Windows' : \/ \E j \in DOMAIN lines' : lines'[j].last = m
                          \/ \E c \in Batches : index'[c] = m
  <2> SUFFICES ASSUME NEW m \in Windows'
               PROVE  \/ \E j \in DOMAIN lines' : lines'[j].last = m
                      \/ \E c \in Batches : index'[c] = m
    OBVIOUS
  <2>1. m \in Windows
    BY <1>1, <1>0 DEF Left
  <2>2. CASE m = n
    BY <2>2, <1>3, <1>6
  <2>3. CASE m # n /\ \E j \in DOMAIN lines : lines[j].last = m
    BY <2>3, <1>6
  <2>4. CASE m # n /\ \E c \in Batches : index[c] = m
    BY <2>4, <1>1, <1>0 DEF n, Left
  <2> QED BY <2>1, <2>2, <2>3, <2>4 DEF LineInv
<1> QED BY <1>7, <1>8, <1>9, <1>10, <1>11, <1>12, <1>13, <1>14, <1>15 DEF LineInv

LEMMA StepKeepsLines ==
  ASSUME LineInv, NEW b \in Batches,
         \/ Preprocess(b) \/ Infer(b) \/ InferFails(b) \/ Postprocess(b) \/ Count(b)
         \/ NothingToPrint(b) \/ ReadAverage(b) \/ PrintLine(b)
  PROVE  LineInv'
<1>1. {"prepared", "inferred", "failed", "timed"} \subseteq Stages
  BY DEF Stages
<1>2. CASE Preprocess(b)
  BY <1>1, <1>2, FieldNames, AddType, MoveKeeps DEF Preprocess, LineInv
<1>3. CASE Infer(b)
  BY <1>1, <1>3, FieldNames, AddType, MoveKeeps DEF Infer, LineInv
<1>4. CASE InferFails(b)
  BY <1>1, <1>4, MoveKeeps DEF InferFails, LineInv, MetricsTypeOK
<1>5. CASE Postprocess(b)
  BY <1>1, <1>5, FieldNames, AddType, MoveKeeps DEF Postprocess, LineInv
<1>6. CASE Count(b)
  BY <1>6, CountKeeps
<1>7. CASE NothingToPrint(b)
  BY <1>7, NothingToPrintKeeps
<1>8. CASE ReadAverage(b)
  BY <1>8, ReadAverageKeeps
<1>9. CASE PrintLine(b)
  BY <1>9, PrintLineKeeps
<1> QED BY <1>2, <1>3, <1>4, <1>5, <1>6, <1>7, <1>8, <1>9

\* The number of the next frame is the number of a batch.
LEMMA ReadInRange ==
  ASSUME FramesRead < NumBatches
  PROVE  FramesRead + 1 \in Batches
<1>1. IsFiniteSet({b \in Batches : stage[b] # "unread"})
  BY Constants, FS_Interval, FS_Subset DEF Batches
<1>2. FramesRead \in Nat
  BY <1>1, FS_CardinalityType DEF FramesRead
<1> QED BY <1>2, Constants DEF Batches

LEMMA IdleKeepsLines ==
  ASSUME LineInv, UNCHANGED metricsVars
  PROVE  LineInv'
BY DEF LineInv, MetricsTypeOK, metricsVars, Windows, ClosesWindow

\* LineInv says of the two sets that at most one is not empty and neither has two elements.
LEMMA LineInvSuffices == LineInv => OneLinePerWindow
<1> SUFFICES ASSUME LineInv, NEW n \in Windows
             PROVE  Cardinality({j \in DOMAIN lines : lines[j].last = n})
                      + Cardinality({b \in Batches : index[b] = n}) = 1
  BY DEF OneLinePerWindow, LineInv
<1> DEFINE Printed == {j \in DOMAIN lines : lines[j].last = n}
           Holders == {b \in Batches : index[b] = n}
<1> SUFFICES Cardinality(Printed) + Cardinality(Holders) = 1
  OBVIOUS
<1>1. n # 0
  BY DEF Windows
<1>2. Cardinality({}) = 0
  BY FS_EmptySet
<1>3. CASE \E j \in DOMAIN lines : lines[j].last = n
  <2>1. PICK j \in DOMAIN lines : lines[j].last = n
    BY <1>3
  <2>2. Printed = {j} /\ Holders = {}
    BY <2>1 DEF LineInv
  <2> HIDE DEF Printed, Holders
  <2>3. Cardinality(Printed) = 1 /\ Cardinality(Holders) = 0
    BY <2>2, <1>2, FS_Singleton
  <2> QED BY <2>3
<1>4. CASE ~\E j \in DOMAIN lines : lines[j].last = n
  <2>1. PICK b \in Batches : index[b] = n
    BY <1>4 DEF LineInv
  <2>2. Printed = {} /\ Holders = {b}
    BY <2>1, <1>1, <1>4 DEF LineInv
  <2> HIDE DEF Printed, Holders
  <2>3. Cardinality(Printed) = 0 /\ Cardinality(Holders) = 1
    BY <2>2, <1>2, FS_Singleton
  <2> QED BY <2>3
<1> QED BY <1>3, <1>4

\* PerformanceMetrics.cpp:54-59: the value fetch_add returned decides who prints, so a
\* window is printed once however the post threads interleave.
THEOREM OneLine == SessionSpec => []OneLinePerWindow
<1>1. SessionInit => LineInv
  BY LineInit DEF SessionInit
<1>2. LineInv /\ [SessionNext]_sessionVars => LineInv'
  <2> SUFFICES ASSUME LineInv, [SessionNext]_sessionVars
               PROVE  LineInv'
    OBVIOUS
  <2>1. CASE UNCHANGED metricsVars
    BY <2>1, IdleKeepsLines
  <2>2. CASE ReadFrame
    <3>1. FramesRead + 1 \in Batches /\ "read" \in Stages
      BY <2>2, ReadInRange DEF ReadFrame, Stages
    <3> QED BY <2>2, <3>1, MoveKeeps DEF ReadFrame, LineInv, MetricsTypeOK
  <2>3. CASE MetricsStep
    BY <2>3, StepKeepsLines DEF MetricsStep
  <2> QED BY <2>1, <2>2, <2>3 DEF SessionNext, sessionVars, FinalReport
<1> QED BY <1>1, <1>2, LineInvSuffices, PTL DEF SessionSpec
-----------------------------------------------------------------------------
(* What a line shows.                                                       *)

\* Where a batch is once field f has its sample.
Beyond == [preprocessing  |-> {"prepared", "inferred", "failed", "timed", "counted", "done"},
           gpu            |-> {"inferred", "timed", "counted", "done"},
           postprocessing |-> {"timed", "counted", "done"}]

Completed == {"counted", "done"}

In(S) == {b \in Batches : stage[b] \in S}

\* A field has one sample of every batch that is past the stage it times.
SamplesOf(f) ==
  /\ added[f] \in Seq(Batches)
  /\ Len(added[f]) = Cardinality(In(Beyond[f]))
  /\ \A j \in DOMAIN added[f] : stage[added[f][j]] \in Beyond[f]
  /\ \A i, j \in DOMAIN added[f] : i # j => added[f][i] # added[f][j]

SampleInv == /\ added \in [Field -> Seq(Batches)]
             /\ \A f \in Field : SamplesOf(f)
             /\ completedBatches = Cardinality(In(Completed))

\* Which of the samples field f was ever given stands at a position of its window.
HeldAt(f, i) == Len(added[f]) - field[f].writeIndex + i + 1
                  - (IF i < field[f].writeIndex THEN 0 ELSE windowDimension)

\* The window holds the last samples, as many as it has room for.
RingOf(f) ==
  /\ field[f].count = IF Len(added[f]) < windowDimension THEN Len(added[f])
                      ELSE windowDimension
  /\ field[f].writeIndex =< Len(added[f])
  /\ Len(added[f]) < windowDimension => field[f].writeIndex = Len(added[f])
  /\ \A i \in 0 .. field[f].count - 1 : field[f].window[i] = added[f][HeldAt(f, i)]

RingInv == \A f \in Field : RingOf(f)

Covers(f, from, mean) == \E n \in from .. Len(added[f]) : mean = Rolling(f, n)

\* What a thread has read so far is what MeansCoverWindow wants of its line.
ShownInv == \A b \in Batches :
              /\ Len(shown[b]) =< Len(Fields)
              /\ \A k \in DOMAIN shown[b] : Covers(Fields[k], index[b], shown[b][k])

MeansInv == LineInv /\ SampleInv /\ RingInv /\ ShownInv /\ MeansCoverWindow

LEMMA BatchesFinite == IsFiniteSet(Batches)
BY Constants, FS_Interval DEF Batches

\* One element makes the difference between two sets.
LEMMA CountMove ==
  ASSUME NEW S, IsFiniteSet(S), NEW A \in SUBSET S, NEW B \in SUBSET S, NEW w,
         \A v \in S \ {w} : v \in A <=> v \in B
  PROVE  /\ Cardinality(A) \in Nat /\ Cardinality(B) \in Nat
         /\ Cardinality(B) = IF w \in A <=> w \in B THEN Cardinality(A)
                             ELSE IF w \in B THEN Cardinality(A) + 1
                                             ELSE Cardinality(A) - 1
<1>1. /\ IsFiniteSet(A) /\ Cardinality(A) \in Nat
      /\ IsFiniteSet(B) /\ Cardinality(B) \in Nat
  BY FS_Subset, FS_CardinalityType
<1>2. CASE w \in A <=> w \in B
  <2>1. B = A
    BY <1>2
  <2> QED BY <1>1, <1>2, <2>1
<1>3. CASE w \in B /\ w \notin A
  <2>1. B = A \cup {w}
    BY <1>3
  <2>2. Cardinality(A \cup {w}) = Cardinality(A) + 1
    BY <1>1, <1>3, FS_AddElement
  <2> QED BY <1>1, <1>3, <2>1, <2>2
<1>4. CASE w \notin B /\ w \in A
  <2>1. B = A \ {w}
    BY <1>4
  <2>2. Cardinality(A \ {w}) = Cardinality(A) - 1
    BY <1>1, <1>4, FS_RemoveElement
  <2> QED BY <1>1, <1>4, <2>1, <2>2
<1> QED BY <1>2, <1>3, <1>4, <1>1

LEMMA InFinite ==
  ASSUME NEW S
  PROVE  IsFiniteSet(In(S)) /\ Cardinality(In(S)) \in Nat
BY BatchesFinite, FS_Subset, FS_CardinalityType DEF In

LEMMA FieldIs == Field = {"preprocessing", "gpu", "postprocessing"}
<1>1. DOMAIN Fields = 1 .. 3
  BY DEF Fields
<1>2. Fields[1] = "preprocessing" /\ Fields[2] = "gpu" /\ Fields[3] = "postprocessing"
  BY DEF Fields
<1> HIDE DEF Fields
<1> QED BY <1>1, <1>2 DEF Field, ToSet

\* A number that ends a window is at least a window.
LEMMA FullWindow ==
  ASSUME NEW n \in Nat \ {0}, n % windowDimension = 0
  PROVE  n >= windowDimension
<1>1. n < windowDimension => n % windowDimension = n
  BY Constants
<1> QED BY <1>1, Constants

LEMMA NextPosition ==
  ASSUME NEW r \in Positions
  PROVE  (r + 1) % windowDimension = IF r + 1 = windowDimension THEN 0 ELSE r + 1
<1>1. r \in Nat /\ r + 1 =< windowDimension
  BY Constants DEF Positions
<1>2. r + 1 < windowDimension => (r + 1) % windowDimension = r + 1
  BY <1>1, Constants
<1>3. windowDimension % windowDimension = 0
  BY Constants
<1> QED BY <1>1, <1>2, <1>3, Constants

\* RollingField::add gives one field one sample more.
LEMMA AddEffect ==
  ASSUME LineInv, SampleInv, NEW f \in Field, NEW b \in Batches, Add(f, b)
  PROVE  /\ added' \in [Field -> Seq(Batches)]
         /\ added'[f] = Append(added[f], b)
         /\ Len(added'[f]) = Len(added[f]) + 1 /\ added'[f][Len(added[f]) + 1] = b
         /\ \A j \in DOMAIN added[f] : added'[f][j] = added[f][j]
         /\ \A g \in Field : g # f => added'[g] = added[g] /\ field'[g] = field[g]
<1>1. added \in [Field -> Seq(Batches)] /\ field \in [Field -> [window : [Positions -> Nat],
         writeIndex : Positions, count : 0 .. windowDimension]]
  BY DEF SampleInv, LineInv, MetricsTypeOK
<1>2. added' = [added EXCEPT ![f] = Append(@, b)]
  BY DEF Add
<1>3. Append(added[f], b) \in Seq(Batches) /\ added[f] \in Seq(Batches)
  BY <1>1
<1>4. added'[f] = Append(added[f], b) /\ added' \in [Field -> Seq(Batches)]
  BY <1>1, <1>2, <1>3
<1>5. /\ Len(added'[f]) = Len(added[f]) + 1 /\ added'[f][Len(added[f]) + 1] = b
      /\ \A j \in DOMAIN added[f] : added'[f][j] = added[f][j]
  BY <1>3, <1>4
<1>6. \A g \in Field : g # f => added'[g] = added[g]
  BY <1>1, <1>2
<1>7. \A g \in Field : g # f => field'[g] = field[g]
  BY <1>1 DEF Add
<1> QED BY <1>4, <1>5, <1>6, <1>7

\* RollingAverage.cpp:24-33: the sample that is overwritten is the oldest.
LEMMA AddKeepsRing ==
  ASSUME LineInv, SampleInv, RingInv, NEW f \in Field, NEW b \in Batches, Add(f, b)
  PROVE  RingInv'
<1> DEFINE n == Len(added[f])
           W == windowDimension
           r == field[f].writeIndex
           c == field[f].count
           s == IF r + 1 = W THEN 0 ELSE r + 1
           d == IF c < W THEN c + 1 ELSE c
           old(i) == n - r + i + 1 - (IF i < r THEN 0 ELSE W)
           new(i) == n + 1 - s + i + 1 - (IF i < s THEN 0 ELSE W)
<1>1. /\ added[f] \in Seq(Batches) /\ n \in Nat /\ DOMAIN added[f] = 1 .. n
      /\ W \in Nat \ {0} /\ r \in 0 .. W - 1 /\ c \in 0 .. W
      /\ field[f].window \in [Positions -> Nat] /\ Positions = 0 .. W - 1
  <2>1. field[f] \in [window : [Positions -> Nat], writeIndex : Positions, count : 0 .. W]
    BY DEF LineInv, MetricsTypeOK
  <2>2. added[f] \in Seq(Batches)
    BY DEF SampleInv
  <2>3. n \in Nat /\ DOMAIN added[f] = 1 .. n
    BY <2>2
  <2>4. Positions = 0 .. W - 1 /\ W \in Nat \ {0}
    BY Constants DEF Positions
  <2> QED BY <2>1, <2>2, <2>3, <2>4
<1> HIDE DEF old, new
<1>2. /\ field'[f].writeIndex = s /\ field'[f].count = d
      /\ field'[f].window = [field[f].window EXCEPT ![r] = b]
  <2>1. field'[f] = [window |-> [field[f].window EXCEPT ![r] = b],
                     writeIndex |-> (r + 1) % W, count |-> d]
    <3>1. DOMAIN field = Field
      BY DEF LineInv, MetricsTypeOK
    <3>2. field' = [field EXCEPT ![f] = [window |-> [field[f].window EXCEPT ![r] = b],
                     writeIndex |-> (r + 1) % W, count |-> d]]
      BY Zenon DEF Add
    <3> QED BY <3>1, <3>2
  <2>2. (r + 1) % W = s
    BY <1>1, NextPosition
  <2> HIDE DEF s, d, r, W
  <2> QED BY <2>1, <2>2
<1>3. /\ field'[f].window[r] = b
      /\ \A i \in Positions : i # r => field'[f].window[i] = field[f].window[i]
  BY <1>1, <1>2
<1>4. /\ c = (IF n < W THEN n ELSE W) /\ r =< n /\ (n < W => r = n)
      /\ \A i \in 0 .. c - 1 : field[f].window[i] = added[f][HeldAt(f, i)]
  BY DEF RingInv, RingOf
<1>5. /\ Len(added'[f]) = n + 1 /\ added'[f][n + 1] = b
      /\ \A j \in 1 .. n : added'[f][j] = added[f][j]
  BY <1>1, AddEffect
<1>6. \A i \in 0 .. c - 1 : field[f].window[i] = added[f][old(i)]
  BY <1>4 DEF HeldAt, old
<1>7. s = (IF r + 1 = W THEN 0 ELSE r + 1) /\ d = (IF c < W THEN c + 1 ELSE c)
  OBVIOUS
<1> HIDE DEF n, W, r, c, s, d
<1>8. /\ d = (IF n + 1 < W THEN n + 1 ELSE W) /\ s =< n + 1 /\ (n + 1 < W => s = n + 1)
  BY <1>1, <1>4, <1>7
<1>9. \A i \in 0 .. d - 1 : field'[f].window[i] = added'[f][new(i)]
  <2> SUFFICES ASSUME NEW i \in 0 .. d - 1
               PROVE  field'[f].window[i] = added'[f][new(i)]
    OBVIOUS
  <2>1. i \in Positions /\ i \in Int
    BY <1>1, <1>4, <1>7
  <2>2. CASE i = r
    <3>1. new(i) = n + 1
      BY <2>1, <2>2, <1>1, <1>7 DEF new
    <3> QED BY <3>1, <2>2, <1>3, <1>5
  <2>3. CASE i # r
    <3>1. i \in 0 .. c - 1
      BY <2>1, <2>3, <1>1, <1>4, <1>7
    <3>2. new(i) = old(i) /\ old(i) \in 1 .. n
      BY <2>1, <2>3, <3>1, <1>1, <1>4, <1>7 DEF new, old
    <3> QED BY <3>1, <3>2, <2>1, <2>3, <1>3, <1>5, <1>6
  <2> QED BY <2>2, <2>3
<1>10. RingOf(f)'
  <2>1. \A i \in Int : HeldAt(f, i)' = new(i)
    <3> SUFFICES ASSUME NEW i \in Int PROVE HeldAt(f, i)' = new(i)
      OBVIOUS
    <3>1. HeldAt(f, i)' = Len(added'[f]) - field'[f].writeIndex + i + 1
                            - (IF i < field'[f].writeIndex THEN 0 ELSE W)
      BY DEF HeldAt, W
    <3>2. n \in Int /\ s \in Int /\ W \in Int
      BY <1>1, <1>7
    <3> QED BY <3>1, <3>2, <1>2, <1>5 DEF new
  <2>2. \A i \in 0 .. d - 1 : field'[f].window[i] = added'[f][HeldAt(f, i)']
    BY <1>1, <1>8, <1>9, <2>1
  <2> QED BY <1>2, <1>5, <1>8, <2>2 DEF RingOf, W
<1>11. \A g \in Field : g # f => RingOf(g)'
  BY AddEffect DEF RingInv, RingOf, HeldAt
<1> QED BY <1>10, <1>11 DEF RingInv

\* A batch that moves enters some sets of stages and leaves others.
LEMMA MoveCounts ==
  ASSUME LineInv, NEW b \in Batches, NEW from, NEW to, Move(b, from, to), NEW S
  PROVE  Cardinality(In(S))' = IF from \in S <=> to \in S THEN Cardinality(In(S))
                               ELSE IF to \in S THEN Cardinality(In(S)) + 1
                                                ELSE Cardinality(In(S)) - 1
<1>1. /\ stage[b] = from /\ stage'[b] = to
      /\ \A c \in Batches \ {b} : stage'[c] = stage[c]
  BY DEF LineInv, MetricsTypeOK, Move
<1> DEFINE A == {c \in Batches : stage[c] \in S}
           B == {c \in Batches : stage'[c] \in S}
<1>2. /\ A \in SUBSET Batches /\ B \in SUBSET Batches
      /\ b \in A <=> from \in S
      /\ b \in B <=> to \in S
      /\ \A c \in Batches \ {b} : c \in A <=> c \in B
  BY <1>1
<1> HIDE DEF A, B
<1>3. Cardinality(B) = IF b \in A <=> b \in B THEN Cardinality(A)
                       ELSE IF b \in B THEN Cardinality(A) + 1 ELSE Cardinality(A) - 1
  BY <1>2, BatchesFinite, CountMove
<1>4. Cardinality(In(S)) = Cardinality(A) /\ Cardinality(In(S))' = Cardinality(B)
  BY DEF In, A, B
<1> QED BY <1>2, <1>3, <1>4

\* A batch goes past the stage that field f times.
LEMMA AddSamples ==
  ASSUME LineInv, SampleInv, NEW f \in Field, NEW b \in Batches, NEW from, NEW to,
         Move(b, from, to), Add(f, b), completedBatches' = completedBatches,
         from \notin Beyond[f], to \in Beyond[f], from \notin Completed, to \notin Completed,
         \A g \in Field \ {f} : from \in Beyond[g] <=> to \in Beyond[g]
  PROVE  SampleInv'
<1>1. /\ stage[b] = from /\ stage'[b] = to
      /\ \A c \in Batches \ {b} : stage'[c] = stage[c]
  BY DEF LineInv, MetricsTypeOK, Move
<1>2. \A g \in Field : /\ added[g] \in Seq(Batches) /\ DOMAIN added[g] = 1 .. Len(added[g])
                       /\ Len(added[g]) \in Nat
                       /\ \A j \in DOMAIN added[g] : added[g][j] \in Batches
  BY DEF SampleInv
<1>3. SamplesOf(f)'
  <2>1. Len(added'[f]) = Cardinality(In(Beyond[f]))'
    <3> DEFINE S == Beyond[f]
    <3>1. from \notin S /\ to \in S
      OBVIOUS
    <3> HIDE DEF S
    <3>2. Cardinality(In(S))' = Cardinality(In(S)) + 1
      BY <3>1, MoveCounts
    <3>3. Len(added[f]) = Cardinality(In(S))
      BY DEF SampleInv, SamplesOf, S
    <3>4. Len(added'[f]) = Cardinality(In(S))'
      BY <3>2, <3>3, AddEffect
    <3> QED BY <3>4 DEF S
  <2>2. \A j \in DOMAIN added[f] : /\ added[f][j] # b
                                  /\ stage'[added[f][j]] \in Beyond[f]
    BY <1>1, <1>2 DEF SampleInv, SamplesOf
  <2>3. /\ added'[f] \in Seq(Batches) /\ DOMAIN added'[f] = 1 .. Len(added[f]) + 1
        /\ added'[f][Len(added[f]) + 1] = b
        /\ \A j \in DOMAIN added[f] : added'[f][j] = added[f][j]
    BY AddEffect
  <2>4. \A j \in DOMAIN added'[f] : j \in DOMAIN added[f] \/ j = Len(added[f]) + 1
    BY <1>2, <2>3
  <2>5. \A j \in DOMAIN added'[f] : stage'[added'[f][j]] \in Beyond[f]
    BY <1>1, <2>2, <2>3, <2>4
  <2>6. \A i, j \in DOMAIN added'[f] : i # j => added'[f][i] # added'[f][j]
    BY <2>2, <2>3, <2>4 DEF SampleInv, SamplesOf
  <2> QED BY <2>1, <2>3, <2>5, <2>6 DEF SamplesOf
<1>4. ASSUME NEW g \in Field, g # f PROVE SamplesOf(g)'
  <2> DEFINE S == Beyond[g]
  <2>1. from \in S <=> to \in S
    BY <1>4
  <2>2. added'[g] = added[g]
    BY <1>4, AddEffect
  <2>3. \A j \in DOMAIN added[g] : stage'[added[g][j]] \in S
    BY <1>1, <1>2, <2>1 DEF SampleInv, SamplesOf
  <2> HIDE DEF S
  <2>4. Cardinality(In(S))' = Cardinality(In(S))
    BY <2>1, MoveCounts
  <2> QED BY <2>2, <2>3, <2>4 DEF SampleInv, SamplesOf, S
<1>5. Cardinality(In(Completed))' = Cardinality(In(Completed))
  BY MoveCounts
<1>6. added' \in [Field -> Seq(Batches)]
  BY AddEffect
<1> QED BY <1>3, <1>4, <1>5, <1>6 DEF SampleInv

\* A batch moves, but past no stage that is timed.
LEMMA NoSamples ==
  ASSUME LineInv, SampleInv, NEW b \in Batches, NEW from, NEW to, Move(b, from, to),
         UNCHANGED added, \A g \in Field : from \in Beyond[g] <=> to \in Beyond[g],
         from \in Completed => to \in Completed,
         completedBatches' = IF from \in Completed <=> to \in Completed
                             THEN completedBatches ELSE completedBatches + 1
  PROVE  SampleInv'
<1>1. /\ stage[b] = from /\ stage'[b] = to
      /\ \A c \in Batches \ {b} : stage'[c] = stage[c]
  BY DEF LineInv, MetricsTypeOK, Move
<1>2. ASSUME NEW g \in Field PROVE SamplesOf(g)'
  <2> DEFINE S == Beyond[g]
  <2>1. from \in S <=> to \in S
    OBVIOUS
  <2>2. added[g] \in Seq(Batches) /\ \A j \in DOMAIN added[g] : added[g][j] \in Batches
    BY DEF SampleInv
  <2>3. \A j \in DOMAIN added[g] : stage'[added[g][j]] \in S
    BY <1>1, <2>1, <2>2 DEF SampleInv, SamplesOf
  <2> HIDE DEF S
  <2>4. Cardinality(In(S))' = Cardinality(In(S))
    BY <2>1, MoveCounts
  <2> QED BY <2>3, <2>4 DEF SampleInv, SamplesOf, S
<1>3. Cardinality(In(Completed))' = IF from \in Completed <=> to \in Completed
                                    THEN Cardinality(In(Completed))
                                    ELSE Cardinality(In(Completed)) + 1
  BY MoveCounts
<1> QED BY <1>2, <1>3 DEF SampleInv

\* The counter is behind the samples: each stage adds its own before it lets the batch go.
LEMMA EnoughSamples ==
  ASSUME SampleInv, NEW f \in Field
  PROVE  completedBatches =< Len(added[f])
<1>1. Completed \subseteq Beyond[f]
  BY FieldIs DEF Completed, Beyond
<1>2. In(Completed) \in SUBSET In(Beyond[f])
  BY <1>1 DEF In
<1> QED BY <1>2, InFinite, FS_Subset DEF SampleInv, SamplesOf

\* A full window holds the last windowDimension samples and no other.
LEMMA AverageIsRolling ==
  ASSUME LineInv, SampleInv, RingInv, NEW f \in Field, Len(added[f]) >= windowDimension
  PROVE  Average(f) = Rolling(f, Len(added[f]))
<1> DEFINE n == Len(added[f])
           W == windowDimension
           r == field[f].writeIndex
<1>1. n \in Nat /\ W \in Nat \ {0} /\ r \in 0 .. W - 1
  <2>1. r \in Positions
    BY DEF LineInv, MetricsTypeOK
  <2>2. added[f] \in Seq(Batches)
    BY DEF SampleInv
  <2> QED BY <2>1, <2>2, Constants DEF Positions
<1>2. field[f].count = W /\ \A i \in 0 .. W - 1 : field[f].window[i] = added[f][HeldAt(f, i)]
  BY <1>1 DEF RingInv, RingOf
<1>3. \A i \in 0 .. W - 1 : HeldAt(f, i) = (n - r) + i + 1 - (IF i < r THEN 0 ELSE W)
  BY <1>1 DEF HeldAt
<1>4. Average(f) = {field[f].window[i] : i \in 0 .. W - 1}
  BY <1>2 DEF Average
<1>5. Rolling(f, n) = {added[f][j] : j \in n - W + 1 .. n}
  BY DEF Rolling
<1> HIDE DEF n, W, r
<1>6. \A i \in 0 .. W - 1 : HeldAt(f, i) \in n - W + 1 .. n
  BY <1>1, <1>3
<1>7. ASSUME NEW j \in n - W + 1 .. n PROVE \E i \in 0 .. W - 1 : HeldAt(f, i) = j
  <2>1. CASE j - 1 >= n - r
    <3> DEFINE i == j - 1 - (n - r)
    <3>1. i \in 0 .. W - 1 /\ i < r
      BY <1>1, <2>1
    <3>2. HeldAt(f, i) = j
      BY <1>1, <1>3, <3>1
    <3> QED BY <3>1, <3>2
  <2>2. CASE j - 1 < n - r
    <3> DEFINE i == W + (j - 1) - (n - r)
    <3>1. i \in 0 .. W - 1 /\ ~(i < r)
      BY <1>1, <2>2
    <3>2. HeldAt(f, i) = j
      BY <1>1, <1>3, <3>1
    <3> QED BY <3>1, <3>2
  <2> QED BY <1>1, <2>1, <2>2
<1>8. Average(f) = Rolling(f, n)
  BY <1>2, <1>4, <1>5, <1>6, <1>7
<1> QED BY <1>8 DEF n

\* A sample that was added stays what it was.
Grown == \A f \in Field : /\ Len(added'[f]) >= Len(added[f])
                          /\ \A j \in DOMAIN added[f] : added'[f][j] = added[f][j]

CoversNext(f, from, mean) ==
  \E n \in from .. Len(added'[f]) :
    mean = {added'[f][j] : j \in n - windowDimension + 1 .. n}

LEMMA GrownCovers ==
  ASSUME SampleInv, Grown, NEW f \in Field, NEW from \in Nat, from >= windowDimension,
         NEW mean, Covers(f, from, mean)
  PROVE  CoversNext(f, from, mean)
<1>1. PICK n \in from .. Len(added[f]) : mean = Rolling(f, n)
  BY DEF Covers
<1>2. added[f] \in Seq(Batches)
  BY DEF SampleInv
<1>3. DOMAIN added[f] = 1 .. Len(added[f]) /\ Len(added[f]) \in Nat
  BY <1>2
<1>4. \A j \in n - windowDimension + 1 .. n : added'[f][j] = added[f][j]
  BY <1>3, Constants DEF Grown
<1>5. mean = {added'[f][j] : j \in n - windowDimension + 1 .. n}
  BY <1>1, <1>4 DEF Rolling
<1>6. Len(added'[f]) \in Int => n \in from .. Len(added'[f])
  BY <1>3 DEF Grown
<1> QED BY <1>5, <1>6 DEF CoversNext

\* Who reads the averages holds the number of a full window.
LEMMA ReadersNumber ==
  ASSUME LineInv, NEW b \in Batches, stage[b] = "counted", ClosesWindow(b)
  PROVE  index[b] \in Nat /\ index[b] >= windowDimension
<1>1. index[b] \in Nat \ {0}
  BY DEF LineInv, MetricsTypeOK
<1> QED BY <1>1, FullWindow DEF ClosesWindow

LEMMA ShownReader ==
  ASSUME LineInv, ShownInv, NEW b \in Batches, NEW k \in DOMAIN shown[b]
  PROVE  /\ k \in 1 .. 3 /\ Fields[k] \in Field
         /\ index[b] \in Nat /\ index[b] >= windowDimension
<1>1. shown[b] \in Seq(Means) /\ Len(shown[b]) =< 3
  BY FieldNames DEF LineInv, MetricsTypeOK, ShownInv
<1>2. k \in 1 .. 3
  BY <1>1
<1>3. shown[b] # <<>>
  BY <1>1
<1>4. stage[b] = "counted" /\ ClosesWindow(b)
  BY <1>3 DEF LineInv
<1> QED BY <1>2, <1>4, FieldNames, ReadersNumber

LEMMA ShownKeeps ==
  ASSUME LineInv, SampleInv, ShownInv, Grown, NEW b \in Batches,
         shown'[b] = <<>> \/ (shown'[b] = shown[b] /\ index'[b] = index[b])
  PROVE  /\ Len(shown'[b]) =< Len(Fields)
         /\ \A k \in DOMAIN shown'[b] : CoversNext(Fields[k], index'[b], shown'[b][k])
<1>1. CASE shown'[b] = <<>>
  BY <1>1, FieldNames
<1>2. CASE shown'[b] = shown[b] /\ index'[b] = index[b]
  <2>1. ASSUME NEW k \in DOMAIN shown[b]
        PROVE  CoversNext(Fields[k], index[b], shown[b][k])
    <3>1. Covers(Fields[k], index[b], shown[b][k])
      BY DEF ShownInv
    <3> QED BY <3>1, ShownReader, GrownCovers
  <2> QED BY <1>2, <2>1 DEF ShownInv
<1> QED BY <1>1, <1>2

LEMMA LinesKeep ==
  ASSUME LineInv, SampleInv, MeansCoverWindow, Grown, NEW j \in DOMAIN lines,
         NEW k \in DOMAIN Fields
  PROVE  CoversNext(Fields[k], lines[j].last, lines[j].means[k])
<1>1. Fields[k] \in Field
  BY DEF Field, ToSet
<1>2. Covers(Fields[k], lines[j].last, lines[j].means[k])
  BY DEF MeansCoverWindow, Covers
<1>3. lines[j].last \in Windows
  BY DEF LineInv
<1>4. lines[j].last \in Nat \ {0} /\ lines[j].last % windowDimension = 0
  BY <1>3 DEF Windows
<1> QED BY <1>1, <1>2, <1>4, FullWindow, GrownCovers

LEMMA CoversPrimed ==
  /\ (\A b \in Batches : /\ Len(shown'[b]) =< Len(Fields)
                         /\ \A k \in DOMAIN shown'[b] :
                              CoversNext(Fields[k], index'[b], shown'[b][k]))
       => ShownInv'
  /\ (\A j \in DOMAIN lines' : \A k \in DOMAIN Fields :
        CoversNext(Fields[k], lines'[j].last, lines'[j].means[k]))
       => MeansCoverWindow'
BY DEF ShownInv, MeansCoverWindow, Covers, CoversNext, Rolling

\* A step that neither reads an average nor prints.
LEMMA QuietStep ==
  ASSUME LineInv, SampleInv, ShownInv, MeansCoverWindow, Grown, UNCHANGED lines,
         \A b \in Batches :
           shown'[b] = <<>> \/ (shown'[b] = shown[b] /\ index'[b] = index[b])
  PROVE  ShownInv' /\ MeansCoverWindow'
BY ShownKeeps, LinesKeep, CoversPrimed

LEMMA GrownBy ==
  ASSUME LineInv, SampleInv
  PROVE  /\ UNCHANGED added => Grown
         /\ \A f \in Field, b \in Batches : Add(f, b) => Grown
<1>1. \A f \in Field : Len(added[f]) \in Nat
  BY DEF SampleInv
<1>2. UNCHANGED added => Grown
  BY <1>1 DEF Grown
<1>3. ASSUME NEW f \in Field, NEW b \in Batches, Add(f, b) PROVE Grown
  BY <1>1, <1>3, AddEffect DEF Grown
<1> QED BY <1>2, <1>3

LEMMA RingSame ==
  ASSUME RingInv, UNCHANGED <<field, added>>
  PROVE  RingInv'
BY DEF RingInv, RingOf, HeldAt

\* PerformanceMetrics.cpp:61-67: the windows are read one after the other, and none of
\* them can have been overtaken by the counter.
LEMMA ReadAverageCovers ==
  ASSUME MeansInv, NEW b \in Batches, ReadAverage(b)
  PROVE  ShownInv' /\ MeansCoverWindow'
<1> USE DEF MeansInv
<1> DEFINE k == Len(shown[b]) + 1
           f == Fields[k]
<1>1. /\ stage[b] = "counted" /\ ClosesWindow(b) /\ Len(shown[b]) < 3
      /\ shown' = [shown EXCEPT ![b] = Append(@, Average(f))]
      /\ UNCHANGED <<index, added, lines>>
  BY FieldNames DEF ReadAverage
<1>2. shown[b] \in Seq(Means) /\ Len(shown[b]) \in Nat /\ shown \in [Batches -> Seq(Means)]
  BY DEF LineInv, MetricsTypeOK
<1>3. k \in 1 .. 3 /\ f \in Field
  BY <1>1, <1>2, FieldNames
<1>4. index[b] \in Nat /\ index[b] >= windowDimension /\ index[b] =< Len(added[f])
  <2>1. completedBatches \in Nat /\ index[b] =< completedBatches
    BY DEF LineInv, MetricsTypeOK
  <2>2. Len(added[f]) \in Nat /\ completedBatches =< Len(added[f])
    BY <1>3, EnoughSamples DEF SampleInv
  <2>3. index[b] \in Nat /\ index[b] >= windowDimension
    BY <1>1, ReadersNumber
  <2> HIDE DEF f
  <2> QED BY <2>1, <2>2, <2>3
<1>5. Covers(f, index[b], Average(f))
  <2>1. Len(added[f]) \in Nat
    BY <1>3 DEF SampleInv
  <2>2. Average(f) = Rolling(f, Len(added[f]))
    BY <1>3, <1>4, <2>1, Constants, AverageIsRolling
  <2> HIDE DEF f
  <2> QED BY <1>4, <2>1, <2>2 DEF Covers
<1>6. Grown
  BY <1>1, GrownBy
<1>7. /\ DOMAIN shown'[b] = DOMAIN shown[b] \cup {k} /\ Len(shown'[b]) = k
      /\ shown'[b][k] = Average(f)
      /\ \A i \in DOMAIN shown[b] : shown'[b][i] = shown[b][i]
  <2> HIDE DEF f
  <2>1. shown'[b] = Append(shown[b], Average(f))
    BY <1>1, <1>2
  <2> QED BY <2>1, <1>2
<1>8. \A i \in DOMAIN shown'[b] : CoversNext(Fields[i], index'[b], shown'[b][i])
  <2>1. CoversNext(f, index[b], Average(f))
    BY <1>3, <1>4, <1>5, <1>6, GrownCovers
  <2>2. ASSUME NEW i \in DOMAIN shown[b]
        PROVE  CoversNext(Fields[i], index[b], shown[b][i])
    <3>1. Covers(Fields[i], index[b], shown[b][i])
      BY DEF ShownInv
    <3> QED BY <3>1, <1>6, ShownReader, GrownCovers
  <2> QED BY <1>1, <1>7, <2>1, <2>2
<1>9. \A c \in Batches \ {b} : shown'[c] = shown[c] /\ index'[c] = index[c]
  BY <1>1, <1>2
<1>10. \A c \in Batches \ {b} :
         /\ Len(shown'[c]) =< Len(Fields)
         /\ \A i \in DOMAIN shown'[c] : CoversNext(Fields[i], index'[c], shown'[c][i])
  BY <1>6, <1>9, ShownKeeps
<1>11. Len(shown'[b]) =< Len(Fields)
  BY <1>3, <1>7, FieldNames
<1>12. \A j \in DOMAIN lines' : \A i \in DOMAIN Fields :
         CoversNext(Fields[i], lines'[j].last, lines'[j].means[i])
  BY <1>1, <1>6, LinesKeep
<1> QED BY <1>8, <1>10, <1>11, <1>12, CoversPrimed

LEMMA PrintLineCovers ==
  ASSUME MeansInv, NEW b \in Batches, PrintLine(b)
  PROVE  ShownInv' /\ MeansCoverWindow'
<1> USE DEF MeansInv
<1> DEFINE line == [last |-> index[b], means |-> shown[b]]
           top  == Len(lines) + 1
<1>1. Leave(b) /\ lines' = Append(lines, line) /\ Len(shown[b]) = 3 /\ UNCHANGED added
  BY FieldNames DEF PrintLine, Leave
<1>2. Left(b) /\ Grown
  BY <1>1, LeaveKeeps, GrownBy
<1>3. lines \in Seq(Line) /\ shown[b] \in Seq(Means) /\ DOMAIN Fields = 1 .. 3
  BY DEF LineInv, MetricsTypeOK, Fields
<1>4. /\ DOMAIN lines' = DOMAIN lines \cup {top} /\ lines'[top] = line
      /\ \A j \in DOMAIN lines : lines'[j] = lines[j]
  BY <1>1, <1>3
<1>5. \A k \in DOMAIN Fields : CoversNext(Fields[k], index[b], shown[b][k])
  <2> SUFFICES ASSUME NEW k \in DOMAIN Fields
               PROVE  CoversNext(Fields[k], index[b], shown[b][k])
    OBVIOUS
  <2>1. k \in DOMAIN shown[b]
    BY <1>1, <1>3
  <2>2. Covers(Fields[k], index[b], shown[b][k])
    BY <2>1 DEF ShownInv
  <2> QED BY <1>2, <2>1, <2>2, ShownReader, GrownCovers
<1>6. \A j \in DOMAIN lines' : \A k \in DOMAIN Fields :
        CoversNext(Fields[k], lines'[j].last, lines'[j].means[k])
  <2>1. \A j \in DOMAIN lines : \A k \in DOMAIN Fields :
          CoversNext(Fields[k], lines[j].last, lines[j].means[k])
    BY <1>2, LinesKeep
  <2>2. line.last = index[b] /\ line.means = shown[b]
    OBVIOUS
  <2> HIDE DEF line, top
  <2> QED BY <2>1, <2>2, <1>4, <1>5
<1>7. \A c \in Batches :
        shown'[c] = <<>> \/ (shown'[c] = shown[c] /\ index'[c] = index[c])
  BY <1>2 DEF Left
<1> QED BY <1>2, <1>6, <1>7, ShownKeeps, CoversPrimed

LEMMA MeansInit == SessionInit => MeansInv
<1> SUFFICES ASSUME MetricsInit PROVE MeansInv
  BY DEF SessionInit
<1> USE DEF MetricsInit
<1>1. LineInv
  BY LineInit
<1>2. /\ added = [f \in Field |-> <<>>]
      /\ field = [f \in Field |-> [window |-> [i \in Positions |-> 0],
                                   writeIndex |-> 0, count |-> 0]]
      /\ shown = [b \in Batches |-> <<>>] /\ lines = <<>>
  BY DEF Field
<1>3. \A f \in Field : added[f] = <<>> /\ Len(added[f]) = 0 /\ DOMAIN added[f] = {}
  BY <1>2
<1>4. In(Completed) = {} /\ \A f \in Field : In(Beyond[f]) = {}
  BY FieldIs DEF In, Completed, Beyond
<1>5. SampleInv
  <2>1. Cardinality({}) = 0 /\ <<>> \in Seq(Batches)
    BY FS_EmptySet
  <2>2. completedBatches = 0
    OBVIOUS
  <2> QED BY <1>2, <1>3, <1>4, <2>1, <2>2 DEF SampleInv, SamplesOf
<1>6. \A f \in Field : field[f].count = 0 /\ field[f].writeIndex = 0
  BY <1>2
<1>7. RingInv
  <2> SUFFICES ASSUME NEW f \in Field PROVE RingOf(f)
    BY DEF RingInv
  <2>1. 0 < windowDimension /\ 0 .. 0 - 1 = {}
    BY Constants
  <2> QED BY <1>3, <1>6, <2>1 DEF RingOf
<1>8. \A b \in Batches : Len(shown[b]) = 0 /\ DOMAIN shown[b] = {}
  BY <1>2
<1>9. DOMAIN lines = {}
  BY <1>2
<1>10. ShownInv /\ MeansCoverWindow
  BY <1>8, <1>9, FieldNames DEF ShownInv, MeansCoverWindow
<1> QED BY <1>1, <1>5, <1>7, <1>10 DEF MeansInv

LEMMA StepKeepsMeans ==
  ASSUME MeansInv, NEW b \in Batches,
         \/ Preprocess(b) \/ Infer(b) \/ InferFails(b) \/ Postprocess(b) \/ Count(b)
         \/ NothingToPrint(b) \/ ReadAverage(b) \/ PrintLine(b)
  PROVE  MeansInv'
<1>0. LineInv /\ SampleInv /\ RingInv /\ ShownInv /\ MeansCoverWindow /\ LineInv'
  BY StepKeepsLines DEF MeansInv
<1>1. CASE Preprocess(b)
  <2>1. /\ Move(b, "read", "prepared") /\ Add("preprocessing", b)
        /\ UNCHANGED <<index, shown, completedBatches, lines>>
    BY <1>1 DEF Preprocess
  <2>2. SampleInv'
    BY <1>0, <2>1, FieldIs, AddSamples DEF Beyond, Completed
  <2>3. RingInv' /\ Grown
    BY <1>0, <2>1, FieldNames, AddKeepsRing, GrownBy
  <2> QED BY <1>0, <2>1, <2>2, <2>3, QuietStep DEF MeansInv
<1>2. CASE Infer(b)
  <2>1. /\ Move(b, "prepared", "inferred") /\ Add("gpu", b)
        /\ UNCHANGED <<index, shown, completedBatches, lines>>
    BY <1>2 DEF Infer
  <2>2. SampleInv'
    BY <1>0, <2>1, FieldIs, AddSamples DEF Beyond, Completed
  <2>3. RingInv' /\ Grown
    BY <1>0, <2>1, FieldNames, AddKeepsRing, GrownBy
  <2> QED BY <1>0, <2>1, <2>2, <2>3, QuietStep DEF MeansInv
<1>3. CASE InferFails(b)
  <2>1. /\ Move(b, "prepared", "failed")
        /\ UNCHANGED <<index, shown, field, added, completedBatches, lines>>
    BY <1>3 DEF InferFails
  <2>2. SampleInv'
    BY <1>0, <2>1, FieldIs, NoSamples DEF Beyond, Completed
  <2>3. RingInv' /\ Grown
    BY <1>0, <2>1, RingSame, GrownBy
  <2> QED BY <1>0, <2>1, <2>2, <2>3, QuietStep DEF MeansInv
<1>4. CASE Postprocess(b)
  <2>1. /\ Move(b, "inferred", "timed") /\ Add("postprocessing", b)
        /\ UNCHANGED <<index, shown, completedBatches, lines>>
    BY <1>4 DEF Postprocess
  <2>2. SampleInv'
    BY <1>0, <2>1, FieldIs, AddSamples DEF Beyond, Completed
  <2>3. RingInv' /\ Grown
    BY <1>0, <2>1, FieldNames, AddKeepsRing, GrownBy
  <2> QED BY <1>0, <2>1, <2>2, <2>3, QuietStep DEF MeansInv
<1>5. CASE Count(b)
  <2>1. /\ Move(b, "timed", "counted") /\ completedBatches' = completedBatches + 1
        /\ index' = [index EXCEPT ![b] = completedBatches + 1]
        /\ UNCHANGED <<shown, field, added, lines>>
    BY <1>5 DEF Count
  <2>2. SampleInv'
    BY <1>0, <2>1, FieldIs, NoSamples DEF Beyond, Completed
  <2>3. RingInv' /\ Grown
    BY <1>0, <2>1, RingSame, GrownBy
  <2>4. shown'[b] = <<>> /\ \A c \in Batches \ {b} : index'[c] = index[c]
    BY <1>0, <2>1 DEF Move, LineInv, MetricsTypeOK
  <2> QED BY <1>0, <2>1, <2>2, <2>3, <2>4, QuietStep DEF MeansInv
<1>6. ASSUME Leave(b) PROVE SampleInv' /\ RingInv' /\ Grown /\ Left(b)
  <2>1. Move(b, "counted", "done") /\ UNCHANGED <<field, added, completedBatches>>
    BY <1>6 DEF Leave
  <2>2. SampleInv'
    BY <1>0, <2>1, FieldIs, NoSamples DEF Beyond, Completed
  <2> QED BY <1>0, <1>6, <2>1, <2>2, RingSame, GrownBy, LeaveKeeps
<1>7. CASE NothingToPrint(b)
  <2>1. Leave(b) /\ UNCHANGED lines
    BY <1>7 DEF NothingToPrint
  <2> QED BY <1>0, <1>6, <2>1, QuietStep DEF MeansInv, Left
<1>8. CASE ReadAverage(b)
  <2>1. UNCHANGED <<stage, field, added, completedBatches>>
    BY <1>8 DEF ReadAverage
  <2>2. SampleInv'
    BY <1>0, <2>1 DEF SampleInv, SamplesOf, In
  <2> QED BY <1>0, <1>8, <2>1, <2>2, RingSame, ReadAverageCovers DEF MeansInv
<1>9. CASE PrintLine(b)
  BY <1>0, <1>6, <1>9, PrintLineCovers DEF MeansInv, PrintLine
<1> QED BY <1>1, <1>2, <1>3, <1>4, <1>5, <1>7, <1>8, <1>9

LEMMA IdleKeepsMeans ==
  ASSUME MeansInv, UNCHANGED metricsVars
  PROVE  MeansInv'
<1> USE DEF MeansInv, metricsVars
<1>1. LineInv'
  BY IdleKeepsLines
<1>2. SampleInv'
  BY DEF SampleInv, SamplesOf, In
<1>3. RingInv' /\ Grown
  BY RingSame, GrownBy
<1>4. ShownInv' /\ MeansCoverWindow'
  BY <1>3, QuietStep
<1> QED BY <1>1, <1>2, <1>3, <1>4

LEMMA ReadFrameKeepsMeans ==
  ASSUME MeansInv, ReadFrame
  PROVE  MeansInv'
<1> DEFINE b == FramesRead + 1
<1>1. b \in Batches /\ "read" \in Stages
  BY ReadInRange DEF ReadFrame, Stages
<1>2. /\ Move(b, "unread", "read")
      /\ UNCHANGED <<index, shown, field, added, completedBatches, lines>>
  BY DEF ReadFrame
<1> HIDE DEF b
<1>3. LineInv /\ SampleInv /\ RingInv /\ ShownInv /\ MeansCoverWindow
  BY DEF MeansInv
<1>4. LineInv'
  BY <1>1, <1>2, <1>3, MoveKeeps DEF LineInv, MetricsTypeOK
<1>5. SampleInv'
  BY <1>1, <1>2, <1>3, FieldIs, NoSamples DEF Beyond, Completed
<1>6. RingInv' /\ Grown
  BY <1>2, <1>3, RingSame, GrownBy
<1>7. ShownInv' /\ MeansCoverWindow'
  BY <1>2, <1>3, <1>6, QuietStep
<1> QED BY <1>4, <1>5, <1>6, <1>7 DEF MeansInv

LEMMA MeansStep == MeansInv /\ [SessionNext]_sessionVars => MeansInv'
<1> SUFFICES ASSUME MeansInv, [SessionNext]_sessionVars PROVE MeansInv'
  OBVIOUS
<1>1. CASE UNCHANGED metricsVars
  BY <1>1, IdleKeepsMeans
<1>2. CASE ReadFrame
  BY <1>2, ReadFrameKeepsMeans
<1>3. CASE MetricsStep
  BY <1>3, StepKeepsMeans DEF MetricsStep
<1> QED BY <1>1, <1>2, <1>3 DEF SessionNext, sessionVars, FinalReport

\* A [MONITOR] line never gives the mean of a window that is not full, nor of one that
\* ends before the batch the line speaks of, for any number of post threads reading the
\* three windows while the stages add to them.
THEOREM LinesCoverWindow == SessionSpec => []MeansCoverWindow
BY MeansInit, MeansStep, PTL DEF SessionSpec, MeansInv
-----------------------------------------------------------------------------
(* The final report.                                                        *)

\* It is written when the console has let the ingest thread go and every stage has been
\* joined, so that nothing moves any more.
ReportInv ==
  /\ main \notin {"console", "join"} => thread = "none"
  /\ report # <<>> =>
       /\ main = "returned" /\ Drained
       /\ report.completed = completedBatches
       /\ report.lostInPipeline = FramesRead - completedBatches
       /\ report.window = ReportedWindow
       /\ report.means = [f \in Field |-> Average(f)]

LEMMA ReportStep == MeansInv /\ ReportInv /\ [SessionNext]_sessionVars => ReportInv'
<1> SUFFICES ASSUME MeansInv, ReportInv, [SessionNext]_sessionVars PROVE ReportInv'
  OBVIOUS
<1>1. CASE FinalReport
  <2>1. /\ main = "report" /\ main' = "returned" /\ Drained /\ UNCHANGED <<thread, metricsVars>>
        /\ report' = [listenedSec |-> ListenedSec, completed |-> completedBatches,
                      lostInPipeline |-> FramesRead - completedBatches,
                      window |-> ReportedWindow,
                      means |-> [f \in ToSet(Fields) |-> Average(f)]]
    BY <1>1 DEF FinalReport, Report, GoTo
  <2>2. /\ report'.completed = completedBatches
        /\ report'.lostInPipeline = FramesRead - completedBatches
        /\ report'.window = ReportedWindow
        /\ report'.means = [f \in Field |-> Average(f)]
    BY <2>1 DEF Field
  <2>3. /\ Drained' /\ completedBatches' = completedBatches /\ FramesRead' = FramesRead
        /\ ReportedWindow' = ReportedWindow
        /\ [f \in Field |-> Average(f)]' = [f \in Field |-> Average(f)]
    BY <2>1 DEF metricsVars, Drained, FramesRead, ReportedWindow, Average
  <2> QED BY <2>1, <2>2, <2>3 DEF ReportInv
<1>2. CASE MetricsStep /\ UNCHANGED <<vars, report>>
  <2>1. PICK b \in Batches : stage[b] \notin {"unread", "done", "failed"}
    <3>1. PICK b \in Batches :
            \/ Preprocess(b) \/ Infer(b) \/ InferFails(b) \/ Postprocess(b) \/ Count(b)
            \/ NothingToPrint(b) \/ ReadAverage(b) \/ PrintLine(b)
      BY <1>2 DEF MetricsStep
    <3>2. stage[b] \notin {"unread", "done", "failed"}
      BY <3>1 DEF Preprocess, Infer, InferFails, Postprocess, Count, NothingToPrint,
                  ReadAverage, PrintLine, Leave, Move
    <3> QED BY <3>2
  <2>2. ~Drained
    BY <2>1 DEF Drained
  <2> QED BY <1>2, <2>2 DEF ReportInv, vars
<1>3. CASE ReadFrame
  <2>1. thread = "running" /\ UNCHANGED <<vars, report>>
    BY <1>3 DEF ReadFrame
  <2> QED BY <2>1 DEF ReportInv, vars
<1>4. ASSUME UNCHANGED <<metricsVars, report>>,
             main' \notin {"console", "join"} => thread' = "none",
             main = "returned" => main' = "returned"
      PROVE  ReportInv'
  <2>1. /\ Drained <=> Drained' /\ completedBatches' = completedBatches
        /\ FramesRead' = FramesRead /\ ReportedWindow' = ReportedWindow
        /\ [f \in Field |-> Average(f)]' = [f \in Field |-> Average(f)]
    BY <1>4 DEF metricsVars, Drained, FramesRead, ReportedWindow, Average
  <2> QED BY <1>4, <2>1 DEF ReportInv
<1>5. CASE Console /\ UNCHANGED <<metricsVars, report>>
  <2> USE DEF GoTo, ReportInv
  <2>1. CASE Tick \/ ThreadLeaves \/ ThreadEnds
    BY <1>4, <1>5, <2>1 DEF Tick, ThreadLeaves, ThreadEnds
  <2>2. CASE KeyS \/ Stamp \/ Create \/ CreateThrows
    BY <1>4, <1>5, <2>2 DEF KeyS, Stamp, Create, CreateThrows
  <2>3. CASE KeyX \/ KeyQ \/ Reap
    BY <1>4, <1>5, <2>3 DEF KeyX, KeyQ, Reap, BeginStop
  <2>4. CASE Join \/ Account
    BY <1>4, <1>5, <2>4 DEF Join, Account
  <2> QED BY <1>5, <2>1, <2>2, <2>3, <2>4 DEF Console
<1>6. CASE Returned /\ UNCHANGED <<metricsVars, report>>
  BY <1>4, <1>6 DEF Returned, vars, ReportInv
<1>7. CASE UNCHANGED sessionVars
  BY <1>4, <1>7 DEF sessionVars, vars, ReportInv
<1> QED BY <1>1, <1>2, <1>3, <1>5, <1>6, <1>7 DEF SessionNext

\* A mean is over as many samples as the window counts: no batch is in it twice.
LEMMA AverageSize ==
  ASSUME LineInv, SampleInv, RingInv, NEW f \in Field
  PROVE  Cardinality(Average(f)) = field[f].count
<1> DEFINE n == Len(added[f])
           W == windowDimension
           r == field[f].writeIndex
           c == field[f].count
           held == [i \in 0 .. c - 1 |-> field[f].window[i]]
<1>1. n \in Nat /\ W \in Nat \ {0} /\ r \in 0 .. W - 1 /\ DOMAIN added[f] = 1 .. n
  <2>1. r \in Positions
    BY DEF LineInv, MetricsTypeOK
  <2>2. added[f] \in Seq(Batches)
    BY DEF SampleInv
  <2> QED BY <2>1, <2>2, Constants DEF Positions
<1>2. /\ c = (IF n < W THEN n ELSE W) /\ r =< n /\ (n < W => r = n)
      /\ \A i \in 0 .. c - 1 : field[f].window[i] = added[f][HeldAt(f, i)]
  BY DEF RingInv, RingOf
<1>3. \A i \in Int : HeldAt(f, i) = (n - r) + i + 1 - (IF i < r THEN 0 ELSE W)
  BY <1>1 DEF HeldAt
<1>4. Average(f) = {field[f].window[i] : i \in 0 .. c - 1}
  BY DEF Average
<1>5. \A j, k \in 1 .. n : j # k => added[f][j] # added[f][k]
  BY <1>1 DEF SampleInv, SamplesOf
<1> HIDE DEF n, W, r, c
<1>6. \A i \in 0 .. c - 1 : HeldAt(f, i) \in 1 .. n
  <2> SUFFICES ASSUME NEW i \in 0 .. c - 1 PROVE HeldAt(f, i) \in 1 .. n
    OBVIOUS
  <2>1. c = (IF n < W THEN n ELSE W) /\ r =< n /\ (n < W => r = n)
    BY <1>2
  <2>2. HeldAt(f, i) = (n - r) + i + 1 - (IF i < r THEN 0 ELSE W)
    BY <1>3
  <2> QED BY <1>1, <2>1, <2>2
<1>7. \A i, k \in 0 .. c - 1 : i # k => HeldAt(f, i) # HeldAt(f, k)
  <2> SUFFICES ASSUME NEW i \in 0 .. c - 1, NEW k \in 0 .. c - 1, i # k
               PROVE  HeldAt(f, i) # HeldAt(f, k)
    OBVIOUS
  <2>1. c =< W /\ c \in Nat
    BY <1>1, <1>2
  <2>2. /\ HeldAt(f, i) = (n - r) + i + 1 - (IF i < r THEN 0 ELSE W)
        /\ HeldAt(f, k) = (n - r) + k + 1 - (IF k < r THEN 0 ELSE W)
    BY <1>3
  <2> HIDE DEF held
  <2>3. CASE i < r <=> k < r
    BY <1>1, <2>1, <2>2, <2>3
  <2>4. CASE i < r /\ ~(k < r)
    BY <1>1, <2>1, <2>2, <2>4
  <2>5. CASE ~(i < r) /\ k < r
    BY <1>1, <2>1, <2>2, <2>5
  <2> QED BY <2>3, <2>4, <2>5
<1>8. held \in Surjection(0 .. c - 1, Average(f))
  BY <1>4 DEF Surjection
<1>9. held \in Injection(0 .. c - 1, Average(f))
  <2>1. \A i, k \in 0 .. c - 1 : i # k => held[i] # held[k]
    BY <1>2, <1>5, <1>6, <1>7
  <2>2. held \in [0 .. c - 1 -> Average(f)]
    BY <1>4
  <2> HIDE DEF held
  <2> QED BY <2>1, <2>2 DEF Injection, IsInjective
<1>10. IsFiniteSet(0 .. c - 1) /\ Cardinality(0 .. c - 1) = c
  <2>1. c \in Nat
    BY <1>1, <1>2
  <2> QED BY <2>1, FS_Interval
<1>11. Cardinality(Average(f)) = Cardinality(0 .. c - 1)
  <2> HIDE DEF held
  <2> QED BY <1>8, <1>9, <1>10, FS_Surjection
<1> QED BY <1>10, <1>11 DEF c

\* Once every stage has been joined a batch that was read is done or has failed.
LEMMA DrainedCounts ==
  ASSUME LineInv, SampleInv, Drained
  PROVE  /\ FramesRead - completedBatches = Cardinality({b \in Batches : stage[b] = "failed"})
         /\ \A f \in {"gpu", "postprocessing"} : Len(added[f]) = completedBatches
<1> DEFINE done   == {b \in Batches : stage[b] = "done"}
           failed == {b \in Batches : stage[b] = "failed"}
           read   == {b \in Batches : stage[b] # "unread"}
<1>1. read = done \cup failed /\ done \cap failed = {}
  BY DEF Drained
<1>2. In(Completed) = done
  BY DEF In, Completed, Drained
<1>3. \A f \in {"gpu", "postprocessing"} : In(Beyond[f]) = done
  BY DEF In, Beyond, Drained
<1>4. /\ IsFiniteSet(done) /\ IsFiniteSet(failed)
      /\ Cardinality(done) \in Nat /\ Cardinality(failed) \in Nat
  BY BatchesFinite, FS_Subset, FS_CardinalityType
<1>5. FramesRead = Cardinality(read)
  BY DEF FramesRead
<1> HIDE DEF done, failed, read
<1>6. Cardinality(read) = Cardinality(done) + Cardinality(failed)
  <2>1. Cardinality(done \cap failed) = 0
    BY <1>1, FS_EmptySet
  <2>2. Cardinality(done \cup failed)
          = Cardinality(done) + Cardinality(failed) - Cardinality(done \cap failed)
    BY <1>4, FS_Union
  <2> QED BY <1>1, <1>4, <2>1, <2>2
<1>7. completedBatches = Cardinality(done)
  BY <1>2 DEF SampleInv
<1>8. \A f \in {"gpu", "postprocessing"} : Len(added[f]) = Cardinality(done)
  BY <1>3, FieldIs DEF SampleInv, SamplesOf
<1>9. FramesRead - completedBatches = Cardinality(failed)
  BY <1>4, <1>5, <1>6, <1>7
<1> QED BY <1>7, <1>8, <1>9 DEF failed

LEMMA ReportSuffices == MeansInv /\ ReportInv => ReportIsFinal
<1> SUFFICES ASSUME MeansInv, ReportInv, report # <<>> PROVE ReportIsFinal
  BY DEF ReportIsFinal
<1>1. /\ LineInv /\ SampleInv /\ RingInv /\ Drained
      /\ report.completed = completedBatches
      /\ report.lostInPipeline = FramesRead - completedBatches
      /\ report.window = ReportedWindow
      /\ report.means = [f \in Field |-> Average(f)]
  BY DEF MeansInv, ReportInv
<1>2. report.lostInPipeline = Cardinality({b \in Batches : stage[b] = "failed"})
  BY <1>1, DrainedCounts
<1>3. {lines[j].last : j \in DOMAIN lines} = Windows
  <2>1. \A j \in DOMAIN lines : lines[j].last \in Windows
    BY <1>1 DEF LineInv
  <2>2. \A b \in Batches : index[b] = 0
    BY <1>1 DEF LineInv, MetricsTypeOK, Drained
  <2>3. 0 \notin Windows
    BY DEF Windows
  <2>4. \A n \in Windows : \E j \in DOMAIN lines : lines[j].last = n
    BY <1>1, <2>2, <2>3 DEF LineInv
  <2> QED BY <2>1, <2>4
<1>4. ASSUME NEW f \in {"gpu", "postprocessing"}
      PROVE  Cardinality(report.means[f]) = report.window
  <2>1. f \in Field
    BY FieldIs
  <2>2. Len(added[f]) = completedBatches /\ completedBatches \in Nat
    BY <1>1, DrainedCounts DEF LineInv, MetricsTypeOK
  <2>3. field[f].count = ReportedWindow
    BY <1>1, <2>1, <2>2, Constants DEF RingInv, RingOf, ReportedWindow
  <2>4. report.means[f] = Average(f)
    BY <1>1, <2>1
  <2> QED BY <1>1, <2>1, <2>3, <2>4, AverageSize
<1> QED BY <1>1, <1>2, <1>3, <1>4 DEF ReportIsFinal

\* The numbers of the report agree with each other and with the lines before it, however
\* many batches failed, wherever the last of them were when 'q' was pressed.
THEOREM ReportFinal == SessionSpec => []ReportIsFinal
<1>1. SessionInit => ReportInv
  BY DEF SessionInit, Init, ReportInv
<1>2. SessionSpec => []MeansInv
  BY MeansInit, MeansStep, PTL DEF SessionSpec
<1>3. SessionSpec => []ReportInv
  BY <1>1, <1>2, ReportStep, PTL DEF SessionSpec
<1> QED BY <1>2, <1>3, ReportSuffices, PTL
=============================================================================
