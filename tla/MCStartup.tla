----------------------------- MODULE MCStartup -----------------------------
(***************************************************************************)
(* Startup on the INI file of the repository, shortened to what its         *)
(* defaults do not say, followed by up to MaxLines lines that a user may    *)
(* have added, in any order and any number of times.                        *)
(***************************************************************************)
EXTENDS Startup

CONSTANT MaxLines

Number(digits) == [hex |-> FALSE, minus |-> FALSE, digits |-> digits, junk |-> FALSE]
Section(name) == [kind |-> "section", name |-> name]
Entry(key, text) == [kind |-> "entry", key |-> key, text |-> text]

Shipped == <<Section("Model"),
             Entry("Path", [quotes |-> 2, name |-> "model.onnx"]),
             Entry("BatchSize", Number(<<1, 7>>)),
             Section("Hardware"), Entry("Provider", Number(<<2>>))>>

Lines == {
  Section("Pipeline"), Section("Patches"), Section("RealTime"), Section("Output"),
  [kind |-> "unclosed", name |-> "Pipeline"],
  [kind |-> "other"],                                       \* blank, comment, no '='
  Entry("", Number(<<1>>)),
  Entry("Slots", Number(<<4>>)),                            \* too few
  Entry("Slots", [Number(<<1, 0>>) EXCEPT !.hex = TRUE]),
  Entry("QueuePrepCapacity", Number(<<1>>)),
  Entry("PrepThreads", Number(<<2>>)),
  Entry("InferenceThreads", Number(<<2>>)),
  Entry("RawFrames", Number(<<5>>)),                        \* more than qRaw takes
  Entry("RawFrames", [Number(<<2>>) EXCEPT !.junk = TRUE]),
  Entry("Overlap", Number(<<0>>)),                          \* does not tile
  Entry("DrawMask", Number(<<1>>)),
  Entry("ElevateProcess", Number(<<0>>)),
  Entry("PostPriority", [Number(<<1>>) EXCEPT !.minus = TRUE]),
  Entry("PrepRealtime", Number(<<1>>)),
  Entry("Provider", Number(<<0>>)),
  Entry("WarmupRuns", Number(<<0>>)),
  Entry("LoopBatch1", Number(<<1>>)),
  Section("Model")}

FilesMC == {Shipped \o more : more \in BoundedSeq(Lines, MaxLines)}

Good == [batch |-> 0, channels |-> 3, height |-> 512, width |-> 512, inputs |-> 1,
         outputs |-> <<"score", "map">>,
         metadata |-> {"min", "max", "threshold", "pixelThreshold"}]

\* Good at both sizes, and a model for each reason to refuse one.
ModelsMC == {Good, [Good EXCEPT !.height = 256, !.width = 256],
             [Good EXCEPT !.inputs = 2],
             [Good EXCEPT !.batch = 1], [Good EXCEPT !.channels = 1],
             [Good EXCEPT !.channels = 0], [Good EXCEPT !.width = -1],
             [Good EXCEPT !.height = 256], [Good EXCEPT !.width = 256],
             [Good EXCEPT !.outputs = <<"map", "map">>],
             [Good EXCEPT !.outputs = <<"score">>],
             [Good EXCEPT !.outputs = <<"score", "map", "map">>],
             [Good EXCEPT !.metadata = {"min", "max", "threshold"}],
             [Good EXCEPT !.metadata = @ \cup {"malformed"}],
             [Good EXCEPT !.metadata = @ \cup {"inverted"}]}
=============================================================================
