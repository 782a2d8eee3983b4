---------------------------- MODULE MCSupervisedRun ----------------------------
(* Instances of SupervisedRun for TLC; the cfg files give the bounds.          *)
EXTENDS SupervisedRun, TLC

\* A channel shorter than the stream and a pipe that fills up.
ASSUME BoundsBite == ChannelCapacity + PipeCapacity <= MaxRecords + 1
=============================================================================
