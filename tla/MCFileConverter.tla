--------------------------- MODULE MCFileConverter ---------------------------
(* FileConverter with values for its constants: three of the nine          *)
(* clusters, the other six are written and read like Timing; samples with  *)
(* which a lap ends or begins, and which differ in validity and lap time.  *)
EXTENDS FileConverter

MCClusters == <<Controls, Session, Timing>>

MCSamples == {[pos |-> "high", valid |-> 0, last |-> 0],
              [pos |-> "low", valid |-> 1, last |-> 1]}
=============================================================================
