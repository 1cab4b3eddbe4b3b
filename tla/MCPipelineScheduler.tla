------------------------ MODULE MCPipelineScheduler ------------------------
(* Instances of PipelineScheduler for TLC: a hash join fragment whose probe *)
(* driver waits for its build driver, or a lone driver.                     *)
EXTENDS PipelineScheduler

CONSTANTS build, probe

\* The probe waits for the build side; the build side waits for nothing.
JoinBuildOf == [d \in Drivers |-> IF d = probe /\ build \in Drivers THEN build
                                                                     ELSE NoDriver]

\* One chunk for the probe side, an empty build side.
OneChunk == [d \in Drivers |-> IF d = probe THEN 1 ELSE 0]
=============================================================================
