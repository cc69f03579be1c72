---------------------------- MODULE MCQueueIngress ----------------------------
(* Small instances of QueueIngress: m1 and m2 are duplicates of one pipeline  *)
(* item, m3 is an item without a pipeline, m4 does not parse.                 *)
EXTENDS QueueIngress

CONSTANTS m1, m2, m3, m4, kp, kf, bad

MCKeys == {kp, kf}
MCItemKey == [m \in Messages |-> CASE m \in {m1, m2} -> kp
                                   [] m = m3 -> kf
                                   [] OTHER -> bad]
MCPipelineKeys == {kp}
===============================================================================
