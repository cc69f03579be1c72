---------------------------- MODULE MCItemPipeline ----------------------------
(* Small instances of ItemPipeline.  m1 and m2 are the same envelope, sent    *)
(* twice, or else m2 and m3 are duplicates of an item without a pipeline; m4  *)
(* does not parse.                                                            *)
EXTENDS ItemPipeline

CONSTANTS m1, m2, m3, m4, kp, kf, bad, c1, c3

MCKeys == {kp, kf}
MCItemKey == [m \in Messages |-> CASE m \in {m1, m2} -> kp
                                   [] m = m3 -> kf
                                   [] OTHER -> bad]
MCLocalItemKey == [m \in Messages |-> CASE m = m1 -> kp
                                        [] m \in {m2, m3} -> kf
                                        [] OTHER -> bad]
MCLocalCorrelation == [m \in Messages |-> IF m = m1 THEN c1 ELSE c3]
MCCorrelation == [m \in Messages |-> IF m \in {m1, m2} THEN c1 ELSE c3]
MCPipelineKeys == {kp}
===============================================================================
