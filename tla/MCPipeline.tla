----------------------------- MODULE MCPipeline -----------------------------
(***************************************************************************)
(* Instances of Pipeline for TLC.                                          *)
(***************************************************************************)
EXTENDS Pipeline

Fr(id, fence, zero, xored, intact) ==
    [msgid |-> id, fence |-> fence, zero |-> zero, xored |-> xored, intact |-> intact]

\* One frame per way through the policies: harmless, damaged, and refused by
\* each of the two; the last is read differently at a source that deciphers.
MCAccepted == {Fr("OTHER", FALSE, FALSE, FALSE, TRUE),
               Fr("MEMINFO", FALSE, FALSE, FALSE, FALSE),
               Fr("MEMINFO", FALSE, FALSE, FALSE, TRUE),
               Fr("PARAM_SET", TRUE, TRUE, FALSE, TRUE)}

\* All three sources, and two frames in a row at one of them: what the first
\* leaves in the message buffer must not reach the second.
AllPorts == {SOURCE_TYPE_VMC, SOURCE_TYPE_LEGACY, SOURCE_TYPE_ENCLAVE}
MCMaxFrames == [s \in Sources |-> IF s = SOURCE_TYPE_LEGACY THEN 2 ELSE 1]

MainPorts == {SOURCE_TYPE_VMC, SOURCE_TYPE_LEGACY}
TwoFrames == [s \in Sources |-> 2]
XorFrames == {Fr("OTHER", FALSE, FALSE, FALSE, TRUE), Fr("OTHER", FALSE, FALSE, TRUE, TRUE)}
NoPorts == {}
VMCSource == {SOURCE_TYPE_VMC}
DecodingSources == {SOURCE_TYPE_VMC, SOURCE_TYPE_LEGACY}
VMCSink == {SINK_TYPE_VMC}
MainSinks == {SINK_TYPE_DISCARD, SINK_TYPE_VMC, SINK_TYPE_LEGACY}
TransformedSinks == {SINK_TYPE_VMC, SINK_TYPE_LEGACY}
=============================================================================
