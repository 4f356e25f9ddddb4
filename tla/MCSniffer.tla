----------------------------- MODULE MCSniffer -----------------------------
(***************************************************************************)
(* The whole program on the frames of the catalogue.                       *)
(***************************************************************************)
EXTENDS Sniffer, MCFrames

\* Frames for the runs about signals: one that is shown in full, one that is
\* not shown at all and one that ends at layer 2.
FewFrames == {"runt", "arpPadded", "tcpHttp"}
FewFrameLen == [f \in FewFrames |-> MCFrameLen[f]]
=============================================================================
