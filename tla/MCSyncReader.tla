---------------------------- MODULE MCSyncReader ----------------------------
(***************************************************************************)
(* The reader and the OSI stack on their own: the program registers        *)
(* dissectors, callbacks and interceptors in any order and number, also    *)
(* between two packets, and removes them at will.                          *)
(***************************************************************************)
EXTENDS SyncReader, MCFrames

\* A frame that must not get to UDP, and one that two dissectors of layer 7 take.
MCFramesUdp == {"length17", "dnsId0105"}
MCFrameLenUdp == [f \in MCFramesUdp |-> MCFrameLen[f]]
=============================================================================
