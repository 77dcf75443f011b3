------------------------- MODULE MCNodeLinkAnyOrder -------------------------
(* Jobs are named by their length; two of the same length differ in CRC only. *)
EXTENDS NodeLinkAnyOrder

MCLength(j) == IF j = 9 THEN 9 ELSE 1
MCCrc(j) == j
=============================================================================
