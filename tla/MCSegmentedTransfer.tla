------------------------- MODULE MCSegmentedTransfer -------------------------
(***************************************************************************)
(* An instance of SegmentedTransfer: chunks of one or two units, and two   *)
(* connections that become one.                                            *)
(***************************************************************************)
EXTENDS SegmentedTransfer

MCUnits == [c \in Chunk |-> IF c = 2 THEN 2 ELSE 1]

MCSplits == <<2, 1>>
=============================================================================
