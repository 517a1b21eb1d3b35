-------------------------- MODULE MCCellPlacement --------------------------
(* Two operators, one provider, two cells of one region. *)
EXTENDS CellPlacement

MCRegionOf == [c \in Cells |-> 1]
=============================================================================
