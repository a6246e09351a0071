----------------------------- MODULE MCPriceModel -----------------------------
(* Instances of PriceModel for TLC.                                          *)
EXTENDS PriceModel, TLC

TwoMeasures == <<"total_meters", "floor">>

\* The first two generations are of flats in houses of one kind each: as many
\* columns, and not the same.
ThreeGenerations == <<
    <<"house_type_brick">>,
    <<"house_type_panel">>,
    <<"house_type_brick", "house_type_panel">> >>

Symmetry == Permutations(Requests)
=============================================================================
