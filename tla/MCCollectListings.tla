-------------------------- MODULE MCCollectListings --------------------------
(* Instances of CollectListings for TLC.                                     *)
EXTENDS CollectListings

TwoRooms == <<"studio", "1">>
=============================================================================
