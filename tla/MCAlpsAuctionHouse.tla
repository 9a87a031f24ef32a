------------------------ MODULE MCAlpsAuctionHouse ------------------------
(* Instances of AlpsAuctionHouse for TLC. *)
EXTENDS AlpsAuctionHouse, TLC
=============================================================================
