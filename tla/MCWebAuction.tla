----------------------------- MODULE MCWebAuction -----------------------------
(* The auction page with the plain address and that of an Alp that does not exist yet. *)
EXTENDS WebAuction

MCPages == {None, 9}

\* A bound: with a transaction of the user in a tab that has the past auctions, the user
\* stays at the plain address.
OneThingAtATime == deeds # <<>> => store.past = {} \/ route = None
=============================================================================
