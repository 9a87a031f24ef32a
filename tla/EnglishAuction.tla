--------------------------- MODULE EnglishAuction ---------------------------
(***************************************************************************)
(* What a sequence of auctions promises to bidders and seller: one lot at  *)
(* a time; only the leader's money is held, everyone outbid has it back;   *)
(* at the close the leader has the lot and the seller the price, or the    *)
(* lot goes to the hall of fame for nothing. AlpsAuctionHouse implements   *)
(* this specification.                                                     *)
(***************************************************************************)
EXTENDS Integers, Sequences

CONSTANTS Bidders,      \* the accounts that bid
          Owner,        \* the seller
          HallOfFame,   \* where a lot without a bid goes
          Nobody,       \* the leader of a lot nobody has bid on
          Funds         \* what every bidder starts with

VARIABLES lot,        \* the lot for sale, the best bid and whether it can still be sold
          money,      \* the money of every account
          sales       \* the lots sold, in order

vars == <<lot, money, sales>>

Init ==
    /\ lot = [id |-> 0, price |-> 0, leader |-> Nobody, open |-> FALSE]
    /\ money = [a \in Bidders \cup {Owner} |-> IF a = Owner THEN 0 ELSE Funds]
    /\ sales = << >>

\* l is a lot without bids that was never sold before.
NewLot(l, sold) ==
    /\ l = [id |-> l.id, price |-> 0, leader |-> Nobody, open |-> TRUE]
    /\ \A i \in 1..Len(sold) : sold[i].id # l.id

OpenLot ==
    /\ ~lot.open
    /\ NewLot(lot', sales)
    /\ UNCHANGED <<money, sales>>

\* A new leader pays in, and in the same step the old one is paid back.
Outbid ==
    /\ lot.open
    /\ \E b \in Bidders :
         LET value == lot'.price
         IN  /\ value >= lot.price
             /\ lot' = [id |-> lot.id, price |-> value, leader |-> b, open |-> TRUE]
             /\ money' = [a \in Bidders \cup {Owner} |->
                            money[a] - (IF a = b THEN value ELSE 0)
                                     + (IF a = lot.leader THEN lot.price ELSE 0)]
    /\ UNCHANGED sales

\* The close, and the opening of the next lot in the same step or later.
CloseLot ==
    /\ lot.open
    /\ sales' = Append(sales, [id |-> lot.id, price |-> lot.price,
                               winner |-> IF lot.leader = Nobody THEN HallOfFame ELSE lot.leader])
    /\ money' = [money EXCEPT ![Owner] = @ + lot.price]
    /\ \/ lot' = [id |-> lot.id, price |-> lot.price, leader |-> lot.leader, open |-> FALSE]
       \/ NewLot(lot', sales')

Next == OpenLot \/ Outbid \/ CloseLot

Spec == Init /\ [][Next]_vars
=============================================================================
