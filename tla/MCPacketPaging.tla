--------------------------- MODULE MCPacketPaging ----------------------------
(* Small instances of PacketPaging: four rows in two seconds of two ticks. *)
EXTENDS PacketPaging, TLC

CONSTANTS i1, i2, i3, i4

FourRows == {i1, i2, i3, i4}

FourTimes == 2..5

Lengths == i1 :> 1 @@ i2 :> 2 @@ i3 :> 2 @@ i4 :> 3

Query(orders, columns, limits, filters) ==
  [order : orders, hasTime : columns, limit : limits, filters : filters]

(* Three of the four rows pass. *)
NotThree == <<[op |-> "gte", value |-> 1], [op |-> "ne", value |-> 3]>>

(* Both orders, pages of one to three rows, a listing that leaves out the  *)
(* time column and one with filters.                                       *)
PagedQueries ==
  Query(Orders, {TRUE}, {2}, {<<>>}) \union Query({"ASC"}, {TRUE}, {1, 3}, {<<>>})
    \union Query({"ASC"}, {FALSE}, {2}, {<<>>})
    \union Query({"ASC"}, {TRUE}, {2}, {NotThree})
=============================================================================
