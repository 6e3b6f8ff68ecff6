--------------------------- MODULE MCTpccHandlers ---------------------------
EXTENDS TpccHandlers

\* One line, two lines, and two lines for the same item.
OneLine == <<[i_id |-> 1, qty |-> 9]>>
TwoLines == <<[i_id |-> 1, qty |-> 2], [i_id |-> 2, qty |-> 5]>>
SameItem == <<[i_id |-> 1, qty |-> 10], [i_id |-> 1, qty |-> 3]>>

AllOrders == {OneLine, TwoLines, SameItem}
SomeOrders == {OneLine, TwoLines}
OneOrder == {OneLine}

\* Item 2 is not in stock in the second data set, and customer 2 in none.
MCLoaded == {[customers |-> {1}, stock |-> <<12, 40>>],
             [customers |-> {1}, stock |-> <<30>>]}
FullLoaded == {[customers |-> {1}, stock |-> <<40, 12>>]}
=============================================================================
