--------------------------- MODULE MCPushSync ---------------------------
(* Instances of PushSync for TLC.                                          *)
EXTENDS PushSync

\* Two contents of a product; the second leaves the stock to the shop.
TwoContents == {[stock |-> 1, price |-> 1, rest |-> 1],
                [stock |-> 0, price |-> 2, rest |-> 2]}

OneContent == {[stock |-> 1, price |-> 1, rest |-> 1]}

\* The adapters there are: with the full update and the creation, or neither.
Able == [full |-> TRUE, create |-> TRUE]
Unable == [full |-> FALSE, create |-> FALSE]

AbleOrNot == {Able, Unable}
AbleOnly == {Able}

=============================================================================
