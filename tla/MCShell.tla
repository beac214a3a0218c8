------------------------------ MODULE MCShell ------------------------------
(* An instance of Shell for TLC: two accounts, two images of one name. *)
EXTENDS Shell

CONSTANTS hanako, taro, first, second

Users == {hanako, taro}
Old == {taro}
Images == {first, second}
OneName == [f \in Images |-> "receipt.jpg"]
Texts == {NoText, "an"}
Found == [q \in Texts |-> IF q = "an" THEN {hanako} ELSE Users]
Longer == {<<NoText, "an">>}
=============================================================================
