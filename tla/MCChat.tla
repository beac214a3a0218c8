------------------------------- MODULE MCChat -------------------------------
(* An instance of Chat for TLC: jiro's address is the other two together. *)
EXTENDS Chat

CONSTANTS hanako, taro, jiro

Users == {hanako, taro, jiro}
Devices == {hanako, taro}
Waiting == {hanako}
Addresses == [u \in Users |-> CASE u = hanako -> <<"h">>
                                [] u = taro -> <<"t">>
                                [] u = jiro -> <<"h", "t">>]
Writes == [u \in Devices |-> IF u = hanako THEN 1 ELSE 2]
=============================================================================
