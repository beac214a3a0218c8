------------------------------ MODULE MCExport ------------------------------
(* Instances of Export for TLC. *)
EXTENDS Export

CONSTANTS hanako, taro

OneUser == {hanako}
TwoUsers == {hanako, taro}
=============================================================================
