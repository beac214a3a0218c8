----------------------------- MODULE MCWifiGate -----------------------------
(* Instances of WifiGate for TLC: the company's network and another one. *)
EXTENDS WifiGate

CONSTANTS office, home

MCWifi == {office, home}
MCInternal == {office}
=============================================================================
