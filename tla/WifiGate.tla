------------------------------ MODULE WifiGate ------------------------------
(***************************************************************************)
(* How the attendance page decides whether to show its contents:           *)
(* initConnectivity, the subscription to connectivity reports and the      *)
(* asynchronous handler _updateConnectionStatus of lib/ui/manageEmp.dart.  *)
(*                                                                         *)
(* A report of mobile data or of no network is applied at once; a report   *)
(* of Wi-Fi is applied only after three round trips to the platform, and   *)
(* nothing stops other reports from being applied in between.              *)
(***************************************************************************)
EXTENDS Integers, Sequences

CONSTANTS Wifi,          \* Wi-Fi networks, each standing for its IP address too
          Internal,      \* the company's own
          MaxReports,    \* bound: reports on their way
          MaxHandlers    \* bound: Wi-Fi reports being handled

ASSUME GateAssumption ==
  /\ Internal \subseteq Wifi
  /\ Wifi \cap {"none", "mobile", "unset", "failed"} = {}
  /\ MaxReports \in Nat
  /\ MaxHandlers \in Nat

VARIABLES net,           \* what the device is connected to
          mounted,       \* the page is there
          check,         \* initConnectivity's question is on its way
          reports,       \* results on their way to the page, in order
          naming,        \* Wi-Fi handlers awaiting the network's name
          bssid,         \* Wi-Fi handlers awaiting its BSSID
          asking,        \* Wi-Fi handlers whose getWifiIP is on its way
          ips,           \* answers to getWifiIP on their way back
          idwifi         \* the field the page is built from; "unset" is the empty text

vars == <<net, mounted, check, reports, naming, bssid, asking, ips, idwifi>>

Net == Wifi \cup {"none", "mobile"}

(* ConnectivityResult: the plugin tells the kind of a network, not which.  *)
ResultOf(n) == IF n \in Wifi THEN "wifi" ELSE n

IpOf_AnyName(n) == n

IpOf_NoneOffWifi(n) == IF n \in Wifi THEN n ELSE "none"

(* getWifiIP: the address on the current network; off Wi-Fi there is none  *)
(* (a null), and a failed call gets a text of its own: both are "failed".  *)
IpOf(n) == IF n \in Wifi THEN n ELSE "failed"

Handlers == naming + bssid + asking + Len(ips)

(* _goingtoWork: contents, or the message asking for the company network.  *)
Shown == mounted /\ idwifi # "none"

(* Nothing is under way. *)
AtRest == ~check /\ reports = <<>> /\ Handlers = 0

Init ==
  /\ net \in Net
  /\ mounted = FALSE /\ check = FALSE /\ reports = <<>>
  /\ naming = 0 /\ bssid = 0 /\ asking = 0 /\ ips = <<>>
  /\ idwifi = "unset"

(* initState: the question is asked and the reports subscribed to. *)
Open ==
  /\ ~mounted
  /\ mounted' = TRUE /\ check' = TRUE /\ idwifi' = "unset"
  /\ UNCHANGED <<net, reports, naming, bssid, asking, ips>>

(* dispose: the subscription ends, and a handler that goes on fails in     *)
(* setState, so nothing under way can have an effect any more.             *)
Close ==
  /\ mounted
  /\ mounted' = FALSE /\ check' = FALSE /\ reports' = <<>>
  /\ naming' = 0 /\ bssid' = 0 /\ asking' = 0 /\ ips' = <<>>
  /\ UNCHANGED <<net, idwifi>>

(* The device changes networks and says so to whoever listens. *)
Change(n) ==
  /\ n # net
  /\ net' = n
  /\ IF mounted
     THEN /\ Len(reports) < MaxReports
          /\ reports' = Append(reports, ResultOf(n))
     ELSE UNCHANGED reports
  /\ UNCHANGED <<mounted, check, naming, bssid, asking, ips, idwifi>>

(* The platform answers checkConnectivity, or fails: a null result. *)
Check ==
  /\ check
  /\ check' = FALSE
  /\ \E r \in {ResultOf(net), "null"} : reports' = Append(reports, r)
  /\ UNCHANGED <<net, mounted, naming, bssid, asking, ips, idwifi>>

ReportNow_NoMobile ==
  /\ reports # <<>>
  /\ Head(reports) \in {"mobile", "none"}
  /\ idwifi' = IF Head(reports) = "none" THEN "none" ELSE idwifi
  /\ reports' = Tail(reports)
  /\ UNCHANGED <<net, mounted, check, naming, bssid, asking, ips>>

(* _updateConnectionStatus for mobile and none: applied at once. *)
ReportNow ==
  /\ reports # <<>>
  /\ Head(reports) \in {"mobile", "none"}
  /\ idwifi' = Head(reports)
  /\ reports' = Tail(reports)
  /\ UNCHANGED <<net, mounted, check, naming, bssid, asking, ips>>

ReportWifi_OneAtATime ==
  /\ reports # <<>>
  /\ Head(reports) = "wifi"
  /\ naming' = IF Handlers = 0 THEN 1 ELSE naming
  /\ reports' = Tail(reports)
  /\ UNCHANGED <<net, mounted, check, bssid, asking, ips, idwifi>>

(* ... for wifi: the first of three awaits. *)
ReportWifi ==
  /\ reports # <<>>
  /\ Head(reports) = "wifi"
  /\ Handlers < MaxHandlers
  /\ naming' = naming + 1
  /\ reports' = Tail(reports)
  /\ UNCHANGED <<net, mounted, check, bssid, asking, ips, idwifi>>

(* ... for null: only the status text, which nothing reads. *)
ReportNull ==
  /\ reports # <<>>
  /\ Head(reports) = "null"
  /\ reports' = Tail(reports)
  /\ UNCHANGED <<net, mounted, check, naming, bssid, asking, ips, idwifi>>

(* The name arrives, or the call fails and a text stands in; on iOS after  *)
(* the user has been asked for permission.                                 *)
GotName ==
  /\ naming > 0
  /\ naming' = naming - 1 /\ bssid' = bssid + 1
  /\ UNCHANGED <<net, mounted, check, reports, asking, ips, idwifi>>

(* Likewise the BSSID. *)
GotBssid ==
  /\ bssid > 0
  /\ bssid' = bssid - 1 /\ asking' = asking + 1
  /\ UNCHANGED <<net, mounted, check, reports, naming, ips, idwifi>>

(* The platform looks up the address of the network of that moment. *)
LookUpIp ==
  /\ asking > 0
  /\ asking' = asking - 1
  /\ \E a \in {IpOf(net), "failed"} : ips' = Append(ips, a)
  /\ UNCHANGED <<net, mounted, check, reports, naming, bssid, idwifi>>

(* The address arrives and the handler ends in setState, without asking    *)
(* whether the report it began with is still the last.                     *)
GotIp ==
  /\ ips # <<>>
  /\ idwifi' = Head(ips)
  /\ ips' = Tail(ips)
  /\ UNCHANGED <<net, mounted, check, reports, naming, bssid, asking>>

Next ==
  \/ Open \/ Close
  \/ \E n \in Net : Change(n)
  \/ Check \/ ReportNow \/ ReportWifi \/ ReportNull
  \/ GotName \/ GotBssid \/ LookUpIp \/ GotIp

Spec == Init /\ [][Next]_vars

(* The platform answers every call and the isolate runs what is due. *)
Fairness ==
  /\ WF_vars(Check)
  /\ WF_vars(ReportNow) /\ WF_vars(ReportWifi) /\ WF_vars(ReportNull)
  /\ WF_vars(GotName) /\ WF_vars(GotBssid) /\ WF_vars(LookUpIp) /\ WF_vars(GotIp)

FairSpec == Spec /\ Fairness

-----------------------------------------------------------------------------
(* Every variable has its type. *)
TypeOK ==
  /\ net \in Net
  /\ mounted \in BOOLEAN /\ check \in BOOLEAN
  /\ reports \in Seq({"wifi", "mobile", "none", "null"})
  /\ naming \in Nat /\ bssid \in Nat /\ asking \in Nat
  /\ ips \in Seq(Wifi \cup {"failed"})
  /\ idwifi \in Wifi \cup {"unset", "mobile", "none", "failed"}

(* The gate never locks a connected user out: when nothing is under way    *)
(* and the device has a network, the contents are shown, however the       *)
(* handlers of several reports overlapped.                                 *)
ConnectedIsShown == AtRest /\ mounted /\ net # "none" => Shown

(* When nothing is under way on Wi-Fi, the address the page holds is the   *)
(* address on the current network, never that of a network left behind:    *)
(* a handler reads the address last and the platform answers in order.     *)
IpIsCurrent == AtRest /\ mounted /\ net \in Wifi /\ idwifi \in Wifi => idwifi = net

(* If the device stays connected while the page stays open, the contents   *)
(* are eventually shown for good.                                          *)
EventuallyShown == <>[](mounted /\ net # "none") => <>[]Shown

(* The README's second function: the contents are shown once the device is *)
(* known to be on the internal Wi-Fi.  The code compares the result of the *)
(* check with 'ConnectivityResult.none' only, so any network will do.      *)
ContentNeedsInternalWifi == AtRest /\ Shown /\ idwifi # "unset" => net \in Internal

(* The message of the page's other branch: without a network the user is   *)
(* told to connect to the company's.  A Wi-Fi handler that ends after the  *)
(* report of no network overwrites it, and the contents stay.              *)
OfflineIsHidden == AtRest /\ mounted /\ net = "none" /\ idwifi # "unset" => ~Shown
=============================================================================
