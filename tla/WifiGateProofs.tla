--------------------------- MODULE WifiGateProofs ---------------------------
(***************************************************************************)
(* Theorems about WifiGate, for any networks and bounds.                   *)
(*                                                                         *)
(* Both safety properties speak of a gate at rest.  What is kept while it  *)
(* is not at rest is that whatever is wrong with the field, or will be     *)
(* when a report or an address under way arrives, is put right by          *)
(* something that arrives after it.                                        *)
(***************************************************************************)
EXTENDS WifiGate, ListFacts

(* A page that is gone has nothing under way. *)
GoneIsQuiet == ~mounted => AtRest

Overrules(r) == r \in {"wifi", "mobile"}

(* On a connected device, a field that says "none" will be overwritten, and *)
(* so will a report of no network.                                         *)
NoneIsOverruled ==
  mounted /\ net # "none" =>
    /\ idwifi = "none" => Handlers > 0 \/ \E j \in DOMAIN reports : Overrules(reports[j])
    /\ \A i \in DOMAIN reports :
         reports[i] = "none" => \E j \in DOMAIN reports : i < j /\ Overrules(reports[j])

(* An address is still to be looked up. *)
WillAsk == naming + bssid + asking > 0 \/ \E j \in DOMAIN reports : reports[j] = "wifi"

(* On Wi-Fi, an address of another network, held or on its way, is         *)
(* followed by a later answer.                                             *)
OldIpIsFollowed ==
  mounted /\ net \in Wifi =>
    /\ idwifi \in Wifi /\ idwifi # net => ips # <<>> \/ WillAsk
    /\ \A i \in DOMAIN ips :
         ips[i] \in Wifi /\ ips[i] # net => i < Len(ips) \/ WillAsk

GateInv == TypeOK /\ GoneIsQuiet /\ NoneIsOverruled /\ OldIpIsFollowed

-----------------------------------------------------------------------------
(* The names of states are no networks. *)
LEMMA WifiNames ==
  /\ "none" \notin Wifi /\ "mobile" \notin Wifi /\ "unset" \notin Wifi /\ "failed" \notin Wifi
BY GateAssumption

(* A handler that awaits something is counted. *)
LEMMA HandlersPositive ==
  ASSUME TypeOK
  PROVE  /\ Handlers \in Nat /\ Len(ips) \in Nat
         /\ Handlers = 0 <=> naming = 0 /\ bssid = 0 /\ asking = 0 /\ ips = <<>>
         /\ Handlers > 0 <=> naming > 0 \/ bssid > 0 \/ asking > 0 \/ ips # <<>>
BY DEF TypeOK, Handlers

(* Initially the page is not there and nothing is under way. *)
LEMMA InitGate == Init => GateInv
<1> SUFFICES ASSUME Init PROVE GateInv
  OBVIOUS
<1>1. TypeOK
  <2>1. mounted \in BOOLEAN /\ check \in BOOLEAN
    BY DEF Init
  <2>2. idwifi \in Wifi \cup {"unset", "mobile", "none", "failed"}
    BY DEF Init
  <2> QED
    BY <2>1, <2>2 DEF Init, TypeOK
<1>2. AtRest
  BY DEF Init, AtRest, Handlers
<1> QED
  BY <1>1, <1>2 DEF Init, GateInv, GoneIsQuiet, NoneIsOverruled, OldIpIsFollowed

(* Every step keeps the types. *)
LEMMA TypeStep == TypeOK /\ [Next]_vars => TypeOK'
<1> SUFFICES ASSUME TypeOK, [Next]_vars PROVE TypeOK'
  OBVIOUS
<1> USE DEF TypeOK
<1>1. CASE UNCHANGED vars
  BY <1>1 DEF vars
<1>2. CASE Open
  <2>1. mounted' \in BOOLEAN /\ check' \in BOOLEAN
    BY <1>2 DEF Open
  <2> QED
    BY <1>2, <2>1 DEF Open
<1>3. CASE Close
  <2>1. mounted' \in BOOLEAN /\ check' \in BOOLEAN
    BY <1>3 DEF Close
  <2> QED
    BY <1>3, <2>1 DEF Close
<1>4. ASSUME NEW n \in Net, Change(n)
      PROVE  TypeOK'
  <2>1. ResultOf(n) \in {"wifi", "mobile", "none", "null"}
    BY DEF Net, ResultOf
  <2> QED
    BY <1>4, <2>1 DEF Change
<1>5. CASE Check
  <2>1. ResultOf(net) \in {"wifi", "mobile", "none", "null"}
    BY DEF Net, ResultOf
  <2>2. PICK r \in {ResultOf(net), "null"} : reports' = Append(reports, r)
    BY <1>5 DEF Check
  <2>3. mounted' \in BOOLEAN /\ check' \in BOOLEAN
    BY <1>5 DEF Check
  <2>4. reports' \in Seq({"wifi", "mobile", "none", "null"})
    BY <2>1, <2>2
  <2> QED
    BY <1>5, <2>3, <2>4 DEF Check
<1>6. CASE ReportNow
  BY <1>6 DEF ReportNow
<1>7. CASE ReportWifi
  BY <1>7 DEF ReportWifi
<1>8. CASE ReportNull
  BY <1>8 DEF ReportNull
<1>9. CASE GotName
  BY <1>9 DEF GotName
<1>10. CASE GotBssid
  BY <1>10 DEF GotBssid
<1>11. CASE LookUpIp
  <2>1. PICK a \in {IpOf(net), "failed"} : ips' = Append(ips, a)
    BY <1>11 DEF LookUpIp
  <2>2. a \in Wifi \cup {"failed"}
    BY DEF IpOf
  <2> QED
    BY <1>11, <2>1, <2>2 DEF LookUpIp
<1>12. CASE GotIp
  <2>1. Head(ips) \in Wifi \cup {"failed"} /\ Tail(ips) \in Seq(Wifi \cup {"failed"})
    BY <1>12 DEF GotIp
  <2> QED
    BY <1>12, <2>1 DEF GotIp
<1> QED
  BY <1>1, <1>2, <1>3, <1>4, <1>5, <1>6, <1>7, <1>8, <1>9, <1>10, <1>11, <1>12 DEF Next

(* Nothing is under way on a page that is not there. *)
LEMMA QuietStep == TypeOK /\ GoneIsQuiet /\ [Next]_vars => GoneIsQuiet'
<1> SUFFICES ASSUME TypeOK, GoneIsQuiet, [Next]_vars, ~mounted' PROVE AtRest'
  BY DEF GoneIsQuiet
<1>0. AtRest <=> ~check /\ reports = <<>> /\ naming = 0 /\ bssid = 0 /\ asking = 0 /\ ips = <<>>
  BY HandlersPositive DEF AtRest
<1>1. TypeOK'
  BY TypeStep
<1>2. AtRest' <=> (/\ ~check' /\ reports' = <<>> /\ naming' = 0 /\ bssid' = 0
                   /\ asking' = 0 /\ ips' = <<>>)
  BY <1>1 DEF AtRest, TypeOK, Handlers
<1>3. CASE Close
  BY <1>2, <1>3 DEF Close
<1>4. CASE ~mounted
  BY <1>0, <1>2, <1>4 DEF GoneIsQuiet, Next, vars, Open, Close, Change, Check, ReportNow,
     ReportWifi, ReportNull, GotName, GotBssid, LookUpIp, GotIp, TypeOK
<1>5. CASE mounted /\ ~Close
  BY <1>5 DEF Next, vars, Open, Change, Check, ReportNow, ReportWifi, ReportNull,
     GotName, GotBssid, LookUpIp, GotIp
<1> QED
  BY <1>3, <1>4, <1>5 DEF TypeOK

(* On a connected device every sign of no network is overruled. *)
LEMMA NoneStep ==
  TypeOK /\ GoneIsQuiet /\ NoneIsOverruled /\ [Next]_vars => NoneIsOverruled'
<1> SUFFICES ASSUME TypeOK, GoneIsQuiet, NoneIsOverruled, [Next]_vars,
                    mounted', net' # "none"
             PROVE  /\ idwifi' = "none" =>
                         Handlers' > 0 \/ \E j \in DOMAIN reports' : Overrules(reports'[j])
                    /\ \A i \in DOMAIN reports' : reports'[i] = "none" =>
                         \E j \in DOMAIN reports' : i < j /\ Overrules(reports'[j])
  BY DEF NoneIsOverruled
<1> DEFINE Result == {"wifi", "mobile", "none", "null"}
<1>0. TypeOK' /\ reports \in Seq(Result)
  BY TypeStep DEF TypeOK
<1>h. Handlers' > 0 <=> naming' > 0 \/ bssid' > 0 \/ asking' > 0 \/ ips' # <<>>
  <2>1. /\ naming' \in Nat /\ bssid' \in Nat /\ asking' \in Nat
        /\ Len(ips') \in Nat /\ (Len(ips') = 0 <=> ips' = <<>>)
    BY <1>0 DEF TypeOK
  <2>2. Handlers' = naming' + bssid' + asking' + Len(ips')
    BY DEF Handlers
  <2> QED
    BY <2>1, <2>2
<1>1. CASE UNCHANGED vars
  <2>1. Handlers' = Handlers
    BY <1>1 DEF vars, Handlers
  <2> QED
    BY <1>1, <2>1 DEF vars, NoneIsOverruled
<1>2. CASE Open
  BY <1>2, HandlersPositive DEF Open, GoneIsQuiet, AtRest
<1>3. CASE Close
  BY <1>3 DEF Close
<1>4. ASSUME NEW n \in Net, Change(n)
      PROVE  /\ idwifi' = "none" =>
                  Handlers' > 0 \/ \E j \in DOMAIN reports' : Overrules(reports'[j])
             /\ \A i \in DOMAIN reports' : reports'[i] = "none" =>
                  \E j \in DOMAIN reports' : i < j /\ Overrules(reports'[j])
  <2>1. ResultOf(n) \in Result /\ Overrules(ResultOf(n))
    BY <1>4 DEF Change, Net, ResultOf, Overrules
  <2>2. reports' = Append(reports, ResultOf(n))
    BY <1>4 DEF Change
  <2>3. ResultOf(n) # "none"
    BY <2>1 DEF Overrules
  <2> QED
    BY <1>0, <2>1, <2>2, <2>3, AppendPlaces
<1>5. CASE Check
  <2>1. mounted /\ net # "none" /\ idwifi' = idwifi
    BY <1>5 DEF Check
  <2>2. Handlers' = Handlers
    BY <1>5 DEF Check, Handlers
  <2>3. PICK r \in {ResultOf(net), "null"} : reports' = Append(reports, r)
    BY <1>5 DEF Check
  <2>4. r \in Result /\ r # "none"
    BY <2>1 DEF ResultOf, TypeOK, Net
  <2> QED
    BY <1>0, <2>1, <2>2, <2>3, <2>4, AppendPlaces DEF NoneIsOverruled
<1>6. CASE ReportNow
  <2>1. mounted /\ net # "none" /\ Handlers' = Handlers /\ reports # <<>>
    BY <1>6 DEF ReportNow, Handlers
  <2>2. reports' = Tail(reports) /\ idwifi' = reports[1]
    BY <1>0, <1>6, TailPlaces DEF ReportNow
  <2>3. ASSUME NEW i \in DOMAIN reports', reports'[i] = "none"
        PROVE  \E j \in DOMAIN reports' : i < j /\ Overrules(reports'[j])
    <3>1. i + 1 \in DOMAIN reports /\ reports[i + 1] = "none"
      BY <1>0, <2>1, <2>2, <2>3, TailPlaces
    <3>2. PICK j \in DOMAIN reports : i + 1 < j /\ Overrules(reports[j])
      BY <2>1, <3>1 DEF NoneIsOverruled
    <3>3. j - 1 \in DOMAIN reports' /\ reports'[j - 1] = reports[j] /\ i < j - 1
      BY <1>0, <2>1, <2>2, <2>3, <3>2, TailPlaces
    <3> QED
      BY <3>2, <3>3
  <2>4. ASSUME idwifi' = "none"
        PROVE  \E j \in DOMAIN reports' : Overrules(reports'[j])
    <3>0. 1 \in DOMAIN reports
      BY <1>0, <2>1, TailPlaces
    <3>1. PICK j \in DOMAIN reports : 1 < j /\ Overrules(reports[j])
      BY <2>1, <2>2, <2>4, <3>0 DEF NoneIsOverruled
    <3>2. j - 1 \in DOMAIN reports' /\ reports'[j - 1] = reports[j]
      BY <1>0, <2>1, <2>2, <3>1, TailPlaces
    <3> QED
      BY <3>1, <3>2
  <2> QED
    BY <2>3, <2>4
<1>7. CASE ReportWifi
  <2>1. mounted /\ net # "none" /\ Handlers' > 0 /\ reports # <<>>
    BY <1>7, <1>h DEF ReportWifi, TypeOK
  <2>2. reports' = Tail(reports)
    BY <1>7 DEF ReportWifi
  <2>3. ASSUME NEW i \in DOMAIN reports', reports'[i] = "none"
        PROVE  \E j \in DOMAIN reports' : i < j /\ Overrules(reports'[j])
    <3>1. i + 1 \in DOMAIN reports /\ reports[i + 1] = "none"
      BY <1>0, <2>1, <2>2, <2>3, TailPlaces
    <3>2. PICK j \in DOMAIN reports : i + 1 < j /\ Overrules(reports[j])
      BY <2>1, <3>1 DEF NoneIsOverruled
    <3>3. j - 1 \in DOMAIN reports' /\ reports'[j - 1] = reports[j] /\ i < j - 1
      BY <1>0, <2>1, <2>2, <2>3, <3>2, TailPlaces
    <3> QED
      BY <3>2, <3>3
  <2> QED
    BY <2>1, <2>3
<1>8. CASE ReportNull
  <2>1. mounted /\ net # "none" /\ Handlers' = Handlers /\ reports # <<>> /\ idwifi' = idwifi
    BY <1>8 DEF ReportNull, Handlers
  <2>2. reports' = Tail(reports) /\ ~Overrules(reports[1])
    BY <1>0, <1>8, TailPlaces DEF ReportNull, Overrules
  <2>3. ASSUME NEW i \in DOMAIN reports', reports'[i] = "none"
        PROVE  \E j \in DOMAIN reports' : i < j /\ Overrules(reports'[j])
    <3>1. i + 1 \in DOMAIN reports /\ reports[i + 1] = "none"
      BY <1>0, <2>1, <2>2, <2>3, TailPlaces
    <3>2. PICK j \in DOMAIN reports : i + 1 < j /\ Overrules(reports[j])
      BY <2>1, <3>1 DEF NoneIsOverruled
    <3>3. j - 1 \in DOMAIN reports' /\ reports'[j - 1] = reports[j] /\ i < j - 1
      BY <1>0, <2>1, <2>2, <2>3, <3>2, TailPlaces
    <3> QED
      BY <3>2, <3>3
  <2>4. ASSUME idwifi' = "none"
        PROVE  Handlers' > 0 \/ \E j \in DOMAIN reports' : Overrules(reports'[j])
    <3> SUFFICES ASSUME ~(Handlers > 0)
                 PROVE  \E j \in DOMAIN reports' : Overrules(reports'[j])
      BY <2>1
    <3>1. PICK j \in DOMAIN reports : 1 < j /\ Overrules(reports[j])
      <4>1. PICK j \in DOMAIN reports : Overrules(reports[j])
        BY <2>1, <2>4 DEF NoneIsOverruled
      <4> QED
        BY <1>0, <2>1, <2>2, <4>1, TailPlaces
    <3>2. j - 1 \in DOMAIN reports' /\ reports'[j - 1] = reports[j]
      BY <1>0, <2>1, <2>2, <3>1, TailPlaces
    <3> QED
      BY <3>1, <3>2
  <2> QED
    BY <2>3, <2>4
<1>9. CASE GotName
  <2>1. Handlers' > 0
    BY <1>9, <1>h DEF GotName, TypeOK
  <2> QED
    BY <1>9, <2>1 DEF GotName, NoneIsOverruled
<1>10. CASE GotBssid
  <2>1. Handlers' > 0
    BY <1>10, <1>h DEF GotBssid, TypeOK
  <2> QED
    BY <1>10, <2>1 DEF GotBssid, NoneIsOverruled
<1>11. CASE LookUpIp
  <2>1. PICK a \in {IpOf(net), "failed"} : ips' = Append(ips, a)
    BY <1>11 DEF LookUpIp
  <2>2. ips' # <<>>
    BY <2>1 DEF TypeOK, IpOf
  <2> QED
    BY <1>11, <1>h, <2>2 DEF LookUpIp, NoneIsOverruled
<1>12. CASE GotIp
  <2>1. idwifi' \in Wifi \cup {"failed"}
    BY <1>12 DEF GotIp, TypeOK
  <2> QED
    BY <1>12, <2>1, WifiNames DEF GotIp, NoneIsOverruled
<1> QED
  BY <1>1, <1>2, <1>3, <1>4, <1>5, <1>6, <1>7, <1>8, <1>9, <1>10, <1>11, <1>12 DEF Next

(* On Wi-Fi an address of another network is followed by a later answer. *)
LEMMA IpStep ==
  TypeOK /\ GoneIsQuiet /\ OldIpIsFollowed /\ [Next]_vars => OldIpIsFollowed'
<1> SUFFICES ASSUME TypeOK, GoneIsQuiet, OldIpIsFollowed, [Next]_vars,
                    mounted', net' \in Wifi
             PROVE  /\ idwifi' \in Wifi /\ idwifi' # net' => ips' # <<>> \/ WillAsk'
                    /\ \A i \in DOMAIN ips' :
                         ips'[i] \in Wifi /\ ips'[i] # net' => i < Len(ips') \/ WillAsk'
  BY DEF OldIpIsFollowed
<1> DEFINE Result == {"wifi", "mobile", "none", "null"}
           Ip == Wifi \cup {"failed"}
<1>0. /\ TypeOK' /\ reports \in Seq(Result) /\ ips \in Seq(Ip)
      /\ naming \in Nat /\ bssid \in Nat /\ asking \in Nat
  BY TypeStep DEF TypeOK
<1>1. CASE UNCHANGED vars
  <2>1. WillAsk' = WillAsk
    BY <1>1 DEF vars, WillAsk
  <2> QED
    BY <1>1, <2>1 DEF vars, OldIpIsFollowed
<1>2. CASE Open
  <2>1. idwifi' \notin Wifi /\ ips' = <<>>
    BY <1>2, HandlersPositive, WifiNames DEF Open, GoneIsQuiet, AtRest
  <2> QED
    BY <2>1
<1>3. CASE Close
  BY <1>3 DEF Close
<1>4. ASSUME NEW n \in Net, Change(n)
      PROVE  WillAsk'
  <2>1. reports' = Append(reports, "wifi")
    BY <1>4 DEF Change, ResultOf
  <2> QED
    BY <1>0, <2>1, AppendPlaces DEF WillAsk
<1>5. CASE Check
  <2>1. mounted /\ net \in Wifi /\ UNCHANGED <<net, idwifi, ips, naming, bssid, asking>>
    BY <1>5 DEF Check
  <2>2. PICK r \in {ResultOf(net), "null"} : reports' = Append(reports, r)
    BY <1>5 DEF Check
  <2>3. r \in Result
    BY <2>1 DEF ResultOf
  <2>4. WillAsk => WillAsk'
    BY <1>0, <2>1, <2>2, <2>3, AppendPlaces DEF WillAsk
  <2> QED
    BY <2>1, <2>4 DEF OldIpIsFollowed
<1>6. CASE ReportNow
  <2>1. mounted /\ net \in Wifi /\ UNCHANGED <<net, ips, naming, bssid, asking>> /\ reports # <<>>
    BY <1>6 DEF ReportNow
  <2>2. reports' = Tail(reports) /\ reports[1] # "wifi" /\ idwifi' \notin Wifi
    BY <1>0, <1>6, TailPlaces, WifiNames DEF ReportNow
  <2>3. WillAsk => WillAsk'
    <3> SUFFICES ASSUME NEW j \in DOMAIN reports, reports[j] = "wifi" PROVE WillAsk'
      BY <2>1 DEF WillAsk
    <3>1. j - 1 \in DOMAIN reports' /\ reports'[j - 1] = "wifi"
      BY <1>0, <2>1, <2>2, TailPlaces
    <3> QED
      BY <3>1 DEF WillAsk
  <2> QED
    BY <2>1, <2>2, <2>3 DEF OldIpIsFollowed
<1>7. CASE ReportWifi
  BY <1>0, <1>7 DEF ReportWifi, WillAsk
<1>8. CASE ReportNull
  <2>1. /\ mounted /\ net \in Wifi /\ reports # <<>>
        /\ UNCHANGED <<net, idwifi, ips, naming, bssid, asking>>
    BY <1>8 DEF ReportNull
  <2>2. reports' = Tail(reports) /\ reports[1] # "wifi"
    BY <1>0, <1>8, TailPlaces DEF ReportNull
  <2>3. WillAsk => WillAsk'
    <3> SUFFICES ASSUME NEW j \in DOMAIN reports, reports[j] = "wifi" PROVE WillAsk'
      BY <2>1 DEF WillAsk
    <3>1. j - 1 \in DOMAIN reports' /\ reports'[j - 1] = "wifi"
      BY <1>0, <2>1, <2>2, TailPlaces
    <3> QED
      BY <3>1 DEF WillAsk
  <2> QED
    BY <2>1, <2>3 DEF OldIpIsFollowed
<1>9. CASE GotName
  BY <1>0, <1>9 DEF GotName, WillAsk
<1>10. CASE GotBssid
  BY <1>0, <1>10 DEF GotBssid, WillAsk
<1>11. CASE LookUpIp
  <2>1. mounted /\ net \in Wifi /\ UNCHANGED <<net, idwifi>>
    BY <1>11 DEF LookUpIp
  <2>2. PICK a \in {net, "failed"} : ips' = Append(ips, a)
    BY <1>11, <2>1 DEF LookUpIp, IpOf
  <2>3. a \in Ip /\ (a \in Wifi => a = net)
    BY <2>1, WifiNames
  <2>4. ips' # <<>> /\ \A i \in DOMAIN ips' : i = Len(ips') \/ i < Len(ips')
    BY <1>0, <2>2, <2>3, AppendPlaces
  <2>5. ips'[Len(ips')] = a
    BY <1>0, <2>2, <2>3, AppendPlaces
  <2> QED
    BY <2>1, <2>3, <2>4, <2>5
<1>12. CASE GotIp
  <2>1. /\ mounted /\ net \in Wifi /\ ips # <<>>
        /\ UNCHANGED <<net, reports, naming, bssid, asking>>
    BY <1>12 DEF GotIp
  <2>2. ips' = Tail(ips) /\ idwifi' = ips[1] /\ WillAsk' = WillAsk
    BY <1>0, <1>12, TailPlaces DEF GotIp, WillAsk
  <2>3. ASSUME idwifi' \in Wifi, idwifi' # net', ~WillAsk'
        PROVE  ips' # <<>>
    <3>1. 1 \in DOMAIN ips
      BY <1>0, <2>1, TailPlaces
    <3>2. 1 < Len(ips)
      BY <2>1, <2>2, <2>3, <3>1 DEF OldIpIsFollowed
    <3>3. Len(ips') = Len(ips) - 1 /\ Len(ips) \in Nat
      BY <1>0, <2>1, <2>2, TailPlaces
    <3>4. Len(<<>>) = 0
      OBVIOUS
    <3>5. Len(ips') # Len(<<>>)
      BY <3>2, <3>3, <3>4
    <3> QED
      BY <3>5, Zenon
  <2>4. ASSUME NEW i \in DOMAIN ips', ips'[i] \in Wifi, ips'[i] # net', ~WillAsk'
        PROVE  i < Len(ips')
    <3>1. i + 1 \in DOMAIN ips /\ ips[i + 1] = ips'[i] /\ Len(ips') = Len(ips) - 1
      BY <1>0, <2>1, <2>2, TailPlaces
    <3>2. i + 1 < Len(ips)
      BY <2>1, <2>2, <2>4, <3>1 DEF OldIpIsFollowed
    <3> QED
      BY <1>0, <2>1, <3>1, <3>2, TailPlaces
  <2> QED
    BY <2>3, <2>4
<1> QED
  BY <1>1, <1>2, <1>3, <1>4, <1>5, <1>6, <1>7, <1>8, <1>9, <1>10, <1>11, <1>12 DEF Next

(* At rest there is nothing left to put the field right. *)
LEMMA GateSafe == GateInv => ConnectedIsShown /\ IpIsCurrent
<1> SUFFICES ASSUME GateInv, AtRest, mounted
             PROVE  /\ net # "none" => Shown
                    /\ net \in Wifi /\ idwifi \in Wifi => idwifi = net
  BY DEF ConnectedIsShown, IpIsCurrent
<1>1. TypeOK
  BY DEF GateInv
<1>2. /\ naming = 0 /\ bssid = 0 /\ asking = 0 /\ ips = <<>>
      /\ ~(Handlers > 0) /\ reports = <<>>
  BY <1>1, HandlersPositive DEF AtRest
<1>3. ~WillAsk
  BY <1>2 DEF WillAsk
<1>4. net # "none" => Shown
  BY <1>2 DEF GateInv, NoneIsOverruled, Shown
<1> QED
  BY <1>2, <1>3, <1>4 DEF GateInv, OldIpIsFollowed

-----------------------------------------------------------------------------
(* The invariant of the gate holds whatever overlaps: reports, handlers,   *)
(* answers of failed calls, and pages coming and going.                    *)
THEOREM GateInvariant == Spec => []GateInv
<1>1. Init => GateInv
  BY InitGate
<1>2. GateInv /\ [Next]_vars => GateInv'
  BY TypeStep, QuietStep, NoneStep, IpStep DEF GateInv
<1> QED
  BY <1>1, <1>2, PTL DEF Spec

(* Every reachable state of the gate is well-typed. *)
THEOREM GateTypeCorrect == Spec => []TypeOK
<1>1. GateInv => TypeOK
  BY DEF GateInv
<1> QED
  BY <1>1, GateInvariant, PTL

(* The gate never locks a connected user out once nothing is under way. *)
THEOREM GateOpens == Spec => []ConnectedIsShown
BY GateInvariant, GateSafe, PTL

(* The address the page holds once nothing is under way is never that of a *)
(* network left behind.                                                    *)
THEOREM AddressIsCurrent == Spec => []IpIsCurrent
BY GateInvariant, GateSafe, PTL
=============================================================================
