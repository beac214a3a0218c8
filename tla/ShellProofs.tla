----------------------------- MODULE ShellProofs -----------------------------
(***************************************************************************)
(* Theorems about Shell, for any accounts, images, texts and bounds.       *)
(*                                                                         *)
(* What the run checks of the pages and of the photo speaks of moments at  *)
(* which something has ended.  What is kept in between is:  after a press  *)
(* with nothing under way at most one request, mail or home page is on     *)
(* its way, in that order;  and the image the account is expected to show  *)
(* is in exactly one place on its way to the database.                     *)
(***************************************************************************)
EXTENDS Shell, ListFacts

(* The pages. *)
HomePage == [kind : {"home"}, at : {"asking", "reading", "shown", "blank"},
             who : User \cup {NoUser}]
ReceiptPage == [kind : {"receipt"}, image : File \cup {None}]
PeoplePage == [kind : {"people"}, loaded : BOOLEAN, back : SUBSET User,
               list : SUBSET User, query : Query, grown : BOOLEAN]
Page == HomePage \cup ReceiptPage \cup PeoplePage \cup {Dialog}

(* What the variables hold, apart from what depends on the accounts. *)
Shapes ==
  /\ accounts \subseteq User /\ requests \in [Request -> Nat] /\ calm \in BOOLEAN
  /\ outbox \in Seq(Write) /\ server \in [User -> Node] /\ stack \in Seq(Page)
  /\ uploads \in Seq(File) /\ urls \in Seq(Name)
  /\ objects \in [Name -> File \cup {None}] /\ expected \in File \cup {None}

(* Everything that names an account names one that exists. *)
Existing ==
  /\ user \in accounts \cup {NoUser} /\ mailing \in Seq(accounts) /\ lost \subseteq accounts
  /\ \A k \in Homes : stack[k].who \in accounts \cup {NoUser}
  /\ \A i \in DOMAIN outbox : outbox[i].to \in accounts
  /\ \A u \in User : server[u] # NoNode => u \in accounts
  /\ \A k \in Lists : stack[k].back \subseteq accounts

(* The list of a page is part of what it was read from. *)
Narrowed == \A k \in Lists : stack[k].list \subseteq stack[k].back

(* A URL is only ever that of an object that is there. *)
UrlsAreThere ==
  /\ \A i \in DOMAIN urls : objects[urls[i]] # None
  /\ \A i \in DOMAIN outbox : outbox[i].photo # None => objects[outbox[i].photo] # None
  /\ \A u \in User : server[u].photo # None => objects[server[u].photo] # None

(* After a press with nothing under way: one request, on the login page;   *)
(* or one mail, of the account that is signed in, with no page but the     *)
(* dialog; or home pages of the account that is signed in.                 *)
OneAtATime ==
  calm =>
    /\ \A r \in Request : requests[r] <= 1
    /\ \A r \in Request, s \in Request : Pending(r) /\ Pending(s) => r = s
    /\ (\E r \in Request : Pending(r)) => stack = <<>> /\ mailing = <<>>
    /\ mailing # <<>> => /\ Len(mailing) = 1 /\ user = mailing[1]
                         /\ \A k \in DOMAIN stack : stack[k] = Dialog
    /\ \A k \in Homes : user # NoUser /\ stack[k].who \in {NoUser, user}

(* The expected image is being stored; or it is stored and its URL waits   *)
(* for the current user; or the last write under way is that of its URL;   *)
(* or the server has it.                                                   *)
OnItsWay ==
  expected # None =>
    /\ user # NoUser
    /\ \/ uploads = <<expected>> /\ urls = <<>>
       \/ /\ uploads = <<>> /\ objects[BaseName[expected]] = expected
          /\ \/ urls = <<BaseName[expected]>>
             \/ /\ urls = <<>> /\ outbox # <<>>
                /\ outbox[Len(outbox)] = SetPhoto(user, BaseName[expected])
             \/ /\ urls = <<>> /\ outbox = <<>>
                /\ server[user].photo = BaseName[expected]

ShellInv ==
  /\ Shapes /\ Existing /\ Narrowed /\ SearchIsExact /\ UrlsAreThere
  /\ OneAtATime /\ OnItsWay

-----------------------------------------------------------------------------
(* The top of a stack, and the rest of it. *)
LEMMA FrontPlaces ==
  ASSUME NEW S, NEW s \in Seq(S), s # <<>>
  PROVE  /\ Len(s) \in Nat /\ Len(s) >= 1 /\ DOMAIN s = 1 .. Len(s)
         /\ Last(s) \in S /\ Last(s) = s[Len(s)]
         /\ Front(s) \in Seq(S) /\ DOMAIN Front(s) = 1 .. (Len(s) - 1)
         /\ Len(Front(s)) = Len(s) - 1
         /\ \A i \in 1 .. (Len(s) - 1) : Front(s)[i] = s[i]
<1>1. Len(s) \in Nat /\ Len(s) >= 1 /\ DOMAIN s = 1 .. Len(s) /\ s[Len(s)] \in S
  OBVIOUS
<1>2. \A i \in 1 .. (Len(s) - 1) : s[i] \in S
  BY <1>1
<1>3. /\ SubSeq(s, 1, Len(s) - 1) \in Seq(S)
      /\ Len(SubSeq(s, 1, Len(s) - 1)) = Len(s) - 1
  BY <1>1, <1>2
<1>4. \A i \in 1 .. (Len(s) - 1) : SubSeq(s, 1, Len(s) - 1)[i] = s[i]
  BY <1>1
<1> QED
  BY <1>1, <1>3, <1>4 DEF Front, Last

(* A page replaced by another at the top. *)
LEMMA TopReplaced ==
  ASSUME NEW S, NEW s \in Seq(S), s # <<>>, NEW e \in S
  PROVE  /\ Append(Front(s), e) \in Seq(S) /\ DOMAIN Append(Front(s), e) = DOMAIN s
         /\ \A i \in DOMAIN s \ {Len(s)} : Append(Front(s), e)[i] = s[i]
         /\ Len(s) \in DOMAIN s /\ Append(Front(s), e)[Len(s)] = e
<1> DEFINE f == Front(s)
<1>1. /\ f \in Seq(S) /\ Len(f) = Len(s) - 1 /\ Len(s) \in Nat /\ Len(s) >= 1
      /\ DOMAIN s = 1 .. Len(s) /\ \A i \in 1 .. (Len(s) - 1) : f[i] = s[i]
  BY FrontPlaces
<1> HIDE DEF f
<1>2. /\ Append(f, e) \in Seq(S) /\ DOMAIN Append(f, e) = 1 .. (Len(f) + 1)
      /\ \A i \in 1 .. Len(f) : Append(f, e)[i] = f[i]
      /\ Append(f, e)[Len(f) + 1] = e
  BY <1>1, AppendPlaces
<1>3. Len(f) + 1 = Len(s)
  BY <1>1
<1>4. ASSUME NEW i \in DOMAIN s \ {Len(s)} PROVE Append(f, e)[i] = s[i]
  BY <1>1, <1>2, <1>3, <1>4
<1>5. Len(s) \in DOMAIN s /\ Append(f, e)[Len(s)] = e
  BY <1>1, <1>2, <1>3
<1>6. DOMAIN Append(f, e) = DOMAIN s
  BY <1>1, <1>2, <1>3
<1> QED
  BY <1>2, <1>4, <1>5, <1>6 DEF f

(* What is left when one of a queue is taken out, wherever it stood. *)
LEMMA RemovedPlaces ==
  ASSUME NEW S, NEW s \in Seq(S), NEW k \in DOMAIN s
  PROVE  /\ RemoveAt(s, k) \in Seq(S)
         /\ \A i \in DOMAIN RemoveAt(s, k) : \E j \in DOMAIN s : RemoveAt(s, k)[i] = s[j]
         /\ Len(s) = 1 => RemoveAt(s, k) = <<>>
<1> DEFINE a == SubSeq(s, 1, k - 1)
           b == SubSeq(s, k + 1, Len(s))
<1>1. k \in 1 .. Len(s) /\ Len(s) \in Nat
  OBVIOUS
<1>2. /\ a \in Seq(S) /\ DOMAIN a = 1 .. (k - 1) /\ Len(a) = k - 1
      /\ \A i \in 1 .. (k - 1) : a[i] = s[i]
  BY <1>1
<1>3. /\ b \in Seq(S) /\ DOMAIN b = 1 .. (Len(s) - k) /\ Len(b) = Len(s) - k
      /\ \A i \in 1 .. (Len(s) - k) : b[i] = s[i + k]
  BY <1>1
<1>4. RemoveAt(s, k) = a \o b
  BY DEF RemoveAt
<1> HIDE DEF a, b
<1>5. /\ a \o b \in Seq(S) /\ DOMAIN (a \o b) = 1 .. (Len(a) + Len(b))
      /\ \A i \in 1 .. (Len(a) + Len(b)) :
           (a \o b)[i] = IF i <= Len(a) THEN a[i] ELSE b[i - Len(a)]
  BY <1>2, <1>3
<1>6. ASSUME NEW i \in DOMAIN (a \o b) PROVE \E j \in DOMAIN s : (a \o b)[i] = s[j]
  <2>1. CASE i <= Len(a)
    <3>1. i \in 1 .. (Len(a) + Len(b)) /\ (a \o b)[i] = a[i]
      BY <1>5, <2>1
    <3>2. i \in 1 .. (k - 1)
      BY <1>1, <1>2, <2>1, <3>1
    <3>3. a[i] = s[i] /\ i \in DOMAIN s
      BY <1>1, <1>2, <3>2
    <3> QED
      BY <3>1, <3>3
  <2>2. CASE ~(i <= Len(a))
    <3>0. i \in 1 .. (Len(a) + Len(b)) /\ (a \o b)[i] = b[i - Len(a)]
      BY <1>5, <2>2
    <3>1. i - Len(a) \in 1 .. (Len(s) - k)
      <4>1. Len(a) = k - 1 /\ Len(b) = Len(s) - k
        BY <1>2, <1>3
      <4>2. i \in 1 .. ((k - 1) + (Len(s) - k)) /\ ~(i <= k - 1)
        BY <2>2, <3>0, <4>1
      <4>3. i - (k - 1) \in 1 .. (Len(s) - k)
        BY <1>1, <4>2
      <4> QED
        BY <4>1, <4>3
    <3>2. (i - Len(a)) + k \in DOMAIN s
      BY <1>1, <3>1
    <3>3. b[i - Len(a)] = s[(i - Len(a)) + k]
      BY <1>3, <3>1
    <3> QED
      BY <3>0, <3>2, <3>3
  <2> QED
    BY <2>1, <2>2
<1>7. ASSUME Len(s) = 1 PROVE a \o b = <<>>
  BY <1>1, <1>2, <1>3, <1>7
<1> QED
  BY <1>4, <1>5, <1>6, <1>7

-----------------------------------------------------------------------------
(* What a step of the session leaves of the receipts. *)
Kept ==
  /\ expected' = IF user' = user THEN expected ELSE None
  /\ UNCHANGED <<uploads, urls, objects>>

(* The pages a step can open. *)
Fresh == {Home, Dialog, People} \cup {Receipt(f) : f \in File \cup {None}}

(* A list of people after the search text has become t. *)
Asked(p, t) ==
  [p EXCEPT !.query = t, !.list = Filtered(p, t),
            !.grown = \/ t = NoText
                      \/ @ /\ p.loaded /\ <<p.query, t>> \in Extends
                           /\ \A u \in p.list : Named(u)]

(* What a step can make of a page that is there. *)
Turned(p, q) ==
  \/ q = p
  \/ /\ p.kind = "home"
     /\ q = [p EXCEPT !.at = IF user = NoUser THEN "blank" ELSE "reading", !.who = user]
  \/ /\ p.kind = "home"
     /\ q = [p EXCEPT !.at = IF Named(p.who) THEN "shown" ELSE "blank"]
  \/ /\ p.kind = "people"
     /\ LET all == {u \in User : HasNode(u)}
        IN  q = [p EXCEPT !.loaded = TRUE, !.back = all, !.list = all,
                          !.grown = p.query = NoText]
  \/ /\ p.kind = "people"
     /\ \E t \in Query : q = Asked(p, t)

(* The invariant holds at the start. *)
LEMMA InitShell == Init => ShellInv
<1> SUFFICES ASSUME Init PROVE ShellInv
  OBVIOUS
<1>0. /\ stack = <<>> /\ outbox = <<>> /\ urls = <<>> /\ uploads = <<>> /\ mailing = <<>>
      /\ accounts = Founder /\ user = NoUser /\ lost = {} /\ calm = TRUE /\ expected = None
      /\ server = [u \in User |-> [named |-> u \in Founder, photo |-> None]]
      /\ requests = [r \in Request |-> 0] /\ objects = [n \in Name |-> None]
  BY DEF Init, SessionInit, ReceiptInit
<1>1. Shapes
  BY <1>0, SessionAssumption DEF Shapes, Node
<1>2. Existing
  <2>1. ASSUME NEW u \in User, u \notin Founder PROVE server[u] = NoNode
    <3>1. (u \in Founder) = FALSE
      BY <2>1
    <3>2. server[u] = [named |-> u \in Founder, photo |-> None]
      BY <1>0
    <3> QED
      BY <3>1, <3>2, Zenon DEF NoNode
  <2>2. mailing \in Seq(accounts) /\ DOMAIN stack = {} /\ DOMAIN outbox = {}
    BY <1>0
  <2> QED
    BY <1>0, <2>1, <2>2 DEF Existing, Homes, Lists
<1>3. Narrowed /\ SearchIsExact
  BY <1>0 DEF Narrowed, SearchIsExact, Lists
<1>4. UrlsAreThere
  BY <1>0 DEF UrlsAreThere
<1>5. OneAtATime
  BY <1>0 DEF OneAtATime, Pending, Homes
<1>6. OnItsWay
  BY <1>0 DEF OnItsWay
<1> QED
  BY <1>1, <1>2, <1>3, <1>4, <1>5, <1>6 DEF ShellInv

(* The steps, one disjunct each. *)
LEMMA Steps ==
  [Next]_vars =>
    \/ UNCHANGED vars
    \/ Kill
    \/ /\ Kept
       /\ \/ \E u \in User : Login(u)
          \/ \E u \in User \ Founder : Register(u)
          \/ \E r \in Request : RequestFails(r)
          \/ \E r \in Request : SignInAnswer(r)
          \/ \E r \in Request : SignUpAnswer(r)
          \/ SendMail \/ OpenHome
          \/ \E k \in Homes : AskUser(k)
          \/ \E k \in Homes : ReadProfile(k)
          \/ CloseChat
          \/ Back /\ UNCHANGED session
          \/ CommitWrite /\ UNCHANGED session
    \/ /\ UNCHANGED session
       /\ \/ OpenReceipt \/ Submit
          \/ \E f \in File \cup {None} : CaptureImage(f)
          \/ \E i \in DOMAIN uploads : UploadDone(i)
          \/ \E i \in DOMAIN urls : SendImage(i)
    \/ /\ UNCHANGED <<session, receipt>>
       /\ \/ OpenPeople
          \/ \E k \in Lists : Load(k)
          \/ \E q \in Query : Fillout(q)
BY Zenon DEF Next, SessionStep, ReceiptStep, PeopleStep, SessionNext, ReceiptNext, PeopleNext, Kept

(* The pages that are opened are pages ... *)
LEMMA FreshPages == Fresh \subseteq Page
<1>1. Home \in HomePage
  BY DEF Home, HomePage
<1>2. \A f \in File \cup {None} : Receipt(f) \in ReceiptPage
  BY DEF Receipt, ReceiptPage
<1>3. People \in PeoplePage
  BY PeopleAssumption DEF People, PeoplePage
<1> QED
  BY <1>1, <1>2, <1>3 DEF Fresh, Page

(* ... of these kinds. *)
LEMMA Kinds ==
  /\ \A p \in HomePage : p.kind = "home"
  /\ \A p \in ReceiptPage : p.kind = "receipt"
  /\ \A p \in PeoplePage : p.kind = "people"
  /\ Dialog.kind = "dialog"
  /\ \A p \in Page : /\ p.kind = "home" => p \in HomePage
                     /\ p.kind = "receipt" => p \in ReceiptPage
                     /\ p.kind = "people" => p \in PeoplePage
                     /\ p.kind = "dialog" => p = Dialog
BY DEF HomePage, ReceiptPage, PeoplePage, Dialog, Page

(* What becomes of a page is a page of the same kind. *)
LEMMA TurnedPage ==
  ASSUME user \in User \cup {NoUser}, NEW p \in Page, NEW q, Turned(p, q)
  PROVE  q \in Page /\ q.kind = p.kind
<1>1. CASE q = p
  BY <1>1
<1>2. CASE p.kind = "home" /\ q # p
  <2>1. p \in HomePage
    BY <1>2, Kinds
  <2>2. \/ \E a \in {"blank", "reading"} : q = [p EXCEPT !.at = a, !.who = user]
        \/ \E a \in {"shown", "blank"} : q = [p EXCEPT !.at = a]
    BY <1>2 DEF Turned
  <2>3. q \in HomePage
    BY <2>1, <2>2 DEF HomePage
  <2> QED
    BY <1>2, <2>3, Kinds DEF Page
<1>3. CASE p.kind = "people" /\ q # p
  <2>1. p \in PeoplePage
    BY <1>3, Kinds
  <2>2. ASSUME NEW all \in SUBSET User, NEW g \in BOOLEAN,
               q = [p EXCEPT !.loaded = TRUE, !.back = all, !.list = all, !.grown = g]
        PROVE  q \in PeoplePage
    BY <2>1, <2>2 DEF PeoplePage
  <2>3. ASSUME NEW t \in Query, NEW l \in SUBSET User, NEW g \in BOOLEAN,
               q = [p EXCEPT !.query = t, !.list = l, !.grown = g]
        PROVE  q \in PeoplePage
    BY <2>1, <2>3 DEF PeoplePage
  <2>4. p.back \subseteq User /\ p.list \subseteq User /\ p.grown \in BOOLEAN
    BY <2>1 DEF PeoplePage
  <2>5. \A t \in Query : Filtered(p, t) \in SUBSET User
    BY <2>4 DEF Filtered
  <2>6. ASSUME NEW t \in Query, q = Asked(p, t)
        PROVE  q \in PeoplePage
    <3> DEFINE g == \/ t = NoText
                    \/ p.grown /\ p.loaded /\ <<p.query, t>> \in Extends
                               /\ \A u \in p.list : Named(u)
    <3>1. g \in BOOLEAN
      OBVIOUS
    <3>2. q = [p EXCEPT !.query = t, !.list = Filtered(p, t), !.grown = g]
      BY <2>6 DEF Asked
    <3> HIDE DEF g
    <3> QED
      BY <2>3, <2>5, <3>1, <3>2
  <2>7. ASSUME LET all == {u \in User : HasNode(u)}
               IN  q = [p EXCEPT !.loaded = TRUE, !.back = all, !.list = all,
                                 !.grown = p.query = NoText]
        PROVE  q \in PeoplePage
    <3> DEFINE all == {u \in User : HasNode(u)}
               g == p.query = NoText
    <3>1. all \in SUBSET User /\ g \in BOOLEAN
      OBVIOUS
    <3>2. q = [p EXCEPT !.loaded = TRUE, !.back = all, !.list = all, !.grown = g]
      BY <2>7
    <3> HIDE DEF all, g
    <3> QED
      BY <2>2, <3>1, <3>2
  <2>8. q \in PeoplePage
    BY <1>3, <2>6, <2>7 DEF Turned
  <2> QED
    BY <1>3, <2>8, Kinds DEF Page
<1> QED
  BY <1>1, <1>2, <1>3 DEF Turned

(* A step opens pages, takes pages away, and turns pages, nothing else. *)
LEMMA PageStep ==
  ASSUME Shapes, user \in User \cup {NoUser}, [Next]_vars
  PROVE  /\ stack' \in Seq(Page)
         /\ \A k \in DOMAIN stack' :
              \/ stack'[k] \in Fresh
              \/ k \in DOMAIN stack /\ Turned(stack[k], stack'[k])
<1> DEFINE Followed(t) ==
             /\ t \in Seq(Page)
             /\ \A k \in DOMAIN t :
                  \/ t[k] \in Fresh
                  \/ k \in DOMAIN stack /\ Turned(stack[k], t[k])
<1> SUFFICES Followed(stack')
  OBVIOUS
<1>0. stack \in Seq(Page) /\ DOMAIN stack = 1 .. Len(stack) /\ Len(stack) \in Nat
  BY DEF Shapes
<1>t. \A p : Turned(p, p)
  BY Zenon DEF Turned
<1>1. ASSUME stack' = stack PROVE Followed(stack')
  BY <1>0, <1>1 DEF Turned
<1>2. ASSUME NEW e \in Fresh, stack' = Append(stack, e) PROVE Followed(stack')
  <2>1. e \in Page
    BY FreshPages
  <2>2. /\ Append(stack, e) \in Seq(Page) /\ DOMAIN Append(stack, e) = 1 .. (Len(stack) + 1)
        /\ \A i \in 1 .. Len(stack) : Append(stack, e)[i] = stack[i]
        /\ Append(stack, e)[Len(stack) + 1] = e
    BY <1>0, <2>1, AppendPlaces
  <2>3. ASSUME NEW k \in DOMAIN stack', k # Len(stack) + 1
        PROVE  k \in DOMAIN stack /\ stack'[k] = stack[k]
    BY <1>0, <1>2, <2>2, <2>3
  <2> QED
    BY <1>2, <2>2, <2>3 DEF Turned
<1>3. ASSUME stack # <<>>, stack' = Front(stack) PROVE Followed(stack')
  <2>1. Front(stack) \in Seq(Page) /\ DOMAIN Front(stack) = 1 .. (Len(stack) - 1)
    BY <1>0, <1>3, FrontPlaces
  <2>2. ASSUME NEW k \in DOMAIN stack' PROVE k \in DOMAIN stack /\ stack'[k] = stack[k]
    BY <1>0, <1>3, <2>1, <2>2, FrontPlaces
  <2> QED
    BY <1>3, <2>1, <2>2 DEF Turned
<1>4. ASSUME stack' = <<>> PROVE Followed(stack')
  BY <1>4
<1>5. ASSUME NEW e \in Page, stack # <<>>, stack' = Append(Front(stack), e),
             e \in Fresh \/ Turned(Last(stack), e)
      PROVE  Followed(stack')
  <2> DEFINE t == Append(Front(stack), e)
  <2>1. /\ t \in Seq(Page) /\ DOMAIN t = DOMAIN stack
        /\ \A i \in DOMAIN stack \ {Len(stack)} : t[i] = stack[i]
        /\ t[Len(stack)] = e
    <3>1. stack \in Seq(Page) /\ stack # <<>> /\ e \in Page
      BY <1>0, <1>5
    <3>2. /\ t \in Seq(Page) /\ DOMAIN t = DOMAIN stack /\ t[Len(stack)] = e
      BY <3>1, TopReplaced, Zenon
    <3>3. \A s \in Seq(Page), x \in Page : s # <<>> =>
            \A i \in DOMAIN s \ {Len(s)} : Append(Front(s), x)[i] = s[i]
      BY TopReplaced
    <3> QED
      BY <3>1, <3>2, <3>3, Zenon
  <2>2. stack' = t
    BY <1>5
  <2> HIDE DEF t
  <2>3. e \in Fresh \/ Turned(stack[Len(stack)], e)
    BY <1>5 DEF Last
  <2>4. ASSUME NEW k \in DOMAIN t
        PROVE  t[k] \in Fresh \/ (k \in DOMAIN stack /\ Turned(stack[k], t[k]))
    BY <1>t, <2>1, <2>3, <2>4
  <2> QED
    BY <2>1, <2>2, <2>4
<1>6. ASSUME NEW k \in DOMAIN stack, NEW e \in Page, stack' = [stack EXCEPT ![k] = e],
             Turned(stack[k], e)
      PROVE  Followed(stack')
  <2>1. /\ stack' \in Seq(Page) /\ DOMAIN stack' = DOMAIN stack /\ stack'[k] = e
        /\ \A i \in DOMAIN stack : i # k => stack'[i] = stack[i]
    BY <1>0, <1>6
  <2>2. ASSUME NEW i \in DOMAIN stack' PROVE Turned(stack[i], stack'[i])
    BY <1>6, <1>t, <2>1, <2>2
  <2> QED
    BY <2>1, <2>2
<1> HIDE DEF Followed
<1>7. CASE UNCHANGED vars
  BY <1>1, <1>7 DEF vars, phone
<1>8. CASE Kill
  BY <1>4, <1>8 DEF Kill, AppKill
<1>9. CASE \E u \in User : Login(u) \/ Register(u)
  BY <1>1, <1>9 DEF Login, Register, phone
<1>10. CASE \E r \in Request : RequestFails(r)
  BY <1>1, <1>10 DEF RequestFails, phone
<1>11. CASE \E r \in Request : SignInAnswer(r)
  BY <1>2, <1>11 DEF SignInAnswer, Push, Fresh
<1>12. CASE \E r \in Request : SignUpAnswer(r)
  BY <1>2, <1>12 DEF SignUpAnswer, Push, Fresh
<1>13. CASE SendMail
  BY <1>1, <1>13 DEF SendMail, phone
<1>14. CASE OpenHome \/ OpenReceipt \/ OpenPeople
  BY <1>2, <1>14 DEF OpenHome, OpenReceipt, OpenPeople, Push, Fresh
<1>15. CASE \E k \in Homes : AskUser(k)
  <2> PICK k \in Homes : AskUser(k)
    BY <1>15
  <2> DEFINE e == [stack[k] EXCEPT !.at = IF user = NoUser THEN "blank" ELSE "reading",
                                   !.who = user]
  <2>1. k \in DOMAIN stack /\ stack[k].kind = "home" /\ stack[k] \in Page
    BY <1>0 DEF Homes
  <2>2. stack' = [stack EXCEPT ![k] = e]
    BY <1>0, <2>1 DEF AskUser
  <2>3. Turned(stack[k], e)
    BY <2>1 DEF Turned
  <2> HIDE DEF e
  <2>4. e \in Page
    BY <2>1, <2>3, TurnedPage
  <2> QED
    BY <1>6, <2>1, <2>2, <2>3, <2>4
<1>16. CASE \E k \in Homes : ReadProfile(k)
  <2> PICK k \in Homes : ReadProfile(k)
    BY <1>16
  <2> DEFINE e == [stack[k] EXCEPT !.at = IF Named(stack[k].who) THEN "shown" ELSE "blank"]
  <2>1. k \in DOMAIN stack /\ stack[k].kind = "home" /\ stack[k] \in Page
    BY <1>0 DEF Homes
  <2>2. stack' = [stack EXCEPT ![k] = e]
    BY <1>0, <2>1 DEF ReadProfile
  <2>3. Turned(stack[k], e)
    BY <2>1 DEF Turned
  <2> HIDE DEF e
  <2>4. e \in Page
    BY <2>1, <2>3, TurnedPage
  <2> QED
    BY <1>6, <2>1, <2>2, <2>3, <2>4
<1>17. CASE CloseChat
  BY <1>4, <1>17 DEF CloseChat
<1>18. CASE Back
  BY <1>3, <1>18 DEF Back
<1>19. CASE CommitWrite
  BY <1>1, <1>19 DEF CommitWrite
<1>20. CASE Submit
  BY <1>1, <1>20 DEF Submit, phone
<1>21. CASE \E f \in File \cup {None} : CaptureImage(f)
  BY <1>5, <1>21, FreshPages DEF CaptureImage, OnTop, Fresh
<1>22. CASE \E i \in DOMAIN uploads : UploadDone(i)
  BY <1>1, <1>22 DEF UploadDone, phone
<1>23. CASE \E i \in DOMAIN urls : SendImage(i)
  BY <1>1, <1>23 DEF SendImage
<1>24. CASE \E k \in Lists : Load(k)
  <2> PICK k \in Lists : Load(k)
    BY <1>24
  <2> DEFINE all == {u \in User : HasNode(u)}
             e == [stack[k] EXCEPT !.loaded = TRUE, !.back = all, !.list = all,
                                   !.grown = stack[k].query = NoText]
  <2>1. k \in DOMAIN stack /\ stack[k].kind = "people" /\ stack[k] \in Page
    BY <1>0 DEF Lists
  <2>2. stack' = [stack EXCEPT ![k] = e]
    BY <1>0, <2>1 DEF Load
  <2>3. Turned(stack[k], e)
    BY <2>1 DEF Turned
  <2> HIDE DEF e
  <2>4. e \in Page
    BY <2>1, <2>3, TurnedPage
  <2> QED
    BY <1>6, <2>1, <2>2, <2>3, <2>4
<1>25. CASE \E q \in Query : Fillout(q)
  <2> PICK q \in Query : Fillout(q)
    BY <1>25
  <2> DEFINE p == Last(stack)
             e == Asked(p, q)
  <2>1. stack # <<>> /\ p.kind = "people"
    BY DEF Fillout, OnTop
  <2>2. p \in Page
    BY <1>0, <2>1, FrontPlaces
  <2>3. stack' = Append(Front(stack), e)
    BY DEF Fillout, Asked
  <2>4. Turned(p, e)
    BY <2>1 DEF Turned
  <2> HIDE DEF e
  <2>5. e \in Page
    BY <2>2, <2>4, TurnedPage
  <2> QED
    BY <1>5, <2>1, <2>3, <2>4, <2>5
<1> QED
  BY <1>7, <1>8, <1>9, <1>10, <1>11, <1>12, <1>13, <1>14, <1>15, <1>16, <1>17, <1>18, <1>19,
     <1>20, <1>21, <1>22, <1>23, <1>24, <1>25, Steps

(* The steps that touch neither an account, nor a write, nor an upload. *)
PagesOnly ==
  UNCHANGED <<user, outbox, server, session, uploads, urls, objects>>

LEMMA OnlyPages ==
  ASSUME \/ UNCHANGED vars
         \/ Kept /\ (OpenHome \/ (\E k \in Homes : AskUser(k) \/ ReadProfile(k)))
         \/ Kept /\ Back /\ UNCHANGED session
         \/ UNCHANGED session /\ (OpenReceipt \/ \E f \in File \cup {None} : CaptureImage(f))
         \/ /\ UNCHANGED <<session, receipt>>
            /\ \/ OpenPeople \/ (\E k \in Lists : Load(k)) \/ (\E q \in Query : Fillout(q))
  PROVE  PagesOnly /\ expected' = expected
BY DEF PagesOnly, vars, phone, receipt, session, Kept, OpenHome, AskUser, ReadProfile, Back,
       OpenReceipt, CaptureImage, OpenPeople, Load, Fillout

(* Every step keeps the shapes. *)
LEMMA ShapesStep ==
  ASSUME Shapes, Existing, [Next]_vars
  PROVE  Shapes'
<1>0. user \in User \cup {NoUser} /\ (user # NoUser => user \in User)
  BY DEF Shapes, Existing
<1>s. stack' \in Seq(Page)
  BY <1>0, PageStep
<1>1. ASSUME PagesOnly, expected' = expected PROVE Shapes'
  BY <1>1, <1>s DEF PagesOnly, session, Shapes
<1>2. ASSUME NEW r \in Request
      PROVE  /\ Made(r) \in [Request -> Nat] /\ (Pending(r) => Answered(r) \in [Request -> Nat])
  BY DEF Shapes, Made, Pending, Answered
<1>3. (~UnderWay) \in BOOLEAN
  BY DEF UnderWay
<1>4. expected \in File \cup {None} /\ (Kept => expected' \in File \cup {None})
  BY DEF Kept, Shapes
<1>8. CASE Kill
  <2>1. accounts' \subseteq User
    <3>1. PICK made \in SUBSET AskedFor("up") : accounts' = accounts \cup made
      BY <1>8 DEF Kill, AppKill
    <3>2. made \subseteq User
      BY <3>1 DEF AskedFor
    <3> QED
      BY <3>1, <3>2 DEF Shapes
  <2> QED
    BY <1>8, <1>s, <2>1 DEF Kill, AppKill, Shapes
<1>9. ASSUME NEW u \in User, Login(u) \/ Register(u), Kept PROVE Shapes'
  <2>1. calm' \in BOOLEAN
    BY <1>3, <1>9 DEF Login, Register
  <2>2. requests' \in [Request -> Nat]
    BY <1>2, <1>9 DEF Login, Register, Request
  <2> QED
    BY <1>4, <1>9, <1>s, <2>1, <2>2 DEF Login, Register, Kept, Shapes, phone
<1>10. ASSUME NEW r \in Request, RequestFails(r) \/ SignInAnswer(r), Kept PROVE Shapes'
  <2>2. requests' \in [Request -> Nat]
    BY <1>2, <1>10 DEF RequestFails, SignInAnswer
  <2> QED
    BY <1>4, <1>10, <1>s, <2>2 DEF RequestFails, SignInAnswer, Kept, Shapes, phone
<1>12. ASSUME NEW r \in Request, SignUpAnswer(r), Kept PROVE Shapes'
  <2>1. r.who \in User
    BY DEF Request
  <2>2. requests' \in [Request -> Nat]
    BY <1>2, <1>12 DEF SignUpAnswer
  <2>3. SetProfile(r.who) \in Write
    BY <2>1 DEF SetProfile, Write
  <2>4. outbox' \in Seq(Write)
    BY <1>12, <2>3 DEF SignUpAnswer, Shapes
  <2> QED
    BY <1>4, <1>12, <1>s, <2>1, <2>2, <2>4 DEF SignUpAnswer, Kept, Shapes
<1>13. CASE (SendMail \/ CloseChat) /\ Kept
  BY <1>4, <1>13, <1>s DEF SendMail, CloseChat, Kept, Shapes, phone, session
<1>19. ASSUME CommitWrite, Kept, UNCHANGED session PROVE Shapes'
  <2>1. Head(outbox) \in Write /\ Tail(outbox) \in Seq(Write)
    BY <1>19 DEF CommitWrite, Shapes
  <2>2. \A n \in Node, w \in Write : Written(n, w) \in Node
    BY DEF Node, Write, Written
  <2>3. server' \in [User -> Node]
    <3>1. Head(outbox).to \in User
      BY <2>1 DEF Write
    <3>2. server' = [server EXCEPT ![Head(outbox).to] = Written(server[Head(outbox).to], Head(outbox))]
      BY <1>19 DEF CommitWrite
    <3> QED
      BY <2>1, <2>2, <3>1, <3>2 DEF Shapes
  <2> QED
    BY <1>4, <1>19, <1>s, <2>1, <2>3 DEF CommitWrite, Kept, Shapes, session
<1>20. ASSUME Submit, UNCHANGED session PROVE Shapes'
  <2>1. stack # <<>> /\ Last(stack).kind = "receipt" /\ Last(stack) \in Page
    BY <1>20, FrontPlaces DEF Submit, OnTop, Shapes
  <2>2. Last(stack) \in ReceiptPage /\ Last(stack).image # None
    BY <1>20, <2>1, Kinds DEF Submit
  <2>3. Last(stack).image \in File
    BY <2>2 DEF ReceiptPage
  <2> QED
    BY <1>20, <1>s, <2>3 DEF Submit, Shapes, session, phone
<1>22. ASSUME NEW i \in DOMAIN uploads, UploadDone(i), UNCHANGED session PROVE Shapes'
  <2>1. uploads[i] \in File /\ BaseName[uploads[i]] \in Name
    BY ReceiptAssumption DEF Shapes
  <2>2. uploads' \in Seq(File)
    BY <1>22, RemovedPlaces DEF UploadDone, Shapes
  <2> QED
    BY <1>22, <1>s, <2>1, <2>2 DEF UploadDone, Shapes, session, phone
<1>23. ASSUME NEW i \in DOMAIN urls, SendImage(i), UNCHANGED session PROVE Shapes'
  <2>1. urls[i] \in Name
    BY DEF Shapes
  <2>2. urls' \in Seq(Name)
    BY <1>23, RemovedPlaces DEF SendImage, Shapes
  <2>3. user # NoUser => SetPhoto(user, urls[i]) \in Write
    BY <1>0, <2>1 DEF SetPhoto, Write
  <2>4. outbox' \in Seq(Write)
    BY <1>23, <2>3 DEF SendImage, Shapes
  <2> QED
    BY <1>23, <1>s, <2>2, <2>4 DEF SendImage, Shapes, session
<1> QED
  BY <1>1, <1>8, <1>9, <1>10, <1>12, <1>13, <1>19, <1>20, <1>22, <1>23, Steps, OnlyPages

(* Whoever has a node, at the server or on its way, has an account. *)
LEMMA NodesExist ==
  ASSUME Existing, NEW u \in User, HasNode(u)
  PROVE  u \in accounts
BY DEF Existing, HasNode, Range

(* Searching a list of people that shows what it should. *)
LEMMA Searched ==
  ASSUME NEW p \in PeoplePage, NEW t \in Query,
         p.list \subseteq p.back, p.grown => p.list = p.back \cap Matches[p.query]
  PROVE  /\ Asked(p, t).back = p.back /\ Asked(p, t).list \subseteq p.back
         /\ Asked(p, t).grown => Asked(p, t).list = p.back \cap Matches[Asked(p, t).query]
<1> DEFINE g == \/ t = NoText
                \/ p.grown /\ p.loaded /\ <<p.query, t>> \in Extends
                           /\ \A u \in p.list : Named(u)
           q == Asked(p, t)
<1>1. q = [p EXCEPT !.query = t, !.list = Filtered(p, t), !.grown = g]
  BY DEF Asked
<1>2. p.back \subseteq User /\ p.query \in Query
  BY DEF PeoplePage
<1>3. ASSUME g PROVE Filtered(p, t) = p.back \cap Matches[t]
  <2>1. CASE t = NoText
    BY <1>2, <2>1, PeopleAssumption DEF Filtered
  <2>2. CASE t # NoText
    <3>1. /\ p.list = p.back \cap Matches[p.query] /\ <<p.query, t>> \in Extends
          /\ \A u \in p.list : Named(u)
      BY <1>3, <2>2
    <3>2. <<p.query, t>>[1] = p.query /\ <<p.query, t>>[2] = t
      OBVIOUS
    <3>3. Matches[t] \subseteq Matches[p.query]
      BY <3>1, <3>2, PeopleAssumption
    <3>4. Filtered(p, t) = p.list \cap Matches[t]
      BY <2>2, <3>1 DEF Filtered
    <3> QED
      BY <3>1, <3>3, <3>4
  <2> QED
    BY <2>1, <2>2
<1>4. Filtered(p, t) \subseteq p.back
  BY DEF Filtered
<1> HIDE DEF g, q
<1>5. q.back = p.back /\ q.list = Filtered(p, t) /\ q.query = t /\ q.grown = g
  BY <1>1 DEF PeoplePage
<1> QED
  BY <1>3, <1>4, <1>5 DEF q

(* Every step keeps what is said of each page. *)
LEMMA PagesStep ==
  ASSUME Shapes, Existing, Narrowed, SearchIsExact, [Next]_vars, accounts \subseteq accounts'
  PROVE  /\ Narrowed' /\ SearchIsExact'
         /\ \A k \in Homes' : stack'[k].who \in accounts' \cup {NoUser}
         /\ \A k \in Lists' : stack'[k].back \subseteq accounts'
<1>0. user \in accounts \cup {NoUser} /\ user \in User \cup {NoUser}
  BY DEF Existing, Shapes
<1>1. /\ stack \in Seq(Page) /\ stack' \in Seq(Page)
      /\ \A k \in DOMAIN stack : stack[k] \in Page
      /\ \A k \in DOMAIN stack' : stack'[k] \in Page
  BY <1>0, PageStep DEF Shapes
<1>2. ASSUME NEW k \in DOMAIN stack', stack'[k].kind = "home"
      PROVE  stack'[k].who \in accounts' \cup {NoUser}
  <2>1. CASE stack'[k] \in Fresh
    BY <1>2, <2>1 DEF Fresh, Home, Dialog, People, Receipt
  <2>2. CASE k \in DOMAIN stack /\ Turned(stack[k], stack'[k])
    <3>1. stack[k].kind = "home"
      BY <1>0, <1>1, <1>2, <2>2, TurnedPage
    <3>2. stack[k] \in HomePage /\ stack[k].who \in accounts \cup {NoUser}
      BY <1>1, <2>2, <3>1, Kinds DEF Existing, Homes
    <3>3. stack'[k].who \in {stack[k].who, user}
      BY <2>2, <3>1, <3>2 DEF Turned, HomePage
    <3> QED
      BY <1>0, <3>2, <3>3
  <2> QED
    BY <1>0, <2>1, <2>2, PageStep
<1>3. ASSUME NEW k \in DOMAIN stack', stack'[k].kind = "people"
      PROVE  /\ stack'[k].back \subseteq accounts' /\ stack'[k].list \subseteq stack'[k].back
             /\ stack'[k].grown =>
                  stack'[k].list = stack'[k].back \cap Matches[stack'[k].query]
  <2>1. CASE stack'[k] \in Fresh
    BY <1>3, <2>1 DEF Fresh, Home, Dialog, People, Receipt
  <2>2. CASE k \in DOMAIN stack /\ Turned(stack[k], stack'[k])
    <3> DEFINE p == stack[k]
               q == stack'[k]
    <3>1. p.kind = "people"
      BY <1>0, <1>1, <1>3, <2>2, TurnedPage
    <3>2. /\ p \in PeoplePage /\ p.back \subseteq accounts /\ p.list \subseteq p.back
          /\ p.grown => p.list = p.back \cap Matches[p.query]
      BY <1>1, <2>2, <3>1, Kinds DEF Existing, Narrowed, SearchIsExact, Lists
    <3>3. Turned(p, q)
      BY <2>2
    <3> HIDE DEF p, q
    <3>4. CASE q = p
      BY <3>2, <3>4 DEF q, p
    <3>5. ASSUME NEW t \in Query, q = Asked(p, t)
          PROVE  /\ q.back = p.back /\ q.list \subseteq q.back
                 /\ q.grown => q.list = q.back \cap Matches[q.query]
      BY <3>2, <3>5, Searched
    <3>6. ASSUME LET all == {u \in User : HasNode(u)}
                 IN  q = [p EXCEPT !.loaded = TRUE, !.back = all, !.list = all,
                                   !.grown = p.query = NoText]
          PROVE  /\ q.back \subseteq accounts /\ q.list \subseteq q.back
                 /\ q.grown => q.list = q.back \cap Matches[q.query]
      <4> DEFINE all == {u \in User : HasNode(u)}
                 g == p.query = NoText
      <4>1. all \subseteq accounts /\ all \subseteq User
        BY NodesExist
      <4>2. q = [p EXCEPT !.loaded = TRUE, !.back = all, !.list = all, !.grown = g]
        BY <3>6
      <4>3. g => all = all \cap Matches[p.query]
        BY <4>1, PeopleAssumption
      <4> HIDE DEF all, g
      <4>4. q.back = all /\ q.list = all /\ q.query = p.query /\ q.grown = g
        BY <3>2, <4>2 DEF PeoplePage
      <4> QED
        BY <4>1, <4>3, <4>4
    <3>7. CASE q # p
      <4>1. \/ \E t \in Query : q = Asked(p, t)
            \/ LET all == {u \in User : HasNode(u)}
               IN  q = [p EXCEPT !.loaded = TRUE, !.back = all, !.list = all,
                                 !.grown = p.query = NoText]
        BY <3>1, <3>3, <3>7 DEF Turned
      <4>2. /\ q.back \subseteq accounts /\ q.list \subseteq q.back
            /\ q.grown => q.list = q.back \cap Matches[q.query]
        BY <3>2, <3>5, <3>6, <4>1
      <4> QED
        BY <4>2 DEF q
    <3> QED
      BY <3>4, <3>7
  <2> QED
    BY <1>0, <2>1, <2>2, PageStep
<1> QED
  BY <1>2, <1>3 DEF Narrowed, SearchIsExact, Homes, Lists

(* The accounts only grow. *)
LEMMA AccountsGrow == ASSUME [Next]_vars PROVE accounts \subseteq accounts'
<1> USE DEF session
<1>1. CASE UNCHANGED vars
  BY <1>1 DEF vars
<1>2. CASE Kill
  BY <1>2 DEF Kill, AppKill
<1>3. CASE \E r \in Request : SignUpAnswer(r)
  BY <1>3 DEF SignUpAnswer
<1>4. CASE \E u \in User : Login(u) \/ Register(u)
  BY <1>4 DEF Login, Register
<1>5. CASE \E r \in Request : RequestFails(r) \/ SignInAnswer(r)
  BY <1>5 DEF RequestFails, SignInAnswer
<1>6. CASE SendMail \/ OpenHome \/ CloseChat \/ \E k \in Homes : AskUser(k) \/ ReadProfile(k)
  BY <1>6 DEF SendMail, OpenHome, CloseChat, AskUser, ReadProfile
<1>7. CASE UNCHANGED session
  BY <1>7
<1> QED
  BY <1>1, <1>2, <1>3, <1>4, <1>5, <1>6, <1>7, Steps

(* A write that is applied changes the node it is for, and no other. *)
LEMMA Committed ==
  ASSUME Shapes, CommitWrite
  PROVE  /\ outbox # <<>> /\ outbox[1] \in Write /\ outbox' = Tail(outbox)
         /\ server' = [server EXCEPT ![outbox[1].to] = Written(server[outbox[1].to], outbox[1])]
         /\ server'[outbox[1].to].photo \in {None, outbox[1].photo}
         /\ outbox[1].set = FALSE => server'[outbox[1].to].photo = outbox[1].photo
         /\ \A u \in User : u # outbox[1].to => server'[u] = server[u]
         /\ DOMAIN outbox' = 1 .. (Len(outbox) - 1) /\ 1 \in DOMAIN outbox
         /\ \A i \in DOMAIN outbox' : i + 1 \in DOMAIN outbox /\ outbox'[i] = outbox[i + 1]
<1>1. outbox \in Seq(Write) /\ outbox # <<>> /\ outbox' = Tail(outbox)
  BY DEF Shapes, CommitWrite
<1>2. /\ Head(outbox) = outbox[1] /\ outbox[1] \in Write /\ DOMAIN outbox = 1 .. Len(outbox)
      /\ Len(outbox) \in Nat /\ Len(outbox) >= 1
      /\ DOMAIN outbox' = 1 .. (Len(outbox) - 1)
      /\ \A i \in 1 .. (Len(outbox) - 1) : outbox'[i] = outbox[i + 1]
  BY <1>1, TailPlaces
<1>3. server' = [server EXCEPT ![outbox[1].to] = Written(server[outbox[1].to], outbox[1])]
  BY <1>2 DEF CommitWrite
<1>4. outbox[1].to \in User /\ server \in [User -> Node]
  BY <1>2 DEF Write, Shapes
<1>5. /\ server'[outbox[1].to] = Written(server[outbox[1].to], outbox[1])
      /\ server[outbox[1].to] \in Node
      /\ \A u \in User : u # outbox[1].to => server'[u] = server[u]
  BY <1>3, <1>4
<1>6. \A n \in Node, w \in Write : /\ Written(n, w).photo \in {None, w.photo}
                                   /\ w.set = FALSE => Written(n, w).photo = w.photo
  BY DEF Written, Node, Write
<1>7. \A i \in DOMAIN outbox' : i + 1 \in DOMAIN outbox /\ outbox'[i] = outbox[i + 1]
  BY <1>2
<1>8. 1 \in DOMAIN outbox
  BY <1>2
<1> QED
  BY <1>1, <1>2, <1>3, <1>5, <1>6, <1>7, <1>8

(* Every step keeps what names an account to accounts that exist. *)
LEMMA ExistingStep ==
  ASSUME Shapes, Existing, Narrowed, SearchIsExact, [Next]_vars
  PROVE  Existing'
<1>g. accounts \subseteq accounts'
  BY AccountsGrow
<1>p. /\ \A k \in Homes' : stack'[k].who \in accounts' \cup {NoUser}
      /\ \A k \in Lists' : stack'[k].back \subseteq accounts'
  BY <1>g, PagesStep
<1>0. /\ user \in accounts \cup {NoUser} /\ mailing \in Seq(accounts) /\ lost \subseteq accounts
      /\ \A i \in DOMAIN outbox : outbox[i].to \in accounts
      /\ \A u \in User : server[u] # NoNode => u \in accounts
  BY DEF Existing
<1>q. mailing \in Seq(accounts')
  BY <1>0, <1>g
<1>1. ASSUME UNCHANGED <<user, mailing, lost, outbox, server>> PROVE Existing'
  BY <1>0, <1>1, <1>g, <1>p, <1>q DEF Existing
<1>2. CASE PagesOnly
  BY <1>1, <1>2 DEF PagesOnly, session
<1>8. CASE Kill
  <2>1. mailing' = <<>> /\ lost' \subseteq accounts' /\ outbox' = <<>> /\ server' = server
    BY <1>8 DEF Kill, AppKill
  <2>2. user' \in accounts' \cup {NoUser}
    BY <1>0, <1>8 DEF Kill, AppKill
  <2> QED
    BY <1>0, <1>g, <1>p, <2>1, <2>2 DEF Existing
<1>9. CASE \E u \in User : Login(u) \/ Register(u)
  BY <1>1, <1>9 DEF Login, Register, phone
<1>10. CASE \E r \in Request : RequestFails(r)
  BY <1>1, <1>10 DEF RequestFails, phone
<1>11. ASSUME NEW r \in Request, SignInAnswer(r) PROVE Existing'
  BY <1>0, <1>11, <1>g, <1>p, <1>q DEF SignInAnswer, Existing
<1>12. ASSUME NEW r \in Request, SignUpAnswer(r) PROVE Existing'
  <2>1. /\ r.who \in accounts' /\ user' = r.who /\ server' = server /\ lost' = lost
        /\ mailing' = Append(mailing, r.who) /\ outbox' = Append(outbox, SetProfile(r.who))
    BY <1>12 DEF SignUpAnswer
  <2>2. SetProfile(r.who) \in Write /\ SetProfile(r.who).to = r.who
    BY DEF SetProfile, Write, Request
  <2>3. \A i \in DOMAIN outbox' : outbox'[i].to \in accounts'
    <3>1. /\ DOMAIN outbox' = 1 .. (Len(outbox) + 1) /\ Len(outbox) \in Nat
          /\ DOMAIN outbox = 1 .. Len(outbox)
          /\ \A i \in 1 .. Len(outbox) : outbox'[i] = outbox[i]
          /\ outbox'[Len(outbox) + 1] = SetProfile(r.who)
      BY <2>1, <2>2, AppendPlaces DEF Shapes
    <3> QED
      BY <1>0, <1>g, <2>1, <2>2, <3>1
  <2>4. mailing' \in Seq(accounts')
    BY <1>q, <2>1
  <2> QED
    BY <1>0, <1>g, <1>p, <2>1, <2>3, <2>4 DEF Existing
<1>13. CASE SendMail
  <2>1. mailing' \in Seq(accounts') /\ UNCHANGED <<user, lost, outbox, server>>
    BY <1>13, <1>q DEF SendMail, phone
  <2> QED
    BY <1>0, <1>g, <1>p, <2>1 DEF Existing
<1>17. CASE CloseChat
  BY <1>0, <1>17, <1>g, <1>p, <1>q DEF CloseChat, Existing, session
<1>19. CASE CommitWrite /\ UNCHANGED session
  <2>1. /\ outbox[1].to \in accounts /\ UNCHANGED <<user, mailing, lost>>
        /\ \A u \in User : server'[u] # NoNode => u \in accounts
        /\ \A i \in DOMAIN outbox' : outbox'[i].to \in accounts
    BY <1>0, <1>19, Committed DEF CommitWrite, session
  <2> QED
    BY <1>0, <1>g, <1>p, <1>q, <2>1 DEF Existing
<1>20. CASE Submit /\ UNCHANGED session
  BY <1>1, <1>20 DEF Submit, phone, session
<1>22. CASE (\E i \in DOMAIN uploads : UploadDone(i)) /\ UNCHANGED session
  BY <1>1, <1>22 DEF UploadDone, phone, session
<1>23. ASSUME NEW i \in DOMAIN urls, SendImage(i), UNCHANGED session PROVE Existing'
  <2>0. UNCHANGED <<user, mailing, lost, server>>
    BY <1>23 DEF SendImage, session
  <2>1. CASE user = NoUser
    BY <1>1, <1>23, <2>0, <2>1 DEF SendImage
  <2>2. CASE user # NoUser
    <3> DEFINE w == SetPhoto(user, urls[i])
    <3>1. w \in Write /\ w.to = user /\ outbox' = Append(outbox, w)
      BY <1>0, <1>23, <2>2 DEF SendImage, SetPhoto, Write, Shapes
    <3> HIDE DEF w
    <3>2. /\ DOMAIN outbox' = 1 .. (Len(outbox) + 1) /\ Len(outbox) \in Nat
          /\ DOMAIN outbox = 1 .. Len(outbox)
          /\ \A j \in 1 .. Len(outbox) : outbox'[j] = outbox[j]
          /\ outbox'[Len(outbox) + 1] = w
      BY <3>1, AppendPlaces DEF Shapes
    <3>3. \A j \in DOMAIN outbox' : outbox'[j].to \in accounts'
      BY <1>0, <1>g, <2>2, <3>1, <3>2
    <3> QED
      BY <1>0, <1>g, <1>p, <1>q, <2>0, <3>3 DEF Existing
  <2> QED
    BY <2>1, <2>2
<1> QED
  BY <1>2, <1>8, <1>9, <1>10, <1>11, <1>12, <1>13, <1>17, <1>19, <1>20, <1>22, <1>23, Steps, OnlyPages

(* Every step keeps the URLs to objects that are there. *)
LEMMA UrlsStep ==
  ASSUME Shapes, Existing, UrlsAreThere, [Next]_vars
  PROVE  UrlsAreThere'
<1>0. /\ \A i \in DOMAIN urls : objects[urls[i]] # None
      /\ \A i \in DOMAIN outbox : outbox[i].photo # None => objects[outbox[i].photo] # None
      /\ \A u \in User : server[u].photo # None => objects[server[u].photo] # None
  BY DEF UrlsAreThere
<1>1. ASSUME UNCHANGED <<urls, outbox, server, objects>> PROVE UrlsAreThere'
  BY <1>0, <1>1 DEF UrlsAreThere
<1>2. CASE PagesOnly
  BY <1>1, <1>2 DEF PagesOnly
<1>8. CASE Kill
  BY <1>0, <1>8 DEF Kill, AppKill, UrlsAreThere
<1>9. CASE Kept /\ \E u \in User : Login(u) \/ Register(u)
  BY <1>1, <1>9 DEF Login, Register, phone, Kept
<1>10. CASE Kept /\ \E r \in Request : RequestFails(r) \/ SignInAnswer(r)
  BY <1>1, <1>10 DEF RequestFails, SignInAnswer, phone, Kept
<1>12. ASSUME Kept, NEW r \in Request, SignUpAnswer(r) PROVE UrlsAreThere'
  <2>1. UNCHANGED <<urls, objects, server>> /\ outbox' = Append(outbox, SetProfile(r.who))
    BY <1>12 DEF SignUpAnswer, Kept
  <2>2. SetProfile(r.who) \in Write /\ SetProfile(r.who).photo = None
    BY DEF SetProfile, Write, Request
  <2>3. /\ DOMAIN outbox' = 1 .. (Len(outbox) + 1) /\ Len(outbox) \in Nat
        /\ DOMAIN outbox = 1 .. Len(outbox)
        /\ \A i \in 1 .. Len(outbox) : outbox'[i] = outbox[i]
        /\ outbox'[Len(outbox) + 1] = SetProfile(r.who)
    BY <2>1, <2>2, AppendPlaces DEF Shapes
  <2>4. \A i \in DOMAIN outbox' : outbox'[i].photo # None => objects[outbox'[i].photo] # None
    BY <1>0, <2>2, <2>3
  <2> QED
    BY <1>0, <2>1, <2>4 DEF UrlsAreThere
<1>13. CASE Kept /\ (SendMail \/ CloseChat)
  BY <1>1, <1>13 DEF SendMail, CloseChat, phone, Kept
<1>19. CASE CommitWrite /\ Kept
  <2>1. \A i \in DOMAIN outbox' : outbox'[i].photo # None => objects[outbox'[i].photo] # None
    BY <1>0, <1>19, Committed
  <2>2. \A u \in User : server'[u].photo # None => objects[server'[u].photo] # None
    BY <1>0, <1>19, Committed
  <2> QED
    BY <1>0, <1>19, <2>1, <2>2 DEF Kept, UrlsAreThere
<1>20. CASE Submit
  BY <1>1, <1>20 DEF Submit, phone
<1>22. ASSUME NEW i \in DOMAIN uploads, UploadDone(i) PROVE UrlsAreThere'
  <2> DEFINE f == uploads[i]
             n == BaseName[f]
  <2>1. f \in File /\ n \in Name /\ f # None
    BY ReceiptAssumption DEF Shapes
  <2>2. /\ objects' = [objects EXCEPT ![n] = f] /\ urls' = Append(urls, n)
        /\ UNCHANGED <<outbox, server>>
    BY <1>22 DEF UploadDone, phone
  <2> HIDE DEF f, n
  <2>3. objects'[n] # None /\ \A m \in Name : objects[m] # None => objects'[m] # None
    BY <2>1, <2>2 DEF Shapes
  <2>4. /\ DOMAIN urls' = 1 .. (Len(urls) + 1) /\ Len(urls) \in Nat
        /\ DOMAIN urls = 1 .. Len(urls) /\ \A j \in 1 .. Len(urls) : urls'[j] = urls[j]
        /\ urls'[Len(urls) + 1] = n
    BY <2>1, <2>2, AppendPlaces DEF Shapes
  <2>5. /\ \A j \in DOMAIN urls : urls[j] \in Name
        /\ \A j \in DOMAIN outbox : outbox[j].photo \in Name \cup {None}
        /\ \A u \in User : server[u].photo \in Name \cup {None}
    <3>1. \A w \in Write : w.photo \in Name \cup {None}
      BY DEF Write
    <3>2. \A d \in Node : d.photo \in Name \cup {None}
      BY DEF Node
    <3>3. /\ \A j \in DOMAIN urls : urls[j] \in Name
          /\ \A j \in DOMAIN outbox : outbox[j] \in Write
          /\ \A u \in User : server[u] \in Node
      BY DEF Shapes
    <3> QED
      BY <3>1, <3>2, <3>3
  <2>6. \A j \in DOMAIN urls' : objects'[urls'[j]] # None
    BY <1>0, <2>3, <2>4, <2>5
  <2>7. /\ \A j \in DOMAIN outbox : outbox[j].photo # None => objects'[outbox[j].photo] # None
        /\ \A u \in User : server[u].photo # None => objects'[server[u].photo] # None
    BY <1>0, <2>3, <2>5
  <2> QED
    BY <2>2, <2>6, <2>7 DEF UrlsAreThere
<1>23. ASSUME NEW i \in DOMAIN urls, SendImage(i) PROVE UrlsAreThere'
  <2>0. urls' = RemoveAt(urls, i) /\ UNCHANGED <<server, objects>> /\ urls[i] \in Name
    BY <1>23 DEF SendImage, Shapes
  <2>1. \A j \in DOMAIN urls' : \E l \in DOMAIN urls : urls'[j] = urls[l]
    BY <2>0, RemovedPlaces DEF Shapes
  <2>2. CASE outbox' = outbox
    BY <1>0, <2>0, <2>1, <2>2 DEF UrlsAreThere
  <2>3. CASE outbox' # outbox
    <3> DEFINE w == SetPhoto(user, urls[i])
    <3>1. w \in Write /\ w.photo = urls[i] /\ outbox' = Append(outbox, w)
      BY <1>23, <2>0, <2>3 DEF SendImage, SetPhoto, Write, Shapes, Existing
    <3> HIDE DEF w
    <3>2. /\ DOMAIN outbox' = 1 .. (Len(outbox) + 1) /\ Len(outbox) \in Nat
          /\ DOMAIN outbox = 1 .. Len(outbox)
          /\ \A j \in 1 .. Len(outbox) : outbox'[j] = outbox[j]
          /\ outbox'[Len(outbox) + 1] = w
      BY <3>1, AppendPlaces DEF Shapes
    <3>3. \A j \in DOMAIN outbox' : outbox'[j].photo # None => objects[outbox'[j].photo] # None
      BY <1>0, <3>1, <3>2
    <3> QED
      BY <1>0, <2>0, <2>1, <3>3 DEF UrlsAreThere
  <2> QED
    BY <2>2, <2>3
<1> QED
  BY <1>2, <1>8, <1>9, <1>10, <1>12, <1>13, <1>19, <1>20, <1>22, <1>23, Steps, OnlyPages

(* Every step keeps what follows a press with nothing under way. *)
LEMMA OneStep ==
  ASSUME Shapes, Existing, OneAtATime, [Next]_vars
  PROVE  OneAtATime'
<1>0. /\ user \in accounts \cup {NoUser} /\ user \in User \cup {NoUser} /\ NoUser \notin User
      /\ stack \in Seq(Page) /\ requests \in [Request -> Nat] /\ mailing \in Seq(accounts)
  BY PhoneAssumption DEF Existing, Shapes
<1>f. stack = <<>> => Homes = {}
  BY DEF Homes
<1>1. ASSUME UNCHANGED <<user, stack, requests, mailing, calm>> PROVE OneAtATime'
  BY <1>1 DEF OneAtATime, Pending, Homes
<1>2. ASSUME ~calm, calm' = calm PROVE OneAtATime'
  BY <1>2 DEF OneAtATime
(* A page opened on, or put in place of, a page other than the dialog. *)
<1>3. ASSUME UNCHANGED <<user, requests, mailing, calm>>, stack # <<>>,
             \E k \in DOMAIN stack : stack[k] # Dialog,
             \A k \in DOMAIN stack' : stack'[k].kind = "home" =>
               \/ stack'[k].who \in {NoUser, user} /\ Homes # {}
               \/ k \in Homes /\ stack'[k].who \in {stack[k].who, user}
      PROVE  OneAtATime'
  BY <1>3 DEF OneAtATime, Pending, Homes
<1>4. CASE UNCHANGED vars
  BY <1>1, <1>4 DEF vars, phone, session
<1>5. CASE Kill
  <2>1. calm' = TRUE /\ stack' = <<>> /\ mailing' = <<>> /\ requests' = [r \in Request |-> 0]
    BY <1>5 DEF Kill, AppKill
  <2> QED
    BY <2>1 DEF OneAtATime, Pending, Homes
<1>6. ASSUME NEW u \in User, Login(u) \/ Register(u) PROVE OneAtATime'
  <2>1. PICK r \in Request : requests' = Made(r)
    BY <1>6 DEF Login, Register, Request
  <2>2. stack = <<>> /\ UNCHANGED <<user, stack, mailing>> /\ calm' = ~UnderWay
    BY <1>6 DEF Login, Register, OnLogin, phone
  <2>3. SUFFICES ASSUME ~UnderWay PROVE OneAtATime'
    BY <2>2 DEF OneAtATime
  <2>4. mailing = <<>> /\ \A q \in Request : requests[q] = 0
    BY <1>0, <2>3 DEF UnderWay, Pending
  <2>5. \A q \in Request : requests'[q] = IF q = r THEN 1 ELSE 0
    BY <1>0, <2>1, <2>4 DEF Made
  <2> QED
    BY <2>2, <2>4, <2>5 DEF OneAtATime, Pending, Homes
<1>7. ASSUME NEW r \in Request, RequestFails(r) PROVE OneAtATime'
  <2>1. /\ Pending(r) /\ requests' = Answered(r) /\ UNCHANGED <<user, stack, mailing, calm>>
    BY <1>7 DEF RequestFails, phone
  <2>2. \A q \in Request : requests'[q] = (IF q = r THEN requests[q] - 1 ELSE requests[q])
    BY <1>0, <2>1 DEF Answered
  <2>3. \A q \in Request : requests'[q] <= requests[q]
    BY <1>0, <2>2
  <2>4. \A q \in Request : Pending(q)' => Pending(q)
    BY <1>0, <2>1, <2>2 DEF Pending
  <2>5. requests' \in [Request -> Nat]
    BY <1>0, <2>1 DEF Answered, Pending
  <2>6. Homes' = Homes
    BY <2>1 DEF Homes
  <2>7. calm => \A q \in Request : requests'[q] <= 1
    BY <1>0, <2>3, <2>5 DEF OneAtATime
  <2> QED
    BY <2>1, <2>4, <2>6, <2>7 DEF OneAtATime
<1>8. ASSUME NEW r \in Request, SignInAnswer(r) \/ SignUpAnswer(r) PROVE OneAtATime'
  <2>1. /\ Pending(r) /\ requests' = Answered(r) /\ user' = r.who /\ calm' = calm
        /\ r.who \in User
    BY <1>8 DEF SignInAnswer, SignUpAnswer, Request
  <2>2. SUFFICES ASSUME calm PROVE OneAtATime'
    BY <1>2, <2>1
  <2>3. stack = <<>> /\ mailing = <<>> /\ requests[r] = 1
    BY <1>0, <2>1, <2>2 DEF OneAtATime, Pending
  <2>4. \A q \in Request : q # r => requests[q] = 0
    BY <1>0, <2>1, <2>2 DEF OneAtATime, Pending
  <2>5. \A q \in Request : requests'[q] = 0
    BY <1>0, <2>1, <2>3, <2>4 DEF Answered
  <2>6. CASE SignInAnswer(r)
    <3>1. stack' = <<Home>> /\ mailing' = <<>>
      BY <2>3, <2>6 DEF SignInAnswer, Push
    <3>2. stack'[1].who = NoUser /\ DOMAIN stack' = {1}
      BY <3>1 DEF Home
    <3> QED
      BY <1>0, <2>1, <2>5, <3>1, <3>2 DEF OneAtATime, Pending, Homes
  <2>7. CASE SignUpAnswer(r)
    <3>1. stack' = <<Dialog>> /\ mailing' = <<r.who>>
      BY <2>3, <2>7 DEF SignUpAnswer, Push
    <3>2. stack'[1].kind # "home" /\ stack'[1] = Dialog /\ DOMAIN stack' = {1}
      BY <3>1 DEF Dialog
    <3>3. Len(mailing') = 1 /\ mailing'[1] = r.who
      BY <3>1
    <3> QED
      BY <1>0, <2>1, <2>5, <3>1, <3>2, <3>3 DEF OneAtATime, Pending, Homes
  <2> QED
    BY <1>8, <2>6, <2>7
<1>9. CASE SendMail
  <2>1. mailing # <<>> /\ mailing' = Tail(mailing) /\ UNCHANGED <<user, stack, requests, calm>>
    BY <1>9 DEF SendMail, phone
  <2>2. SUFFICES ASSUME calm PROVE OneAtATime'
    BY <1>2, <2>1
  <2>3. Len(mailing) = 1 /\ Len(Tail(mailing)) = 0 /\ Tail(mailing) \in Seq(accounts)
    BY <1>0, <2>1, <2>2, TailPlaces DEF OneAtATime
  <2>4. mailing' = <<>>
    BY <2>1, <2>3
  <2> QED
    BY <2>1, <2>4 DEF OneAtATime, Pending, Homes
<1>10. CASE CloseChat
  <2>1. /\ stack # <<>> /\ Last(stack).kind = "people" /\ stack' = <<>>
        /\ UNCHANGED <<requests, mailing, calm>>
    BY <1>10 DEF CloseChat, OnTop, session
  <2>2. \E k \in DOMAIN stack : stack[k] # Dialog
    BY <1>0, <2>1, FrontPlaces, Kinds
  <2>3. calm => mailing = <<>>
    BY <2>2 DEF OneAtATime
  <2> QED
    BY <2>1, <2>3 DEF OneAtATime, Pending, Homes
<1>11. CASE Back /\ UNCHANGED session
  <2>1. stack # <<>> /\ stack' = Front(stack) /\ UNCHANGED <<user, requests, mailing, calm>>
    BY <1>11 DEF Back, session
  <2>2. \A k \in DOMAIN stack' : k \in DOMAIN stack /\ stack'[k] = stack[k]
    <3>1. /\ DOMAIN stack' = 1 .. (Len(stack) - 1) /\ DOMAIN stack = 1 .. Len(stack)
          /\ Len(stack) \in Nat /\ \A k \in 1 .. (Len(stack) - 1) : stack'[k] = stack[k]
      BY <1>0, <2>1, FrontPlaces
    <3> QED
      BY <3>1
  <2>3. calm => ~\E r \in Request : Pending(r)
    BY <2>1 DEF OneAtATime
  <2> QED
    BY <2>1, <2>2, <2>3 DEF OneAtATime, Pending, Homes
<1>12. ASSUME OpenHome \/ (UNCHANGED session /\ (OpenReceipt \/ OpenPeople)) PROVE OneAtATime'
  <2>1. /\ stack # <<>> /\ Last(stack).kind = "home"
        /\ UNCHANGED <<user, requests, mailing, calm>>
    BY <1>12 DEF OpenHome, OpenReceipt, OpenPeople, OnHome, OnTop, session
  <2>2. PICK e \in {Home, Receipt(None), People} : stack' = Append(stack, e)
    BY <1>12 DEF OpenHome, OpenReceipt, OpenPeople, Push
  <2>3. e \in Page /\ (e.kind = "home" => e.who = NoUser)
    BY <2>2, FreshPages DEF Fresh, Home, Receipt, People
  <2>4. /\ DOMAIN stack' = 1 .. (Len(stack) + 1) /\ Len(stack) \in Nat
        /\ DOMAIN stack = 1 .. Len(stack) /\ \A k \in 1 .. Len(stack) : stack'[k] = stack[k]
        /\ stack'[Len(stack) + 1] = e
    BY <1>0, <2>2, <2>3, AppendPlaces
  <2>5. Homes # {} /\ \E k \in DOMAIN stack : stack[k] # Dialog
    <3>0. Len(stack) \in Nat /\ Len(stack) >= 1 /\ DOMAIN stack = 1 .. Len(stack)
      BY <1>0, <2>1, FrontPlaces
    <3>1. Len(stack) \in DOMAIN stack /\ stack[Len(stack)].kind = "home"
      BY <2>1, <3>0 DEF Last
    <3>2. stack[Len(stack)] # Dialog
      BY <3>1, Kinds
    <3> QED
      BY <3>1, <3>2 DEF Homes
  <2>6. ASSUME NEW k \in DOMAIN stack', stack'[k].kind = "home"
        PROVE  \/ stack'[k].who \in {NoUser, user} /\ Homes # {}
               \/ k \in Homes /\ stack'[k].who \in {stack[k].who, user}
    BY <2>3, <2>4, <2>5, <2>6 DEF Homes
  <2> QED
    BY <1>3, <2>1, <2>5, <2>6
<1>13. ASSUME NEW k \in Homes, AskUser(k) \/ ReadProfile(k) PROVE OneAtATime'
  <2>1. /\ k \in DOMAIN stack /\ stack[k].kind = "home" /\ stack[k] \in HomePage /\ stack # <<>>
        /\ UNCHANGED <<user, requests, mailing, calm>>
    BY <1>0, <1>13, Kinds DEF Homes, AskUser, ReadProfile, session
  <2>2. /\ DOMAIN stack' = DOMAIN stack /\ \A i \in DOMAIN stack : i # k => stack'[i] = stack[i]
        /\ stack'[k].who \in {stack[k].who, user}
    BY <1>0, <1>13, <2>1 DEF AskUser, ReadProfile, HomePage
  <2>3. stack[k] # Dialog
    BY <2>1, Kinds
  <2> QED
    BY <1>3, <2>1, <2>2, <2>3 DEF Homes
<1>14. ASSUME NEW k \in Lists, Load(k), UNCHANGED session PROVE OneAtATime'
  <2>1. /\ k \in DOMAIN stack /\ stack[k].kind = "people" /\ stack[k] \in PeoplePage
        /\ stack # <<>> /\ UNCHANGED <<user, requests, mailing, calm>>
    <3>1. k \in DOMAIN stack /\ stack[k].kind = "people" /\ stack # <<>>
      BY DEF Lists
    <3>2. stack[k] \in PeoplePage
      BY <1>0, <3>1, Kinds
    <3>3. UNCHANGED <<user, requests, mailing, calm>>
      BY <1>14 DEF Load, session
    <3> QED
      BY <3>1, <3>2, <3>3
  <2>2. /\ DOMAIN stack' = DOMAIN stack /\ \A i \in DOMAIN stack : i # k => stack'[i] = stack[i]
        /\ stack'[k].kind = "people"
    BY <1>0, <1>14, <2>1 DEF Load, PeoplePage
  <2>3. stack[k] # Dialog
    BY <2>1, Kinds
  <2> QED
    BY <1>3, <2>1, <2>2, <2>3 DEF Homes
<1>15. ASSUME NEW e \in Page, e.kind # "home", stack # <<>>, stack' = Append(Front(stack), e),
              Last(stack).kind \in {"people", "receipt"},
              UNCHANGED <<user, requests, mailing, calm>>
       PROVE  OneAtATime'
  <2>2. \A s \in Seq(Page), x \in Page : s # <<>> =>
          /\ DOMAIN Append(Front(s), x) = DOMAIN s
          /\ Append(Front(s), x)[Len(s)] = x /\ Len(s) \in DOMAIN s
          /\ \A i \in DOMAIN s \ {Len(s)} : Append(Front(s), x)[i] = s[i]
    BY TopReplaced
  <2>1. DOMAIN stack' = DOMAIN stack /\ stack'[Len(stack)] = e /\ Len(stack) \in DOMAIN stack
    BY <1>0, <1>15, <2>2, Zenon
  <2>3. \A i \in DOMAIN stack \ {Len(stack)} : stack'[i] = stack[i]
    BY <1>0, <1>15, <2>2, Zenon
  <2>4. stack[Len(stack)] # Dialog
    BY <1>15, Kinds DEF Last
  <2> QED
    BY <1>3, <1>15, <2>1, <2>3, <2>4 DEF Homes
<1>16. ASSUME NEW f \in File \cup {None}, CaptureImage(f), UNCHANGED session PROVE OneAtATime'
  <2>1. Receipt(f) \in Page /\ Receipt(f).kind # "home"
    BY FreshPages DEF Fresh, Receipt
  <2> QED
    BY <1>15, <1>16, <2>1 DEF CaptureImage, OnTop, session
<1>17. ASSUME NEW q \in Query, Fillout(q), UNCHANGED session PROVE OneAtATime'
  <2>1. /\ stack # <<>> /\ Last(stack).kind = "people"
        /\ stack' = Append(Front(stack), Asked(Last(stack), q))
        /\ UNCHANGED <<user, requests, mailing, calm>>
    BY <1>17 DEF Fillout, OnTop, Asked, session
  <2>2. Last(stack) \in Page
    BY <1>0, <2>1, FrontPlaces
  <2>3. Turned(Last(stack), Asked(Last(stack), q))
    BY <2>1 DEF Turned
  <2>4. Asked(Last(stack), q) \in Page /\ Asked(Last(stack), q).kind # "home"
    BY <1>0, <2>1, <2>2, <2>3, TurnedPage
  <2> QED
    BY <1>15, <2>1, <2>4
<1>18. CASE /\ UNCHANGED session
            /\ \/ CommitWrite \/ Submit \/ (\E i \in DOMAIN uploads : UploadDone(i))
               \/ (\E i \in DOMAIN urls : SendImage(i))
  BY <1>1, <1>18 DEF CommitWrite, Submit, UploadDone, SendImage, session, phone
<1> QED
  BY <1>4, <1>5, <1>6, <1>7, <1>8, <1>9, <1>10, <1>11, <1>12, <1>13, <1>14, <1>16, <1>17,
     <1>18, Steps DEF session

(* Every step keeps the expected image on its way. *)
LEMMA WayStep ==
  ASSUME Shapes, Existing, OnItsWay, [Next]_vars
  PROVE  OnItsWay'
<1>0. /\ user \in accounts \cup {NoUser} /\ NoUser \notin User /\ accounts \subseteq User
      /\ expected \in File \cup {None} /\ (expected # None => BaseName[expected] \in Name)
      /\ outbox \in Seq(Write) /\ urls \in Seq(Name) /\ uploads \in Seq(File)
      /\ objects \in [Name -> File \cup {None}] /\ None \notin Name /\ None \notin File
  BY PhoneAssumption, ReceiptAssumption DEF Existing, Shapes
<1>1. ASSUME UNCHANGED <<user, uploads, urls, objects, outbox, server, expected>>
      PROVE  OnItsWay'
  BY <1>1 DEF OnItsWay
<1>2. CASE PagesOnly /\ expected' = expected
  BY <1>1, <1>2 DEF PagesOnly
<1>3. CASE expected' = None
  BY <1>3 DEF OnItsWay
<1>4. CASE Kill
  BY <1>3, <1>4 DEF Kill
<1>5. CASE Kept /\ \E u \in User : Login(u) \/ Register(u)
  BY <1>1, <1>5 DEF Login, Register, phone, Kept
<1>6. CASE Kept /\ \E r \in Request : RequestFails(r) \/ SignInAnswer(r)
  BY <1>1, <1>3, <1>6 DEF RequestFails, SignInAnswer, phone, Kept
<1>7. ASSUME NEW r \in Request, SignUpAnswer(r), Kept PROVE OnItsWay'
  <2>1. user' # user
    BY <1>0, <1>7, PhoneAssumption DEF SignUpAnswer, Request
  <2> QED
    BY <1>3, <1>7, <2>1 DEF Kept
<1>8. CASE Kept /\ SendMail
  BY <1>1, <1>8 DEF SendMail, phone, Kept
<1>9. CASE Kept /\ CloseChat
  BY <1>3, <1>9 DEF CloseChat, Kept
<1>10. CASE Kept /\ CommitWrite
  <2>1. UNCHANGED <<user, uploads, urls, objects, expected>>
    BY <1>10 DEF CommitWrite, Kept
  <2>2. SUFFICES ASSUME expected # None, uploads = <<>>, urls = <<>>,
                        objects[BaseName[expected]] = expected, user # NoUser,
                        outbox[Len(outbox)] = SetPhoto(user, BaseName[expected])
                 PROVE  \/ /\ outbox' # <<>>
                           /\ outbox'[Len(outbox')] = SetPhoto(user, BaseName[expected])
                        \/ outbox' = <<>> /\ server'[user].photo = BaseName[expected]
    BY <1>10, <2>1 DEF OnItsWay, CommitWrite
  <2>3. /\ outbox # <<>> /\ outbox' = Tail(outbox) /\ Len(outbox) \in Nat /\ Len(outbox) >= 1
        /\ Len(outbox') = Len(outbox) - 1 /\ outbox' \in Seq(Write)
        /\ \A i \in 1 .. (Len(outbox) - 1) : outbox'[i] = outbox[i + 1]
    <3>1. outbox # <<>> /\ outbox' = Tail(outbox)
      BY <1>10 DEF CommitWrite
    <3> QED
      BY <1>0, <3>1, TailPlaces
  <2>4. CASE Len(outbox) = 1
    <3>1. outbox' = <<>>
      BY <2>3, <2>4
    <3>2. outbox[1] = SetPhoto(user, BaseName[expected])
      BY <2>2, <2>4
    <3>3. outbox[1].to = user /\ outbox[1].set = FALSE /\ outbox[1].photo = BaseName[expected]
      BY <3>2 DEF SetPhoto
    <3> QED
      BY <1>10, <3>1, <3>3, Committed
  <2>5. CASE Len(outbox) # 1
    <3>1. Len(outbox') \in 1 .. (Len(outbox) - 1) /\ Len(outbox') + 1 = Len(outbox)
      BY <2>3, <2>5
    <3>2. outbox'[Len(outbox')] = outbox[Len(outbox)]
      BY <2>3, <3>1
    <3>3. Len(outbox') # 0 /\ Len(<<>>) = 0
      BY <3>1
    <3> QED
      BY <2>2, <3>2, <3>3
  <2> QED
    BY <2>4, <2>5
<1>11. CASE Submit
  <2>1. PICK f : /\ f # None /\ uploads' = Append(uploads, f)
                 /\ expected' = IF uploads = <<>> /\ urls = <<>> /\ user # NoUser THEN f ELSE None
                 /\ UNCHANGED <<user, urls>>
    BY <1>11 DEF Submit, phone
  <2>2. CASE uploads = <<>> /\ urls = <<>> /\ user # NoUser
    BY <2>1, <2>2 DEF OnItsWay
  <2>3. CASE ~(uploads = <<>> /\ urls = <<>> /\ user # NoUser)
    BY <1>3, <2>1, <2>3
  <2> QED
    BY <2>2, <2>3
<1>12. ASSUME NEW i \in DOMAIN uploads, UploadDone(i) PROVE OnItsWay'
  <2>1. /\ objects' = [objects EXCEPT ![BaseName[uploads[i]]] = uploads[i]]
        /\ urls' = Append(urls, BaseName[uploads[i]]) /\ uploads' = RemoveAt(uploads, i)
        /\ UNCHANGED <<user, outbox, server, expected>>
    BY <1>12 DEF UploadDone, phone
  <2>2. SUFFICES ASSUME expected # None
                 PROVE  /\ user # NoUser /\ uploads' = <<>> /\ urls' = <<BaseName[expected]>>
                        /\ objects'[BaseName[expected]] = expected
    BY <2>1 DEF OnItsWay
  <2>3. uploads # <<>>
    BY <1>12
  <2>4. user # NoUser /\ uploads = <<expected>> /\ urls = <<>>
    BY <2>2, <2>3 DEF OnItsWay
  <2>5. i = 1 /\ uploads[i] = expected /\ Len(uploads) = 1
    BY <1>12, <2>4
  <2>6. uploads' = <<>>
    BY <1>0, <2>1, <2>5, RemovedPlaces
  <2> QED
    BY <1>0, <2>1, <2>2, <2>4, <2>5, <2>6
<1>13. ASSUME NEW i \in DOMAIN urls, SendImage(i) PROVE OnItsWay'
  <2>1. /\ outbox' = IF user = NoUser THEN outbox ELSE Append(outbox, SetPhoto(user, urls[i]))
        /\ urls' = RemoveAt(urls, i) /\ UNCHANGED <<user, server, uploads, objects, expected>>
    BY <1>13 DEF SendImage
  <2>2. SUFFICES ASSUME expected # None
                 PROVE  /\ user # NoUser /\ uploads' = <<>> /\ urls' = <<>>
                        /\ objects'[BaseName[expected]] = expected /\ outbox' # <<>>
                        /\ outbox'[Len(outbox')] = SetPhoto(user, BaseName[expected])
    BY <2>1 DEF OnItsWay
  <2>3. urls # <<>>
    BY <1>13
  <2>4. /\ user # NoUser /\ uploads = <<>> /\ urls = <<BaseName[expected]>>
        /\ objects[BaseName[expected]] = expected
    BY <2>2, <2>3 DEF OnItsWay
  <2>5. i = 1 /\ urls[i] = BaseName[expected] /\ Len(urls) = 1
    BY <1>13, <2>4
  <2>6. urls' = <<>>
    BY <1>0, <2>1, <2>5, RemovedPlaces
  <2> DEFINE w == SetPhoto(user, BaseName[expected])
  <2>7. w \in Write
    BY <1>0, <2>2, <2>4 DEF SetPhoto, Write
  <2>8. outbox' = Append(outbox, w)
    BY <2>1, <2>4, <2>5
  <2> HIDE DEF w
  <2>9. outbox' # <<>> /\ outbox'[Len(outbox')] = w
    BY <1>0, <2>7, <2>8, AppendPlaces
  <2> QED
    BY <2>1, <2>4, <2>6, <2>9 DEF w
<1> QED
  BY <1>2, <1>4, <1>5, <1>6, <1>7, <1>8, <1>9, <1>10, <1>11, <1>12, <1>13, Steps, OnlyPages

-----------------------------------------------------------------------------
(* The invariant says what the run checks. *)
LEMMA ShellSafe ==
  ShellInv => /\ TypeOK /\ ListedHaveAccounts /\ SearchIsExact /\ NoDangling
              /\ HomeIsCurrent /\ HomeNeedsUser /\ MailIsForNew /\ PhotoIsLast
<1> SUFFICES ASSUME ShellInv
             PROVE  /\ TypeOK /\ ListedHaveAccounts /\ SearchIsExact /\ NoDangling
                    /\ HomeIsCurrent /\ HomeNeedsUser /\ MailIsForNew /\ PhotoIsLast
  OBVIOUS
<1>0. Shapes /\ Existing /\ Narrowed /\ SearchIsExact /\ UrlsAreThere /\ OneAtATime /\ OnItsWay
  BY DEF ShellInv
<1>1. \A k \in DOMAIN stack : stack[k] \in Page
  BY <1>0 DEF Shapes
<1>2. TypeOK
  <2>1. SessionTypeOK
    <3>1. \A k \in Homes : stack[k].at \in {"asking", "reading", "shown", "blank"}
      <4> SUFFICES ASSUME NEW k \in Homes
                   PROVE  stack[k].at \in {"asking", "reading", "shown", "blank"}
        OBVIOUS
      <4>1. stack[k] \in HomePage
        BY <1>1, Kinds DEF Homes
      <4> QED
        BY <4>1 DEF HomePage
    <3> QED
      BY <1>0, <3>1 DEF SessionTypeOK, Shapes, Existing
  <2>2. ReceiptTypeOK
    <3>1. \A p \in ReceiptPage : p.image \in File \cup {None}
      BY DEF ReceiptPage
    <3> QED
      BY <1>0, <1>1, <3>1, Kinds DEF ReceiptTypeOK, Shapes
  <2>3. PeopleTypeOK
    <3> SUFFICES ASSUME NEW k \in Lists
                 PROVE  /\ stack[k].loaded \in BOOLEAN /\ stack[k].grown \in BOOLEAN
                        /\ stack[k].back \subseteq User /\ stack[k].list \subseteq stack[k].back
                        /\ stack[k].query \in Query
      BY DEF PeopleTypeOK
    <3>1. stack[k] \in PeoplePage
      BY <1>1, Kinds DEF Lists
    <3>2. /\ stack[k].loaded \in BOOLEAN /\ stack[k].grown \in BOOLEAN
          /\ stack[k].back \subseteq User /\ stack[k].query \in Query
      BY <3>1 DEF PeoplePage
    <3> QED
      BY <1>0, <3>2 DEF Narrowed
  <2> QED
    BY <2>1, <2>2, <2>3 DEF TypeOK
<1>3. ListedHaveAccounts
  BY <1>0, NodesExist DEF ListedHaveAccounts, Existing
<1>4. NoDangling
  <2>1. ASSUME NEW n \in Name, NEW u \in User, server[u].photo = n PROVE objects[n] # None
    BY <1>0, <2>1, PhoneAssumption DEF UrlsAreThere
  <2>2. ASSUME NEW n \in Name, NEW w \in Range(outbox), w.photo = n PROVE objects[n] # None
    <3>1. PICK i \in DOMAIN outbox : w = outbox[i]
      BY DEF Range
    <3> QED
      BY <1>0, <2>2, <3>1, PhoneAssumption DEF UrlsAreThere
  <2> QED
    BY <2>1, <2>2 DEF NoDangling
<1>5. HomeIsCurrent /\ HomeNeedsUser
  BY <1>0 DEF OneAtATime, HomeIsCurrent, HomeNeedsUser
<1>6. MailIsForNew
  <2>1. mailing # <<>> => Head(mailing) = mailing[1]
    BY <1>0, TailPlaces DEF Existing
  <2> QED
    BY <1>0, <2>1 DEF OneAtATime, MailIsForNew
<1>7. PhotoIsLast
  <2> SUFFICES ASSUME expected # None, uploads = <<>>, urls = <<>>, outbox = <<>>
               PROVE  PhotoIs(user, expected)
    BY DEF PhotoIsLast
  <2>1. /\ objects[BaseName[expected]] = expected /\ server[user].photo = BaseName[expected]
        /\ expected \in File
    BY <1>0 DEF OnItsWay, Shapes
  <2>2. BaseName[expected] # None
    BY <2>1, ReceiptAssumption, PhoneAssumption
  <2> QED
    BY <2>1, <2>2 DEF PhotoIs
<1> QED
  BY <1>0, <1>2, <1>3, <1>4, <1>5, <1>6, <1>7

(* The invariant is kept by every step. *)
LEMMA NextShell == ShellInv /\ [Next]_vars => ShellInv'
BY ShapesStep, ExistingStep, PagesStep, AccountsGrow, UrlsStep, OneStep, WayStep DEF ShellInv

(* In every state of every behaviour of the application's shell. *)
THEOREM ShellInvariant == Spec => []ShellInv
<1>1. ShellInv /\ UNCHANGED vars => ShellInv'
  BY NextShell
<1> QED
  BY InitShell, NextShell, <1>1, PTL DEF Spec

(* Every variable, and every field of every page, has its type; only       *)
(* accounts that exist are signed in, shown on a home page or mailed.      *)
THEOREM ShellTypeCorrect == Spec => []TypeOK
BY ShellInvariant, ShellSafe, PTL

(* However requests, sign-outs, deaths of the process and writes come      *)
(* after each other, nobody is listed who has no account                   *)
(* (choicechat.dart reads users/, which signUp and the receipt page write  *)
(* without being awaited).                                                 *)
THEOREM EverybodyListedExists == Spec => []ListedHaveAccounts
BY ShellInvariant, ShellSafe, PTL

(* fillout narrows the list it shows, not the whole: while the text has    *)
(* only grown since the list was whole, that is the same.                  *)
THEOREM GrowingSearchIsExact == Spec => []SearchIsExact
BY ShellInvariant, ShellSafe, PTL

(* The receipt page writes a URL only when the object is stored, so no     *)
(* photo of any account, now or once the writes arrive, leads nowhere.     *)
THEOREM PhotosAreThere == Spec => []NoDangling
BY ShellInvariant, ShellSafe, PTL

(* Login, registration and sign-out: with one press at a time every home   *)
(* page is that of the account that is signed in ...                       *)
THEOREM HomeIsOfTheUser == Spec => []HomeIsCurrent
BY ShellInvariant, ShellSafe, PTL

(* ... there is none of nobody, as the chat page's sign-out takes every    *)
(* page with it ...                                                        *)
THEOREM NoHomeOfNobody == Spec => []HomeNeedsUser
BY ShellInvariant, ShellSafe, PTL

(* ... and the verification mail is asked for the account just made, even  *)
(* though it asks for the current user again.                              *)
THEOREM MailReachesTheNew == Spec => []MailIsForNew
BY ShellInvariant, ShellSafe, PTL

(* An image submitted with none of the device's still on its way is, once  *)
(* everything has arrived, the photo of the account that submitted it.     *)
THEOREM LastPhotoIsShown == Spec => []PhotoIsLast
BY ShellInvariant, ShellSafe, PTL

=============================================================================
