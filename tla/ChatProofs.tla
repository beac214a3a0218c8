----------------------------- MODULE ChatProofs -----------------------------
(***************************************************************************)
(* Theorems about Chat, for any accounts, addresses and bounds.            *)
(*                                                                         *)
(* NoLeak is not inductive: it speaks of the pages that are open now, and  *)
(* a page may be opened on messages sent long before.  What is kept is     *)
(* that every message, stored or under way, carries the key of its sender  *)
(* and of the person its page was about.                                   *)
(*                                                                         *)
(* ConversationIsExact speaks of pages that are up to date.  What is kept  *)
(* at all times is that an account's stored messages followed by those     *)
(* under way are, one by one, what it pressed for.  SentOnce and           *)
(* ClearedIsStored rest on what a user who waits can do: while a message   *)
(* is awaited the field still holds its text, and nothing else happens to  *)
(* the field before it is cleared.                                         *)
(***************************************************************************)
EXTENDS Chat, ListFacts

(* Messages that carry the key of the conversation they were written in. *)
Keyed == {m \in Message : m.to = Key(m.from, m.for)}

(* Every message that can still be read was written with its key. *)
KeyInv == log \in Seq(Keyed) /\ pending \in [Device -> Seq(Keyed)]

(* The message a press leads to, and those that all presses lead to. *)
Letter(u, p) == [from |-> u, to |-> Key(u, p.for), text |-> p.text, for |-> p.for]
Letters(u, s) == [i \in DOMAIN s |-> Letter(u, s[i])]

(* Stored messages and those under way are what was pressed for. *)
AllIsPosted ==
  \A u \in Device : /\ pending[u] \in Seq(MessagesOf(u))
                    /\ From(log, u) \o pending[u] = Letters(u, pressed[u])

(* A user who waits has not yet sent the text in the field, or is waiting: *)
(* f is the text in the field, w the last one written, s what was pressed  *)
(* on, and n how much is awaited.                                          *)
New(f, w, s, n) ==
  /\ f <= w
  /\ \A i \in DOMAIN s : s[i].text <= w
  /\ \A i, j \in DOMAIN s : s[i].text = s[j].text => i = j
  /\ f # 0 /\ n = 0 => \A i \in DOMAIN s : s[i].text # f

TextsAreNew ==
  \A u \in Patient : New(field[u], written[u], pressed[u], waits[u] + acks[u])

(* What such a user waits for is the text in the field, first on its way   *)
(* and then stored.                                                        *)
FieldIsAwaited ==
  \A u \in Patient :
    /\ waits[u] + acks[u] <= 1
    /\ waits[u] > 0 => pending[u][Len(pending[u])].text = field[u]
    /\ acks[u] > 0 => \E i \in DOMAIN log : log[i].from = u /\ log[i].text = field[u]

ChatInv == TypeOK /\ KeyInv /\ AllIsPosted /\ TextsAreNew /\ FieldIsAwaited

-----------------------------------------------------------------------------
(* Lengths and counters are numbers. *)
LEMMA Numbers ==
  ASSUME TypeOK, NEW x \in Device
  PROVE  /\ waits[x] \in Nat /\ acks[x] \in Nat /\ seen[x] \in Nat
         /\ pending[x] \in Seq(Message) /\ Len(pending[x]) \in Nat /\ Len(log) \in Nat
         /\ seen[x] <= Len(log) /\ waits[x] <= Len(pending[x])
BY DEF TypeOK

(* Initially there are no messages and no pages. *)
LEMMA InitInv == Init => TypeOK /\ KeyInv
BY ChatAssumption DEF Init, TypeOK, KeyInv

(* What is gone with a page keeps the types. *)
LEMMA GoneType ==
  ASSUME TypeOK, NEW u \in Device, Gone(u)
  PROVE  /\ page' \in [Device -> User \cup {None}] /\ field' \in [Device -> Nat]
         /\ waits' \in [Device -> Nat] /\ acks' \in [Device -> Nat]
         /\ \A x \in Device : waits'[x] <= waits[x]
BY DEF TypeOK, Gone

(* The message a press adds carries its key. *)
LEMMA PressedIsKeyed ==
  ASSUME TypeOK, NEW u \in Device, page[u] # None, field[u] # 0
  PROVE  /\ [from |-> u, to |-> Key(u, page[u]), text |-> field[u], for |-> page[u]] \in Keyed
         /\ [text |-> field[u], for |-> page[u]] \in Sent
<1>1. u \in User /\ page[u] \in User /\ field[u] \in Nat \ {0}
  BY ChatAssumption DEF TypeOK
<1> QED
  BY <1>1 DEF Keyed, Message, Sent

(* Every step keeps the types and the keys. *)
LEMMA NextInv == TypeOK /\ KeyInv /\ [Next]_vars => TypeOK' /\ KeyInv'
<1> SUFFICES ASSUME TypeOK, KeyInv, [Next]_vars
             PROVE  TypeOK' /\ KeyInv'
  OBVIOUS
<1>0. Keyed \subseteq Message
  BY DEF Keyed
<1>1. CASE UNCHANGED vars
  BY <1>1 DEF vars, here, TypeOK, KeyInv
<1>2. CASE Next
  <2> PICK u \in Device :
        \/ SignIn(u) \/ (\E v \in User : Open(u, v))
        \/ Leave(u) \/ SignOut(u) \/ Kill(u) \/ Start(u)
        \/ Type(u) \/ Press(u)
        \/ Commit(u) \/ Resume(u) \/ Sync(u)
    BY <1>2 DEF Next
  <2>1. CASE SignIn(u)
    BY <2>1 DEF SignIn, here, TypeOK, KeyInv
  <2>2. ASSUME NEW v \in User, Open(u, v)
        PROVE  TypeOK' /\ KeyInv'
    BY <2>2 DEF Open, TypeOK, KeyInv
  <2>3. CASE Leave(u) \/ SignOut(u) \/ Kill(u)
    <3>1. /\ page' \in [Device -> User \cup {None}] /\ field' \in [Device -> Nat]
          /\ waits' \in [Device -> Nat] /\ acks' \in [Device -> Nat]
          /\ \A x \in Device : waits'[x] <= waits[x]
      BY <2>3, GoneType DEF Leave, SignOut, Kill
    <3>2. /\ signed' \in [Device -> BOOLEAN] /\ running' \in [Device -> BOOLEAN]
          /\ UNCHANGED <<pending, log, seen, written, pressed>>
      BY <2>3 DEF Leave, SignOut, Kill, TypeOK
    <3>3. ASSUME NEW x \in Device
          PROVE  seen'[x] <= Len(log') /\ waits'[x] <= Len(pending'[x])
      <4>1. waits'[x] \in Nat /\ waits'[x] <= waits[x]
        BY <3>1
      <4>2. seen'[x] = seen[x] /\ log' = log /\ pending'[x] = pending[x]
        BY <3>2
      <4> QED
        BY <4>1, <4>2, Numbers
    <3> QED
      BY <3>1, <3>2, <3>3 DEF TypeOK, KeyInv
  <2>4. CASE Start(u)
    BY <2>4 DEF Start, here, TypeOK, KeyInv
  <2>5. CASE Type(u)
    <3>1. field' \in [Device -> Nat] /\ written' \in [Device -> Nat]
      BY <2>5 DEF Type, TypeOK
    <3>2. UNCHANGED <<running, signed, page, waits, acks, pending, log, seen, pressed>>
      BY <2>5 DEF Type
    <3> QED
      BY <3>1, <3>2 DEF TypeOK, KeyInv
  <2>6. CASE Press(u)
    <3> DEFINE m == [from |-> u, to |-> Key(u, page[u]), text |-> field[u], for |-> page[u]]
               p == [text |-> field[u], for |-> page[u]]
    <3>1. m \in Keyed /\ m \in Message /\ p \in Sent
      BY <2>6, <1>0, PressedIsKeyed DEF Press
    <3>2. /\ pending' = [pending EXCEPT ![u] = Append(@, m)]
          /\ pressed' = [pressed EXCEPT ![u] = Append(@, p)]
          /\ waits' = [waits EXCEPT ![u] = @ + 1]
          /\ UNCHANGED <<running, signed, page, field, acks, log, seen, written>>
      BY <2>6 DEF Press
    <3> HIDE DEF m, p
    <3>3. ASSUME NEW x \in Device
          PROVE  seen'[x] <= Len(log') /\ waits'[x] <= Len(pending'[x])
      BY <3>1, <3>2, Numbers DEF TypeOK
    <3>4. /\ pending' \in [Device -> Seq(Keyed)] /\ pending' \in [Device -> Seq(Message)]
          /\ pressed' \in [Device -> Seq(Sent)]
          /\ waits' \in [Device -> Nat]
      <4>1. pending' \in [Device -> Seq(Keyed)]
        BY <3>1, <3>2 DEF KeyInv
      <4>2. pending' \in [Device -> Seq(Message)]
        BY <3>1, <3>2 DEF TypeOK
      <4>3. pressed' \in [Device -> Seq(Sent)]
        BY <3>1, <3>2 DEF TypeOK
      <4>4. waits' \in [Device -> Nat]
        BY <3>2 DEF TypeOK
      <4> QED
        BY <4>1, <4>2, <4>3, <4>4
    <3> QED
      BY <3>2, <3>3, <3>4 DEF TypeOK, KeyInv
  <2>7. CASE Commit(u)
    <3>1. Head(pending[u]) \in Keyed /\ Head(pending[u]) \in Message
          /\ Tail(pending[u]) \in Seq(Keyed) /\ Tail(pending[u]) \in Seq(Message)
          /\ Len(Tail(pending[u])) = Len(pending[u]) - 1 /\ Len(pending[u]) \in Nat \ {0}
      BY <2>7, <1>0 DEF Commit, TypeOK, KeyInv
    <3>2. log' \in Seq(Keyed) /\ log' \in Seq(Message) /\ Len(log') = Len(log) + 1
      BY <2>7, <3>1 DEF Commit, TypeOK, KeyInv
    <3>3. pending' \in [Device -> Seq(Keyed)] /\ pending' \in [Device -> Seq(Message)]
      BY <2>7, <3>1 DEF Commit, TypeOK, KeyInv
    <3>4. waits' \in [Device -> Nat] /\ acks' \in [Device -> Nat]
      <4>1. CASE waits[u] = Len(pending[u])
        <5>1. waits' = [waits EXCEPT ![u] = @ - 1] /\ acks' = [acks EXCEPT ![u] = @ + 1]
          BY <2>7, <4>1 DEF Commit
        <5> QED
          BY <5>1, <4>1, <3>1 DEF TypeOK
      <4>2. CASE waits[u] # Len(pending[u])
        BY <2>7, <4>2 DEF Commit, TypeOK
      <4> QED
        BY <4>1, <4>2
    <3>5. ASSUME NEW x \in Device
          PROVE  seen'[x] <= Len(log') /\ waits'[x] <= Len(pending'[x])
      <4>1. seen'[x] <= Len(log')
        BY <2>7, <3>2, Numbers DEF Commit
      <4>2. CASE x # u
        <5>1. waits'[x] = waits[x] /\ pending'[x] = pending[x]
          BY <2>7, <4>2 DEF Commit, TypeOK
        <5> QED
          BY <4>1, <5>1, Numbers
      <4>3. CASE x = u
        <5>1. pending'[u] = Tail(pending[u])
          BY <2>7 DEF Commit, TypeOK
        <5>2. waits'[u] = IF waits[u] = Len(pending[u]) THEN waits[u] - 1 ELSE waits[u]
          BY <2>7 DEF Commit, TypeOK
        <5> QED
          BY <4>1, <4>3, <5>1, <5>2, <3>1, Numbers
      <4> QED
        BY <4>2, <4>3
    <3>6. UNCHANGED <<running, signed, page, field, seen, written, pressed>>
      BY <2>7 DEF Commit
    <3> QED
      BY <3>2, <3>3, <3>4, <3>5, <3>6 DEF TypeOK, KeyInv
  <2>8. CASE Resume(u)
    <3>1. acks' \in [Device -> Nat] /\ field' \in [Device -> Nat]
      BY <2>8 DEF Resume, TypeOK
    <3>2. UNCHANGED <<running, signed, page, waits, pending, log, seen, written, pressed>>
      BY <2>8 DEF Resume
    <3> QED
      BY <3>1, <3>2 DEF TypeOK, KeyInv
  <2>9. CASE Sync(u)
    <3>1. seen' \in [Device -> Nat] /\ \A x \in Device : seen'[x] <= Len(log)
      BY <2>9, Numbers DEF Sync, TypeOK
    <3>2. UNCHANGED <<running, signed, page, field, waits, acks, pending, log, written, pressed>>
      BY <2>9 DEF Sync, here
    <3> QED
      BY <3>1, <3>2 DEF TypeOK, KeyInv
  <2> QED
    BY <2>1, <2>2, <2>3, <2>4, <2>5, <2>6, <2>7, <2>8, <2>9
<1> QED
  BY <1>1, <1>2

(* Keys that can be told apart keep conversations apart. *)
LEMMA KeyedNoLeak == TypeOK /\ KeyInv => NoLeak
<1> SUFFICES ASSUME TypeOK, KeyInv, Unambiguous,
                    NEW u \in Device, page[u] # None,
                    NEW m \in Range(log) \cup Range(pending[u]),
                    Filter(u, page[u], m)
             PROVE  \/ m.from = u /\ m.for = page[u]
                    \/ m.from = page[u] /\ m.for = u
  BY DEF NoLeak
<1>1. u \in User /\ page[u] \in User
  BY ChatAssumption DEF TypeOK
<1>2. m \in Keyed
  BY DEF KeyInv, Range
<1>3. m.from \in User /\ m.for \in User /\ m.to = Key(m.from, m.for)
  BY <1>2 DEF Keyed, Message
<1>4. \A a, b, x, y \in User : Key(a, b) = Key(x, y) => a = x /\ b = y
  BY Zenon DEF Unambiguous, Key
<1>5. m.to = Key(u, page[u]) \/ m.to = Key(page[u], u)
  BY DEF Filter
<1> QED
  BY <1>1, <1>3, <1>4, <1>5

-----------------------------------------------------------------------------
(* What is pressed for becomes messages one by one. *)
LEMMA LettersType ==
  ASSUME NEW u \in User, NEW s \in Seq(Sent)
  PROVE  /\ Letters(u, s) \in Seq(MessagesOf(u)) /\ Letters(u, s) \in Seq(Keyed)
         /\ Len(Letters(u, s)) = Len(s) /\ DOMAIN Letters(u, s) = DOMAIN s
         /\ \A i \in DOMAIN s : Letters(u, s)[i] = Letter(u, s[i])
<1>1. \A p \in Sent : Letter(u, p) \in MessagesOf(u) /\ Letter(u, p) \in Keyed
  BY DEF Letter, Sent, Message, MessagesOf, Keyed
<1>2. DOMAIN s = 1 .. Len(s) /\ Len(s) \in Nat /\ \A i \in 1 .. Len(s) : s[i] \in Sent
  OBVIOUS
<1>3. Letters(u, s) = [i \in 1 .. Len(s) |-> Letter(u, s[i])]
  BY <1>2 DEF Letters
<1>4. Letters(u, s) \in Seq(MessagesOf(u)) /\ Len(Letters(u, s)) = Len(s)
  BY <1>1, <1>2, <1>3
<1>5. Letters(u, s) \in Seq(Keyed)
  BY <1>1, <1>2, <1>3
<1> QED
  BY <1>2, <1>3, <1>4, <1>5

LEMMA LettersAppend ==
  ASSUME NEW u \in User, NEW s \in Seq(Sent), NEW p \in Sent
  PROVE  Letters(u, Append(s, p)) = Append(Letters(u, s), Letter(u, p))
<1> DEFINE t == Append(s, p)
           a == Letters(u, s)
           b == Letters(u, t)
           e == Letter(u, p)
<1>1. /\ t \in Seq(Sent) /\ Len(t) = Len(s) + 1 /\ Len(s) \in Nat /\ t[Len(s) + 1] = p
      /\ \A i \in 1 .. Len(s) : t[i] = s[i]
      /\ DOMAIN s = 1 .. Len(s) /\ DOMAIN t = 1 .. (Len(s) + 1)
  BY AppendPlaces
<1>2. e \in Keyed
  BY DEF Letter, Sent, Message, Keyed
<1>3. a \in Seq(Keyed) /\ Len(a) = Len(s) /\ \A i \in 1 .. Len(s) : a[i] = Letter(u, s[i])
  BY <1>1, LettersType
<1> HIDE DEF t
<1>4. /\ b \in Seq(Keyed) /\ Len(b) = Len(t)
      /\ \A i \in 1 .. (Len(s) + 1) : b[i] = Letter(u, t[i])
  BY <1>1, LettersType
<1>5. b[Len(s) + 1] = e /\ \A i \in 1 .. Len(s) : b[i] = a[i]
  BY <1>1, <1>3, <1>4 DEF e
<1> HIDE DEF a, b, e
<1>6. /\ Append(a, e) \in Seq(Keyed) /\ Len(Append(a, e)) = Len(b)
      /\ \A i \in 1 .. Len(b) : Append(a, e)[i] = b[i]
  BY <1>1, <1>2, <1>3, <1>4, <1>5
<1>7. b = Append(a, e)
  BY <1>4, <1>6
<1> QED
  BY <1>7 DEF a, b, e, t

(* The messages for one person are those of the presses for that person. *)
LEMMA LettersFor ==
  ASSUME NEW u \in User, NEW v \in User, NEW s \in Seq(Sent)
  PROVE  Only(Letters(u, s), {m \in Message : m.from = u /\ m.for = v}) =
           Letters(u, Only(s, {p \in Sent : p.for = v}))
<1> DEFINE A == {m \in Message : m.from = u /\ m.for = v}
           B == {p \in Sent : p.for = v}
           T == {t \in Seq(Sent) : Only(Letters(u, t), A) = Letters(u, Only(t, B))}
<1>0. \A p \in Sent : Letter(u, p) \in Keyed /\ (Letter(u, p) \in A <=> p \in B)
  BY DEF Letter, Sent, Message, Keyed
<1>e. Letters(u, <<>>) = <<>>
  <2>1. Letters(u, <<>>) \in Seq(Keyed) /\ Len(Letters(u, <<>>)) = 0
    <3>1. <<>> \in Seq(Sent) /\ Len(<<>>) = 0
      OBVIOUS
    <3>2. \A t \in Seq(Sent) : Letters(u, t) \in Seq(Keyed) /\ Len(Letters(u, t)) = Len(t)
      BY LettersType
    <3> QED
      BY <3>1, <3>2, Zenon
  <2> QED
    BY <2>1
<1> HIDE DEF A, B
<1>1. <<>> \in T
  BY <1>e, OnlyEmpty
<1>2. ASSUME NEW t \in Seq(Sent), NEW p \in Sent, t \in T PROVE Append(t, p) \in T
  <2> DEFINE a == Letters(u, t)
             e == Letter(u, p)
  <2>1. a \in Seq(Keyed) /\ e \in Keyed /\ (e \in A <=> p \in B)
    BY <1>0, LettersType
  <2>2. Letters(u, Append(t, p)) = Append(a, e) /\ Append(t, p) \in Seq(Sent)
    BY LettersAppend
  <2>3. Only(a, A) = Letters(u, Only(t, B))
    BY <1>2
  <2> HIDE DEF a, e
  <2>4. Only(Append(a, e), A) = IF e \in A THEN Append(Only(a, A), e) ELSE Only(a, A)
    BY <2>1, OnlyAppend
  <2>5. Only(Append(t, p), B) = IF p \in B THEN Append(Only(t, B), p) ELSE Only(t, B)
    BY OnlyAppend
  <2>6. Only(t, B) \in Seq(Sent)
    <3>1. Only(t, B) \in Seq(Sent \cap B)
      BY OnlyType
    <3> QED
      BY <3>1
  <2>7. Letters(u, Append(Only(t, B), p)) = Append(Letters(u, Only(t, B)), e)
    BY <2>6, LettersAppend DEF e
  <2>8. Only(Letters(u, Append(t, p)), A) = Letters(u, Only(Append(t, p), B))
    <3>1. CASE p \in B
      BY <2>1, <2>2, <2>3, <2>4, <2>5, <2>7, <3>1
    <3>2. CASE p \notin B
      BY <2>1, <2>2, <2>3, <2>4, <2>5, <3>2
    <3> QED
      BY <3>1, <3>2
  <2> QED
    BY <2>2, <2>8
<1> HIDE DEF T
<1>3. Seq(Sent) \subseteq T
  BY <1>1, <1>2, SequenceInduction
<1>4. s \in T
  BY <1>3
<1> QED
  BY <1>4 DEF T, A, B

(* A message has the text that was pressed for. *)
LEMMA LettersTexts ==
  ASSUME NEW u \in User, NEW s \in Seq(Sent)
  PROVE  Texts(Letters(u, s)) = Texts(s)
<1>1. \A i \in DOMAIN s : Letters(u, s)[i].text = s[i].text
  <2>1. \A p : Letter(u, p).text = p.text
    BY DEF Letter
  <2> QED
    BY <2>1, LettersType
<1>2. DOMAIN Letters(u, s) = DOMAIN s
  BY LettersType
<1> QED
  BY <1>1, <1>2 DEF Texts

-----------------------------------------------------------------------------
(* Every step keeps messages and presses in step. *)
LEMMA PostedStep ==
  ASSUME TypeOK, KeyInv, AllIsPosted, [Next]_vars
  PROVE  AllIsPosted'
<1>0. log \in Seq(Message) /\ pending \in [Device -> Seq(Message)] /\ Device \subseteq User
      /\ pressed \in [Device -> Seq(Sent)]
  BY ChatAssumption DEF TypeOK
<1>f. \A x \in User : From(log, x) \in Seq(MessagesOf(x))
  <2> TAKE x \in User
  <2>1. Only(log, MessagesOf(x)) \in Seq(Message \cap MessagesOf(x))
    BY <1>0, OnlyType
  <2>2. Message \cap MessagesOf(x) = MessagesOf(x)
    BY DEF MessagesOf
  <2> QED
    BY <2>1, <2>2 DEF From
<1>1. ASSUME UNCHANGED <<log, pending, pressed>> PROVE AllIsPosted'
  BY <1>1 DEF AllIsPosted, From
<1>2. CASE UNCHANGED vars
  BY <1>1, <1>2 DEF vars
<1>3. ASSUME NEW u \in Device, Press(u) PROVE AllIsPosted'
  <2> DEFINE p == [text |-> field[u], for |-> page[u]]
             e == Letter(u, p)
  <2>1. /\ pending' = [pending EXCEPT ![u] = Append(@, e)]
        /\ pressed' = [pressed EXCEPT ![u] = Append(@, p)] /\ log' = log
    BY <1>3 DEF Press, Letter
  <2>2. p \in Sent
    BY <1>3, PressedIsKeyed DEF Press
  <2> HIDE DEF p
  <2>3. e \in MessagesOf(u)
    BY <1>0, <2>2 DEF Letter, Sent, Message, MessagesOf
  <2> HIDE DEF e
  <2>4. \A x \in Device : x # u => pending'[x] = pending[x] /\ pressed'[x] = pressed[x]
    BY <1>0, <2>1
  <2>5. pending'[u] = Append(pending[u], e) /\ pressed'[u] = Append(pressed[u], p)
    BY <1>0, <2>1
  <2>6. pending[u] \in Seq(MessagesOf(u)) /\ From(log, u) \o pending[u] = Letters(u, pressed[u])
    BY DEF AllIsPosted
  <2>7. From(log, u) \o Append(pending[u], e) = Append(From(log, u) \o pending[u], e)
    <3>1. \A a, b \in Seq(MessagesOf(u)), c \in MessagesOf(u) :
            a \o Append(b, c) = Append(a \o b, c)
      BY ConcatAppend
    <3>2. From(log, u) \in Seq(MessagesOf(u))
      BY <1>0, <1>f
    <3> QED
      BY <2>3, <2>6, <3>1, <3>2, Zenon
  <2>8. Letters(u, pressed'[u]) = Append(Letters(u, pressed[u]), e)
    BY <1>0, <2>2, <2>5, LettersAppend DEF e
  <2>9. /\ pending'[u] \in Seq(MessagesOf(u))
        /\ From(log', u) \o pending'[u] = Letters(u, pressed'[u])
    <3>1. pending'[u] \in Seq(MessagesOf(u))
      BY <2>3, <2>5, <2>6
    <3>2. From(log', u) = From(log, u)
      BY <2>1 DEF From
    <3> QED
      BY <2>5, <2>6, <2>7, <2>8, <3>1, <3>2, Zenon
  <2> QED
    BY <2>1, <2>4, <2>9 DEF AllIsPosted
<1>4. ASSUME NEW u \in Device, Commit(u) PROVE AllIsPosted'
  <2> DEFINE h == Head(pending[u])
  <2>1. /\ pending[u] # <<>> /\ log' = Append(log, h) /\ pressed' = pressed
        /\ pending' = [pending EXCEPT ![u] = Tail(@)]
    BY <1>4 DEF Commit
  <2>2. pending[u] \in Seq(MessagesOf(u)) /\ From(log, u) \o pending[u] = Letters(u, pressed[u])
    BY DEF AllIsPosted
  <2>3. h \in MessagesOf(u) /\ Tail(pending[u]) \in Seq(MessagesOf(u))
    BY <2>1, <2>2, TailPlaces
  <2>4. Append(From(log, u), h) \o Tail(pending[u]) = From(log, u) \o pending[u]
    BY <1>0, <1>f, <2>1, <2>2, HandedOver
  <2> HIDE DEF h
  <2>5. h \in Message /\ h.from = u
    BY <2>3 DEF MessagesOf
  <2>6. From(log', u) = Append(From(log, u), h)
    BY <1>0, <2>1, <2>3, <2>5, OnlyAppend DEF From
  <2>7. ASSUME NEW x \in Device, x # u
        PROVE  pending'[x] = pending[x] /\ From(log', x) = From(log, x)
    <3>1. h \notin MessagesOf(x)
      BY <2>5, <2>7 DEF MessagesOf
    <3> QED
      BY <1>0, <2>1, <2>5, <2>7, <3>1, OnlyAppend DEF From
  <2>8. pending'[u] = Tail(pending[u])
    BY <1>0, <2>1
  <2>9. /\ pending'[u] \in Seq(MessagesOf(u))
        /\ From(log', u) \o pending'[u] = Letters(u, pressed'[u])
    BY <2>1, <2>2, <2>3, <2>4, <2>6, <2>8
  <2> QED
    BY <2>1, <2>7, <2>9 DEF AllIsPosted
<1>5. CASE \E u \in Device :
             \/ SignIn(u) \/ Start(u) \/ (\E v \in User : Open(u, v))
             \/ Leave(u) \/ SignOut(u) \/ Kill(u)
             \/ Type(u) \/ Resume(u) \/ Sync(u)
  BY <1>1, <1>5 DEF SignIn, Start, Open, Leave, SignOut, Kill, Type, Resume, Sync
<1> QED
  BY <1>2, <1>3, <1>4, <1>5 DEF Next

(* Every step keeps the texts of a user who waits apart. *)
LEMMA TextsStep ==
  ASSUME TypeOK, TextsAreNew, [Next]_vars
  PROVE  TextsAreNew'
<1> SUFFICES ASSUME NEW u \in Patient
             PROVE  New(field'[u], written'[u], pressed'[u], waits'[u] + acks'[u])
  BY DEF TextsAreNew
<1>0. /\ u \in Device /\ field[u] \in Nat /\ written[u] \in Nat
      /\ waits[u] \in Nat /\ acks[u] \in Nat /\ pressed[u] \in Seq(Sent)
  BY ChatAssumption DEF TypeOK
<1>n. /\ DOMAIN pressed[u] = 1 .. Len(pressed[u]) /\ Len(pressed[u]) \in Nat
      /\ \A i \in DOMAIN pressed[u] : pressed[u][i].text \in Nat
  <2>1. \A p \in Sent : p.text \in Nat
    BY DEF Sent
  <2> QED
    BY <1>0, <2>1
<1>1. New(field[u], written[u], pressed[u], waits[u] + acks[u])
  BY DEF TextsAreNew
(* Nothing of this account changes. *)
<1>2. CASE /\ field'[u] = field[u] /\ written'[u] = written[u] /\ pressed'[u] = pressed[u]
           /\ waits'[u] + acks'[u] = waits[u] + acks[u]
  BY <1>1, <1>2
(* The field is empty. *)
<1>3. CASE field'[u] = 0 /\ written'[u] = written[u] /\ pressed'[u] = pressed[u]
  <2>1. \A n : New(0, written[u], pressed[u], n)
    BY <1>0, <1>1 DEF New
  <2> QED
    BY <1>3, <2>1
<1>4. CASE UNCHANGED vars
  BY <1>2, <1>4 DEF vars, here
<1>5. ASSUME NEW x \in Device, x # u,
             \/ SignIn(x) \/ Start(x) \/ (\E v \in User : Open(x, v))
             \/ Leave(x) \/ SignOut(x) \/ Kill(x)
             \/ Type(x) \/ Press(x) \/ Commit(x) \/ Resume(x) \/ Sync(x)
      PROVE  /\ field'[u] = field[u] /\ written'[u] = written[u] /\ pressed'[u] = pressed[u]
             /\ waits'[u] = waits[u] /\ acks'[u] = acks[u]
  <2>1. CASE SignIn(x) \/ Start(x) \/ (\E v \in User : Open(x, v)) \/ Sync(x)
    BY <2>1 DEF SignIn, Start, Open, Sync, here
  <2>2. CASE Leave(x) \/ SignOut(x) \/ Kill(x)
    BY <1>0, <1>5, <2>2 DEF Leave, SignOut, Kill, Gone, TypeOK
  <2>3. CASE Type(x) \/ Resume(x)
    BY <1>0, <1>5, <2>3 DEF Type, Resume, TypeOK
  <2>4. CASE Press(x)
    BY <1>0, <1>5, <2>4 DEF Press, TypeOK
  <2>5. CASE Commit(x)
    BY <1>0, <1>5, <2>5 DEF Commit, TypeOK
  <2> QED
    BY <1>5, <2>1, <2>2, <2>3, <2>4, <2>5
<1>6. CASE SignIn(u) \/ Start(u) \/ (\E v \in User : Open(u, v)) \/ Sync(u)
  BY <1>2, <1>6 DEF SignIn, Start, Open, Sync, here
<1>7. CASE Leave(u) \/ SignOut(u) \/ Kill(u) \/ Resume(u)
  BY <1>0, <1>3, <1>7 DEF Leave, SignOut, Kill, Gone, Resume, TypeOK
<1>8. CASE Type(u)
  <2>1. written'[u] = written[u] + 1 /\ field'[u] = written[u] + 1 /\ pressed' = pressed
    BY <1>0, <1>8 DEF Type, TypeOK
  <2>2. \A n : New(written[u] + 1, written[u] + 1, pressed[u], n)
    BY <1>0, <1>n, <1>1 DEF New
  <2> QED
    BY <2>1, <2>2
<1>9. CASE Commit(u)
  <2>1. waits'[u] + acks'[u] = waits[u] + acks[u]
    <3>1. CASE waits[u] = Len(pending[u])
      BY <1>0, <1>9, <3>1 DEF Commit, TypeOK
    <3>2. CASE waits[u] # Len(pending[u])
      BY <1>0, <1>9, <3>2 DEF Commit, TypeOK
    <3> QED
      BY <3>1, <3>2
  <2> QED
    BY <1>2, <1>9, <2>1 DEF Commit
<1>10. CASE Press(u)
  <2> DEFINE p == [text |-> field[u], for |-> page[u]]
  <2>1. /\ field[u] # 0 /\ waits[u] + acks[u] = 0 /\ waits'[u] = waits[u] + 1
        /\ acks' = acks /\ field' = field /\ written' = written
        /\ pressed'[u] = Append(pressed[u], p)
    BY <1>0, <1>10 DEF Press, Ready, TypeOK
  <2>2. p \in Sent /\ p.text = field[u]
    BY <1>0, <1>10, PressedIsKeyed DEF Press
  <2> HIDE DEF p
  <2>3. /\ DOMAIN pressed'[u] = 1 .. (Len(pressed[u]) + 1)
        /\ \A i \in 1 .. Len(pressed[u]) : pressed'[u][i] = pressed[u][i]
        /\ pressed'[u][Len(pressed[u]) + 1] = p
    BY <1>0, <1>n, <2>1, <2>2, AppendPlaces
  <2>4. waits'[u] + acks'[u] # 0
    BY <1>0, <2>1
  <2>5. \A i \in DOMAIN pressed[u] : pressed[u][i].text # field[u]
    BY <1>1, <2>1 DEF New
  <2>6. \A i \in DOMAIN pressed'[u] : pressed'[u][i].text <= written'[u]
    BY <1>0, <1>n, <1>1, <2>1, <2>2, <2>3 DEF New
  <2>7. ASSUME NEW i \in DOMAIN pressed'[u], NEW j \in DOMAIN pressed'[u],
               pressed'[u][i].text = pressed'[u][j].text
        PROVE  i = j
    <3>1. CASE i \in DOMAIN pressed[u] /\ j \in DOMAIN pressed[u]
      BY <1>n, <1>1, <2>3, <2>7, <3>1 DEF New
    <3>2. CASE i \in DOMAIN pressed[u] /\ j \notin DOMAIN pressed[u]
      BY <1>n, <2>2, <2>3, <2>5, <2>7, <3>2
    <3>3. CASE i \notin DOMAIN pressed[u] /\ j \in DOMAIN pressed[u]
      BY <1>n, <2>2, <2>3, <2>5, <2>7, <3>3
    <3>4. CASE i \notin DOMAIN pressed[u] /\ j \notin DOMAIN pressed[u]
      BY <1>n, <2>3, <3>4
    <3> QED
      BY <3>1, <3>2, <3>3, <3>4
  <2>8. field'[u] <= written'[u]
    BY <1>1, <2>1 DEF New
  <2> QED
    BY <2>4, <2>6, <2>7, <2>8 DEF New
<1>11. PICK x \in Device :
          \/ UNCHANGED vars
          \/ SignIn(x) \/ Start(x) \/ (\E v \in User : Open(x, v))
          \/ Leave(x) \/ SignOut(x) \/ Kill(x)
          \/ Type(x) \/ Press(x) \/ Commit(x) \/ Resume(x) \/ Sync(x)
  BY <1>0 DEF Next
<1>12. CASE x = u
  BY <1>4, <1>6, <1>7, <1>8, <1>9, <1>10, <1>11, <1>12
<1>13. CASE x # u
  BY <1>2, <1>4, <1>5, <1>11, <1>13
<1> QED
  BY <1>12, <1>13

(* Every step keeps what a user who waits is waiting for. *)
LEMMA AwaitedStep ==
  ASSUME TypeOK, AllIsPosted, FieldIsAwaited, [Next]_vars
  PROVE  FieldIsAwaited'
<1> SUFFICES ASSUME NEW u \in Patient
             PROVE  /\ waits'[u] + acks'[u] <= 1
                    /\ waits'[u] > 0 => pending'[u][Len(pending'[u])].text = field'[u]
                    /\ acks'[u] > 0 =>
                         \E i \in DOMAIN log' : log'[i].from = u /\ log'[i].text = field'[u]
  BY DEF FieldIsAwaited
<1>0. /\ u \in Device /\ field[u] \in Nat /\ waits[u] \in Nat /\ acks[u] \in Nat
      /\ log \in Seq(Message) /\ pending[u] \in Seq(Message) /\ waits[u] <= Len(pending[u])
      /\ Len(pending[u]) \in Nat
  BY ChatAssumption, Numbers DEF TypeOK
<1>1. /\ waits[u] + acks[u] <= 1
      /\ waits[u] > 0 => pending[u][Len(pending[u])].text = field[u]
      /\ acks[u] > 0 => \E i \in DOMAIN log : log[i].from = u /\ log[i].text = field[u]
  BY DEF FieldIsAwaited
(* The collection only grows. *)
<1>g. ASSUME NEW m \in Message, log' = Append(log, m)
      PROVE  /\ \A i \in DOMAIN log : i \in DOMAIN log' /\ log'[i] = log[i]
             /\ \E i \in DOMAIN log' : log'[i] = m
  <2>1. /\ DOMAIN log = 1 .. Len(log) /\ DOMAIN log' = 1 .. (Len(log) + 1) /\ Len(log) \in Nat
        /\ \A i \in 1 .. Len(log) : log'[i] = log[i] /\ log'[Len(log) + 1] = m
    BY <1>0, <1>g, AppendPlaces
  <2>2. log'[Len(log) + 1] = m
    BY <1>0, <1>g, AppendPlaces
  <2> QED
    BY <2>1, <2>2
<1>2. CASE /\ field'[u] = field[u] /\ waits'[u] = waits[u] /\ acks'[u] = acks[u]
           /\ pending'[u] = pending[u]
           /\ \A i \in DOMAIN log : i \in DOMAIN log' /\ log'[i] = log[i]
  BY <1>1, <1>2
<1>3. CASE waits'[u] = 0 /\ acks'[u] = 0
  BY <1>3
<1>4. CASE UNCHANGED vars
  BY <1>2, <1>4 DEF vars, here
<1>5. ASSUME NEW x \in Device, x # u,
             \/ SignIn(x) \/ Start(x) \/ (\E v \in User : Open(x, v))
             \/ Leave(x) \/ SignOut(x) \/ Kill(x)
             \/ Type(x) \/ Press(x) \/ Commit(x) \/ Resume(x) \/ Sync(x)
      PROVE  /\ field'[u] = field[u] /\ waits'[u] = waits[u] /\ acks'[u] = acks[u]
             /\ pending'[u] = pending[u]
             /\ \A i \in DOMAIN log : i \in DOMAIN log' /\ log'[i] = log[i]
  <2>1. CASE SignIn(x) \/ Start(x) \/ (\E v \in User : Open(x, v)) \/ Sync(x)
    BY <2>1 DEF SignIn, Start, Open, Sync, here
  <2>2. CASE Leave(x) \/ SignOut(x) \/ Kill(x)
    BY <1>0, <1>5, <2>2 DEF Leave, SignOut, Kill, Gone, TypeOK
  <2>3. CASE Type(x) \/ Resume(x)
    BY <1>0, <1>5, <2>3 DEF Type, Resume, TypeOK
  <2>4. CASE Press(x)
    BY <1>0, <1>5, <2>4 DEF Press, TypeOK
  <2>5. CASE Commit(x)
    <3>1. Head(pending[x]) \in Message /\ log' = Append(log, Head(pending[x]))
      BY <2>5, TailPlaces DEF Commit, TypeOK
    <3>2. \A i \in DOMAIN log : i \in DOMAIN log' /\ log'[i] = log[i]
      BY <1>g, <3>1
    <3> QED
      BY <1>0, <1>5, <2>5, <3>2 DEF Commit, TypeOK
  <2> QED
    BY <1>5, <2>1, <2>2, <2>3, <2>4, <2>5
<1>6. CASE SignIn(u) \/ Start(u) \/ (\E v \in User : Open(u, v)) \/ Sync(u)
  BY <1>2, <1>6 DEF SignIn, Start, Open, Sync, here
<1>7. CASE Leave(u) \/ SignOut(u) \/ Kill(u)
  BY <1>0, <1>3, <1>7 DEF Leave, SignOut, Kill, Gone, TypeOK
<1>8. CASE Type(u)
  <2>1. waits[u] + acks[u] = 0 /\ UNCHANGED <<waits, acks>>
    BY <1>8 DEF Type, Ready
  <2> QED
    BY <1>0, <1>3, <2>1
<1>9. CASE Resume(u)
  <2>1. acks[u] > 0 /\ acks'[u] = acks[u] - 1 /\ waits' = waits
    BY <1>0, <1>9 DEF Resume, TypeOK
  <2>2. waits'[u] = 0 /\ acks'[u] = 0
    BY <1>0, <1>1, <2>1
  <2> QED
    BY <1>3, <2>2
<1>10. CASE Press(u)
  <2> DEFINE m == [from |-> u, to |-> Key(u, page[u]), text |-> field[u], for |-> page[u]]
  <2>1. /\ waits[u] + acks[u] = 0 /\ waits'[u] = waits[u] + 1 /\ acks' = acks /\ field' = field
        /\ pending'[u] = Append(pending[u], m)
    BY <1>0, <1>10 DEF Press, Ready, TypeOK
  <2>2. m \in Message /\ m.text = field[u]
    BY <1>0, <1>10, PressedIsKeyed DEF Press, Keyed
  <2> HIDE DEF m
  <2>3. pending'[u][Len(pending'[u])] = m
    BY <1>0, <2>1, <2>2, AppendPlaces
  <2> QED
    BY <1>0, <2>1, <2>2, <2>3
<1>11. CASE Commit(u)
  <2> DEFINE h == Head(pending[u])
             q == Tail(pending[u])
  <2>1. pending[u] # <<>> /\ log' = Append(log, h) /\ pending'[u] = q /\ field' = field
    BY <1>0, <1>11 DEF Commit, TypeOK
  <2>2. /\ h = pending[u][1] /\ h \in Message /\ Len(pending[u]) >= 1
        /\ Len(q) = Len(pending[u]) - 1
        /\ \A i \in 1 .. (Len(pending[u]) - 1) : q[i] = pending[u][i + 1]
    BY <1>0, <2>1, TailPlaces
  <2>3. h.from = u
    <3>1. pending[u] \in Seq(MessagesOf(u))
      BY <1>0 DEF AllIsPosted
    <3>2. h \in MessagesOf(u)
      BY <2>1, <3>1, TailPlaces
    <3> QED
      BY <3>2 DEF MessagesOf
  <2>4. CASE waits[u] = Len(pending[u])
    <3>1. waits'[u] = waits[u] - 1 /\ acks'[u] = acks[u] + 1
      BY <1>0, <1>11, <2>4 DEF Commit, TypeOK
    <3>2. waits[u] = 1 /\ acks[u] = 0 /\ Len(pending[u]) = 1
      <4>1. waits[u] \in Nat /\ acks[u] \in Nat
        BY <1>0
      <4>2. waits[u] + acks[u] <= 1
        BY <1>1
      <4>3. Len(pending[u]) >= 1
        BY <2>2
      <4>4. waits[u] >= 1
        BY <2>4, <4>3
      <4>5. waits[u] = 1 /\ acks[u] = 0
        BY <4>1, <4>2, <4>4
      <4> QED
        BY <2>4, <4>5
    <3>3. h.text = field[u]
      BY <1>1, <2>2, <3>2
    <3>4. \E i \in DOMAIN log' : log'[i].from = u /\ log'[i].text = field'[u]
      BY <1>g, <2>1, <2>2, <2>3, <3>3
    <3>5. waits'[u] = 0 /\ acks'[u] = 1
      BY <3>1, <3>2
    <3> QED
      BY <3>4, <3>5
  <2>5. CASE waits[u] # Len(pending[u])
    <3>1. UNCHANGED <<waits, acks>>
      BY <1>11, <2>5 DEF Commit
    <3>2. \A i \in DOMAIN log : i \in DOMAIN log' /\ log'[i] = log[i]
      BY <1>g, <2>1, <2>2
    <3>3. ASSUME waits[u] > 0 PROVE q[Len(q)].text = field[u]
      <4>1. Len(pending[u]) - 1 \in 1 .. (Len(pending[u]) - 1)
        BY <1>0, <2>2, <2>5, <3>3
      <4>2. q[Len(pending[u]) - 1] = pending[u][(Len(pending[u]) - 1) + 1]
        BY <2>2, <4>1
      <4>3. (Len(pending[u]) - 1) + 1 = Len(pending[u])
        BY <1>0
      <4> HIDE DEF q
      <4> QED
        BY <1>1, <2>2, <3>3, <4>2, <4>3
    <3> QED
      BY <1>1, <2>1, <3>1, <3>2, <3>3
  <2> QED
    BY <2>4, <2>5
<1>12. PICK x \in Device :
          \/ UNCHANGED vars
          \/ SignIn(x) \/ Start(x) \/ (\E v \in User : Open(x, v))
          \/ Leave(x) \/ SignOut(x) \/ Kill(x)
          \/ Type(x) \/ Press(x) \/ Commit(x) \/ Resume(x) \/ Sync(x)
  BY <1>0 DEF Next
<1>13. CASE x = u
  BY <1>4, <1>6, <1>7, <1>8, <1>9, <1>10, <1>11, <1>12, <1>13
<1>14. CASE x # u
  BY <1>2, <1>4, <1>5, <1>12, <1>14
<1> QED
  BY <1>13, <1>14

-----------------------------------------------------------------------------
(* Different texts pressed for are different texts sent. *)
LEMMA NewIsOnce == ChatInv => SentOnce
<1> SUFFICES ASSUME ChatInv, NEW u \in Patient
             PROVE  LET own == From(log, u) \o pending[u]
                    IN  \A i, j \in DOMAIN own : own[i].text = own[j].text => i = j
  BY DEF SentOnce
<1>1. u \in Device /\ u \in User /\ pressed[u] \in Seq(Sent)
  BY ChatAssumption DEF ChatInv, TypeOK
<1>2. From(log, u) \o pending[u] = Letters(u, pressed[u])
  BY <1>1 DEF ChatInv, AllIsPosted
<1>3. \A i, j \in DOMAIN pressed[u] : pressed[u][i].text = pressed[u][j].text => i = j
  BY DEF ChatInv, TextsAreNew, New
<1>4. /\ DOMAIN Letters(u, pressed[u]) = DOMAIN pressed[u]
      /\ \A i \in DOMAIN pressed[u] : Letters(u, pressed[u])[i] = Letter(u, pressed[u][i])
  BY <1>1, LettersType
<1>5. \A p : Letter(u, p).text = p.text
  BY DEF Letter
<1>6. \A i, j \in DOMAIN Letters(u, pressed[u]) :
        Letters(u, pressed[u])[i].text = Letters(u, pressed[u])[j].text => i = j
  BY <1>3, <1>4, <1>5
<1> QED
  BY <1>2, <1>6

(* Of two people's messages, one page shows those of one for the other. *)
LEMMA ShownOf ==
  ASSUME TypeOK, KeyInv, AllIsPosted, Unambiguous,
         NEW u \in Device, NEW v \in Device, page[u] = v, seen[u] = Len(log),
         NEW w \in {u, v}, NEW x \in {u, v}, {w, x} = {u, v},
         pending[w] = <<>> \/ w = u
  PROVE  Texts(From(Shown(u), w)) = Texts(PressedFor(w, x))
<1> DEFINE all == log \o pending[u]
           InPage == {m \in Message : Filter(u, v, m)}
           Both == {m \in Message : m.from = w /\ m.for = x}
           own == From(log, w) \o pending[w]
<1>0. /\ u \in User /\ v \in User /\ w \in User /\ x \in User /\ w \in Device
      /\ log \in Seq(Keyed) /\ log \in Seq(Message)
      /\ pending[u] \in Seq(Keyed) /\ pending[u] \in Seq(Message)
      /\ pressed[w] \in Seq(Sent)
  BY ChatAssumption DEF TypeOK, KeyInv
<1>1. all \in Seq(Keyed) /\ all \in Seq(Message)
  BY <1>0
<1>2. Known(u) = all
  <2>1. SubSeq(log, 1, seen[u]) = log /\ SubSeq(log, seen[u] + 1, Len(log)) = <<>>
    BY <1>0
  <2>2. Only(<<>>, MessagesOf(u)) = <<>>
    BY OnlyEmpty
  <2>3. log \o <<>> = log
    BY <1>0
  <2> QED
    BY <2>1, <2>2, <2>3 DEF Known
<1>3. From(Shown(u), w) = Only(all, InPage \cap MessagesOf(w))
  <2>1. From(Shown(u), w) = Only(Only(all, InPage), MessagesOf(w))
    BY <1>2 DEF From, Shown
  <2> HIDE DEF all, InPage
  <2> QED
    BY <1>1, <2>1, OnlyOnly
<1>4. \A a, b, c, d \in User : Key(a, b) = Key(c, d) => a = c /\ b = d
  BY Zenon DEF Unambiguous, Key
<1>5. ASSUME NEW m \in Keyed
      PROVE  m \in InPage \cap MessagesOf(w) <=> m \in Both
  <2>1. m \in Message /\ m.from \in User /\ m.for \in User /\ m.to = Key(m.from, m.for)
    BY DEF Keyed, Message
  <2>2. ASSUME m.from = w, Filter(u, v, m) PROVE m.for = x
    <3>1. CASE m.to = Key(u, v)
      <4>1. w = u /\ m.for = v
        BY <1>0, <1>4, <2>1, <2>2, <3>1
      <4> QED
        BY <4>1
    <3>2. CASE m.to = Key(v, u)
      <4>1. w = v /\ m.for = u
        BY <1>0, <1>4, <2>1, <2>2, <3>2
      <4> QED
        BY <4>1
    <3> QED
      BY <2>2, <3>1, <3>2 DEF Filter
  <2>3. ASSUME m.from = w, m.for = x PROVE Filter(u, v, m)
    BY <2>1, <2>3 DEF Filter
  <2> QED
    BY <2>1, <2>2, <2>3 DEF MessagesOf
<1> HIDE DEF InPage, Both
<1>6. Only(all, InPage \cap MessagesOf(w)) = Only(all, Both)
  <2> DEFINE A == InPage \cap MessagesOf(w)
  <2>1. \A m \in Keyed : m \in A <=> m \in Both
    BY <1>5
  <2> HIDE DEF A, all
  <2>2. Only(all, A) = Only(all, Both)
    BY <1>1, <2>1, OnlyAgree
  <2> QED
    BY <2>2 DEF A
<1>7. Both = MessagesOf(w) \cap Both
  BY DEF Both, MessagesOf
<1>8. Only(all, Both) = Only(Only(all, MessagesOf(w)), Both)
  <2>1. Only(Only(all, MessagesOf(w)), Both) = Only(all, MessagesOf(w) \cap Both)
    <3> HIDE DEF all
    <3> QED
      BY <1>1, OnlyOnly
  <2> QED
    BY <1>7, <2>1
<1>9. Only(all, MessagesOf(w)) = own
  <2>1. Only(all, MessagesOf(w)) = From(log, w) \o Only(pending[u], MessagesOf(w))
    <3>1. \A a, b \in Seq(Message) :
            Only(a \o b, MessagesOf(w)) = Only(a, MessagesOf(w)) \o Only(b, MessagesOf(w))
      BY OnlyConcat
    <3> QED
      BY <1>0, <3>1, Zenon DEF From
  <2>2. pending[u] \in Seq(MessagesOf(u))
    BY DEF AllIsPosted
  <2>3. CASE w = u
    <3>1. Only(pending[u], MessagesOf(w)) = pending[u]
      BY <2>2, <2>3, OnlyAll
    <3> QED
      BY <2>1, <2>3, <3>1
  <2>4. CASE w # u
    <3>1. MessagesOf(u) \cap MessagesOf(w) = {}
      BY <2>4 DEF MessagesOf
    <3>2. Only(pending[u], MessagesOf(w)) = <<>>
      BY <2>2, <3>1, OnlyNone
    <3>3. pending[w] = <<>>
      BY <2>4
    <3> QED
      BY <2>1, <3>2, <3>3
  <2> QED
    BY <2>3, <2>4
<1>10. own = Letters(w, pressed[w])
  BY <1>0 DEF AllIsPosted
<1>11. Only(Letters(w, pressed[w]), Both) = Letters(w, PressedFor(w, x))
  BY <1>0, LettersFor DEF Both, PressedFor
<1>12. From(Shown(u), w) = Letters(w, PressedFor(w, x))
  BY <1>3, <1>6, <1>8, <1>9, <1>10, <1>11
<1>13. PressedFor(w, x) \in Seq(Sent)
  <2>1. PressedFor(w, x) \in Seq(Sent \cap {p \in Sent : p.for = x})
    BY <1>0, OnlyType DEF PressedFor
  <2> QED
    BY <2>1
<1>14. Texts(Letters(w, PressedFor(w, x))) = Texts(PressedFor(w, x))
  BY <1>0, <1>13, LettersTexts
<1> QED
  BY <1>12, <1>14

(* What was posted, in order, is what an up-to-date page shows. *)
LEMMA PostedIsShown == ChatInv => ConversationIsExact
<1> SUFFICES ASSUME ChatInv, Unambiguous, NEW u \in Device, NEW v \in Device,
                    page[u] = v, seen[u] = Len(log), pending[v] = <<>>
             PROVE  /\ Texts(From(Shown(u), u)) = Texts(PressedFor(u, v))
                    /\ Texts(From(Shown(u), v)) = Texts(PressedFor(v, u))
  BY DEF ConversationIsExact
<1>0. TypeOK /\ KeyInv /\ AllIsPosted
  BY DEF ChatInv
<1>1. Texts(From(Shown(u), u)) = Texts(PressedFor(u, v))
  BY <1>0, ShownOf
<1>2. Texts(From(Shown(u), v)) = Texts(PressedFor(v, u))
  BY <1>0, ShownOf
<1> QED
  BY <1>1, <1>2

(* A field that is cleared while its page stays open is cleared by the     *)
(* handler that runs on, and what that one awaited is stored.              *)
LEMMA ClearedStep ==
  ASSUME ChatInv, [Next]_vars
  PROVE  \A u \in Patient :
           page[u] # None /\ page'[u] = page[u] /\ field[u] # 0 /\ field'[u] = 0 =>
             \E m \in Range(log) : m.from = u /\ m.text = field[u]
<1> SUFFICES ASSUME NEW u \in Patient, page[u] # None, page'[u] = page[u],
                    field[u] # 0, field'[u] = 0
             PROVE  \E m \in Range(log) : m.from = u /\ m.text = field[u]
  OBVIOUS
<1>0. u \in Device /\ TypeOK /\ FieldIsAwaited
  BY ChatAssumption DEF ChatInv
<1>1. PICK x \in Device :
         \/ SignIn(x) \/ Start(x) \/ (\E v \in User : Open(x, v))
         \/ Leave(x) \/ SignOut(x) \/ Kill(x)
         \/ Type(x) \/ Press(x) \/ Commit(x) \/ Resume(x) \/ Sync(x)
  <2>1. ~UNCHANGED vars
    BY DEF vars, here
  <2> QED
    BY <2>1 DEF Next
<1>2. CASE \/ SignIn(x) \/ Start(x) \/ (\E v \in User : Open(x, v)) \/ Press(x)
           \/ Commit(x) \/ Sync(x)
  BY <1>2 DEF SignIn, Start, Open, Press, Commit, Sync, here
<1>3. CASE Leave(x) \/ SignOut(x) \/ Kill(x)
  <2>1. x = u
    BY <1>0, <1>3 DEF Leave, SignOut, Kill, Gone, TypeOK
  <2> QED
    BY <1>0, <1>3, <2>1 DEF Leave, SignOut, Kill, Gone, TypeOK
<1>4. CASE Type(x)
  <2>1. field' = [field EXCEPT ![x] = written[x] + 1]
    BY <1>4 DEF Type, TypeOK, ChatInv
  <2>2. written[x] \in Nat /\ field \in [Device -> Nat]
    BY <1>0 DEF TypeOK
  <2> QED
    BY <1>0, <2>1, <2>2
<1>5. CASE Resume(x)
  <2>1. x = u
    BY <1>0, <1>5 DEF Resume, TypeOK
  <2>2. acks[u] > 0
    BY <1>5, <2>1 DEF Resume
  <2>3. PICK i \in DOMAIN log : log[i].from = u /\ log[i].text = field[u]
    BY <1>0, <2>2 DEF FieldIsAwaited
  <2>4. log[i] \in Range(log)
    BY DEF Range
  <2> QED
    BY <2>3, <2>4
<1> QED
  BY <1>1, <1>2, <1>3, <1>4, <1>5

-----------------------------------------------------------------------------
(* The invariant holds of the empty chat, *)
LEMMA InitChat == Init => ChatInv
<1> SUFFICES ASSUME Init PROVE ChatInv
  OBVIOUS
<1>1. TypeOK /\ KeyInv
  BY InitInv
<1>2. AllIsPosted
  <2> SUFFICES ASSUME NEW u \in Device
               PROVE  /\ pending[u] \in Seq(MessagesOf(u))
                      /\ From(log, u) \o pending[u] = Letters(u, pressed[u])
    BY DEF AllIsPosted
  <2>1. pending[u] = <<>> /\ log = <<>> /\ pressed[u] = <<>>
    BY DEF Init
  <2>2. From(log, u) = <<>>
    BY <2>1, OnlyEmpty DEF From
  <2>3. Letters(u, <<>>) = <<>>
    BY DEF Letters
  <2> QED
    BY <2>1, <2>2, <2>3
<1>3. TextsAreNew
  BY ChatAssumption DEF Init, TextsAreNew, New
<1>4. FieldIsAwaited
  BY ChatAssumption DEF Init, FieldIsAwaited
<1> QED
  BY <1>1, <1>2, <1>3, <1>4 DEF ChatInv

(* and every step keeps it. *)
LEMMA NextChat == ChatInv /\ [Next]_vars => ChatInv'
<1> SUFFICES ASSUME ChatInv, [Next]_vars PROVE ChatInv'
  OBVIOUS
<1>1. TypeOK' /\ KeyInv'
  BY NextInv DEF ChatInv
<1>2. AllIsPosted'
  BY PostedStep DEF ChatInv
<1>3. TextsAreNew'
  BY TextsStep DEF ChatInv
<1>4. FieldIsAwaited'
  BY AwaitedStep DEF ChatInv
<1> QED
  BY <1>1, <1>2, <1>3, <1>4 DEF ChatInv

(* What is posted is what was pressed for, and what a waiting user awaits  *)
(* is the text in the field, throughout.                                   *)
THEOREM ChatInvariant == Spec => []ChatInv
BY InitChat, NextChat, PTL DEF Spec

(* The types of the chat's state, and that every readable message carries  *)
(* its own conversation's key, hold throughout.                            *)
THEOREM KeysAreKept == Spec => [](TypeOK /\ KeyInv)
<1>1. Init => TypeOK /\ KeyInv
  BY InitInv
<1>2. TypeOK /\ KeyInv /\ [Next]_vars => (TypeOK /\ KeyInv)'
  BY NextInv
<1> QED
  BY <1>1, <1>2, PTL DEF Spec

(* Every reachable state of the chat is well-typed. *)
THEOREM ChatTypeCorrect == Spec => []TypeOK
BY KeysAreKept, PTL

(* No chat page ever shows a message of another conversation, if addresses *)
(* put together can be told apart.                                         *)
THEOREM NoMessageLeaks == Spec => []NoLeak
BY KeysAreKept, KeyedNoLeak, PTL

(* Every conversation shown by a page that is up to date is exactly what   *)
(* its two people pressed 送信 on, over all sessions, crashes and sign-outs.*)
THEOREM ConversationsAreExact == Spec => []ConversationIsExact
BY ChatInvariant, PostedIsShown, PTL

(* Nobody who waits for the field to be cleared sends a text twice. *)
THEOREM NoTextTwice == Spec => []SentOnce
BY ChatInvariant, NewIsOnce, PTL

(* When the field of somebody who waits is emptied, the server has the     *)
(* message.                                                                *)
THEOREM EmptiedIsStored == Spec => ClearedIsStored
<1> DEFINE Emptied(u) ==
      page[u] # None /\ page'[u] = page[u] /\ field[u] # 0 /\ field'[u] = 0 =>
        \E m \in Range(log) : m.from = u /\ m.text = field[u]
<1>1. ChatInv /\ [Next]_vars => [\A u \in Patient : Emptied(u)]_vars
  BY ClearedStep
<1> QED
  BY <1>1, ChatInvariant, PTL DEF Spec, ClearedIsStored
=============================================================================
