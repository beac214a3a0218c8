---------------------------- MODULE ExportProofs ----------------------------
(***************************************************************************)
(* Theorems about Export, for any accounts, calendar and bounds.           *)
(*                                                                         *)
(* UploadedIsLast and FlagIsLast speak of the moments at which nothing is  *)
(* under way, and are of no use for an induction over the steps between    *)
(* them.  What holds at all times is what will be: following a day from    *)
(* the rows that wait for the current user over the writes on their way to *)
(* what the server has, the first of the three that knows the day at all   *)
(* knows it last as it was asked for.  The flag is followed the same way.  *)
(***************************************************************************)
EXTENDS Export, ListFacts

(* Once the rows s have been sent and then the writes o applied to what    *)
(* the server has, it has what it should have: the last of the rows in A   *)
(* is one of B, or else the last of the writes in C is one of D, or else   *)
(* it has it already.                                                      *)
WillBe(s, o, A, B, C, D, there) ==
  \/ LastIn(s, A, B)
  \/ NoneIn(s, A) /\ LastIn(o, C, D)
  \/ NoneIn(s, A) /\ NoneIn(o, C) /\ there

(* Rows of a day, and those that say v of it. *)
RowsOf(d) == {r \in Sent : r.day = d}
RowsSaying(d, v) == {r \in RowsOf(d) : r.id = v.id /\ r.out = v.out}

(* Writes of a day for an account, and those that say v of it. *)
RowWrite == [to : User, day : Day, row : [id : Nat, out : 0 .. MaxOut]]
WritesOf(u, d) == {w \in RowWrite : w.to = u /\ w.day = d}
WritesSaying(u, d, v) == {w \in WritesOf(u, d) : w.row = v}

(* Rows of a month; writes of the flag for an account, and those of f. *)
RowsFlagged(f) == {r \in Sent : r.month = f}
FlagWrite == [to : User, flag : Month]
FlagsOf(u) == {w \in FlagWrite : w.to = u}
FlagsSaying(u, f) == {w \in FlagsOf(u) : w.flag = f}

(* Every day the account has asked for will be stored as asked. *)
RowsWillBe ==
  user \in Watched =>
    \A d \in Day :
      asked.rows[d] # None =>
        WillBe(sending, outbox, RowsOf(d), RowsSaying(d, asked.rows[d]),
               WritesOf(user, d), WritesSaying(user, d, asked.rows[d]),
               remote[user].rows[d] = asked.rows[d])

(* And so will the flag. *)
FlagWillBe ==
  user \in Watched /\ asked.flag # None =>
    WillBe(sending, outbox, Sent, RowsFlagged(asked.flag),
           FlagsOf(user), FlagsSaying(user, asked.flag), remote[user].flag = asked.flag)

(* Sections are of rows the list has. *)
SectionsThere ==
  sections = {} \/ (datas \in Seq(Row) /\ sections \subseteq DOMAIN datas)

ExportInv == TypeOK /\ SectionsThere /\ RowsWillBe /\ FlagWillBe

-----------------------------------------------------------------------------
(* The rows of a further press join the queue: they settle the matter, or  *)
(* do not touch it.                                                        *)
LEMMA WillBeAsked ==
  ASSUME NEW s \in Seq(Sent), NEW t \in Seq(Sent), NEW o,
         NEW A, NEW B, NEW C, NEW D, NEW there \in BOOLEAN
  PROVE  /\ LastIn(t, A, B) => WillBe(s \o t, o, A, B, C, D, there)
         /\ NoneIn(t, A) /\ WillBe(s, o, A, B, C, D, there)
              => WillBe(s \o t, o, A, B, C, D, there)
BY ConcatLast DEF WillBe

(* The first row becomes two writes, of which the second, or the first, is *)
(* of another matter.                                                      *)
LEMMA WillBeSent ==
  ASSUME NEW s \in Seq(Sent), s # <<>>, NEW o \in Seq(Write), NEW a \in Write, NEW b \in Write,
         NEW A, NEW B, NEW C, NEW D, NEW there \in BOOLEAN,
         WillBe(s, o, A, B, C, D, there),
         \/ b \notin C /\ (Head(s) \in B => a \in D) /\ (Head(s) \notin A => a \notin C)
         \/ a \notin C /\ (Head(s) \in B => b \in D) /\ (Head(s) \notin A => b \notin C)
  PROVE  WillBe(Tail(s), o \o <<a, b>>, A, B, C, D, there)
<1> DEFINE p == Append(o, a)
           q == Append(p, b)
           h == Head(s)
           t == Tail(s)
<1>1. o \o <<a, b>> = q
  OBVIOUS
<1>2. p \in Seq(Write)
  OBVIOUS
<1>3. /\ a \in D => LastIn(p, C, D)
      /\ a \notin C /\ LastIn(o, C, D) => LastIn(p, C, D)
      /\ a \notin C /\ NoneIn(o, C) => NoneIn(p, C)
  BY AppendLast
<1> HIDE DEF p
<1>4. /\ b \in D => LastIn(q, C, D)
      /\ b \notin C /\ LastIn(p, C, D) => LastIn(q, C, D)
      /\ b \notin C /\ NoneIn(p, C) => NoneIn(q, C)
  BY <1>2, AppendLast
<1>5. /\ LastIn(s, A, B) => LastIn(t, A, B) \/ (h \in B /\ NoneIn(t, A))
      /\ NoneIn(s, A) => h \notin A /\ NoneIn(t, A)
  BY TailLast
<1>6. WillBe(t, q, A, B, C, D, there)
  <2> HIDE DEF q, h, t
  <2>1. \/ b \notin C /\ (h \in B => a \in D) /\ (h \notin A => a \notin C)
        \/ a \notin C /\ (h \in B => b \in D) /\ (h \notin A => b \notin C)
    BY DEF h
  <2>2. CASE LastIn(s, A, B)
    <3>1. h \in B => LastIn(q, C, D)
      BY <1>3, <1>4, <2>1, Zenon
    <3> QED
      BY <1>5, <2>2, <3>1, Zenon DEF WillBe
  <2>3. CASE NoneIn(s, A)
    <3>1. a \notin C /\ b \notin C /\ NoneIn(t, A)
      BY <1>5, <2>1, <2>3, Zenon
    <3>2. LastIn(o, C, D) => LastIn(q, C, D)
      BY <1>3, <1>4, <3>1, Zenon
    <3>3. NoneIn(o, C) => NoneIn(q, C)
      BY <1>3, <1>4, <3>1, Zenon
    <3>4. CASE LastIn(o, C, D)
      BY <3>1, <3>2, <3>4, Zenon DEF WillBe
    <3>5. CASE NoneIn(o, C) /\ there
      BY <3>1, <3>3, <3>5, Zenon DEF WillBe
    <3>6. CASE LastIn(s, A, B)
      BY <2>2, <3>6
    <3> QED
      BY <3>4, <3>5, <3>6, Zenon DEF WillBe
  <2> QED
    BY <2>2, <2>3, Zenon DEF WillBe
<1> QED
  BY <1>1, <1>6 DEF t

(* The first write is applied. *)
LEMMA WillBeStored ==
  ASSUME NEW s, NEW o \in Seq(Write), o # <<>>,
         NEW A, NEW B, NEW C, NEW D, NEW there \in BOOLEAN, NEW then \in BOOLEAN,
         WillBe(s, o, A, B, C, D, there),
         Head(o) \in D => then,
         Head(o) \notin C => (there => then)
  PROVE  WillBe(s, Tail(o), A, B, C, D, then)
<1> DEFINE t == Tail(o)
           h == Head(o)
<1>1. /\ LastIn(o, C, D) => LastIn(t, C, D) \/ (h \in D /\ NoneIn(t, C))
      /\ NoneIn(o, C) => h \notin C /\ NoneIn(t, C)
  BY TailLast
<1> HIDE DEF t
<1>2. WillBe(s, t, A, B, C, D, then)
  BY <1>1, Zenon DEF WillBe
<1> QED
  BY <1>2 DEF t

-----------------------------------------------------------------------------
(* Months of days, in order. *)
LEMMA MonthOfDay ==
  ASSUME NEW D \in Nat \ {0}, NEW a \in Nat, NEW b \in Nat, a <= b
  PROVE  a \div D \in Nat /\ a \div D <= b \div D
OBVIOUS

(* The text of a month. *)
LEMMA TextOfMonth ==
  ASSUME NEW M \in Nat \ {0}, NEW a \in Nat
  PROVE  a % M \in 0 .. (M - 1)
OBVIOUS

(* Some numbers up to n have a greatest one, and Max finds it. *)
LEMMA MaxIsGreatest ==
  ASSUME NEW n \in Nat, NEW T, T \subseteq 1 .. n, T # {}
  PROVE  Max(T) \in T /\ \A x \in T : x <= Max(T)
<1>1. PICK m \in T : \A x \in T : m >= x
  BY GreatestNumber
<1>2. Max(T) \in T /\ \A x \in T : Max(T) >= x
  BY <1>1, Zenon DEF Max
<1> QED
  BY <1>2

-----------------------------------------------------------------------------
(* Rows have months. *)
LEMMA RowMonth ==
  ASSUME NEW r, r.day \in Day
  PROVE  YearMonth(r) \in Month /\ MonthText(r) \in 0 .. (MonthsPerYear - 1)
<1>1. r.day \in Nat /\ LastDay \in Nat /\ r.day <= LastDay
  BY ExportAssumption DEF Day
<1>2. /\ r.day \div DaysPerMonth \in Nat /\ LastDay \div DaysPerMonth \in Nat
      /\ r.day \div DaysPerMonth <= LastDay \div DaysPerMonth
  <2>1. DaysPerMonth \in Nat \ {0}
    BY ExportAssumption
  <2>2. LastDay <= LastDay
    BY <1>1
  <2> QED
    BY <1>1, <2>1, <2>2, MonthOfDay
<1> DEFINE y == r.day \div DaysPerMonth
<1>3. y \in Month
  <2> DEFINE z == LastDay \div DaysPerMonth
  <2>1. y \in Nat /\ z \in Nat /\ y <= z
    BY <1>2
  <2> HIDE DEF y, z
  <2>2. y \in 0 .. z
    BY <2>1
  <2> QED
    BY <2>2 DEF z, Month
<1>4. y % MonthsPerYear \in 0 .. (MonthsPerYear - 1)
  <2>1. y \in Nat
    BY <1>2
  <2> HIDE DEF y
  <2> QED
    BY <2>1, ExportAssumption, TextOfMonth
<1> QED
  BY <1>3, <1>4 DEF y, YearMonth, MonthText

(* The last row of a day. *)
LEMMA LastOfDay ==
  ASSUME NEW rows \in Seq(Row), NEW d \in Day
  PROVE  /\ LastOf(rows, d) = None => {i \in DOMAIN rows : rows[i].day = d} = {}
         /\ LastOf(rows, d) # None =>
              /\ LastOf(rows, d) \in [id : Nat, out : 0 .. MaxOut]
              /\ \E k \in DOMAIN rows :
                   /\ rows[k].day = d
                   /\ LastOf(rows, d).id = k /\ LastOf(rows, d).out = rows[k].out
                   /\ \A j \in DOMAIN rows : rows[j].day = d => j <= k
<1> DEFINE is == {i \in DOMAIN rows : rows[i].day = d}
<1>0. LastOf(rows, d) = IF is = {} THEN None ELSE [id |-> Max(is), out |-> rows[Max(is)].out]
  BY DEF LastOf
<1>1. CASE is = {}
  BY <1>0, <1>1
<1>2. CASE is # {}
  <2>1. Len(rows) \in Nat /\ DOMAIN rows = 1 .. Len(rows) /\ is \subseteq 1 .. Len(rows)
    OBVIOUS
  <2>2. Max(is) \in is /\ \A x \in is : x <= Max(is)
    <3> HIDE DEF is
    <3> QED
      BY <1>2, <2>1, MaxIsGreatest
  <2> DEFINE k == Max(is)
             v == [id |-> k, out |-> rows[k].out]
  <2>3. k \in DOMAIN rows /\ rows[k].day = d /\ \A j \in DOMAIN rows : rows[j].day = d => j <= k
    <3> HIDE DEF k
    <3>1. k \in is /\ \A x \in is : x <= k
      BY <2>2 DEF k
    <3> QED
      BY <3>1
  <2>4. LastOf(rows, d) = v
    BY <1>0, <1>2
  <2> HIDE DEF is, k
  <2>5. rows[k] \in Row /\ k \in Nat
    BY <2>1, <2>3
  <2>6. rows[k].out \in 0 .. MaxOut /\ 0 .. MaxOut \subseteq Nat
    BY <2>5, ExportAssumption DEF Row
  <2>7. v \in [id : Nat, out : 0 .. MaxOut] /\ v \in [id : Nat, out : Nat]
    BY <2>5, <2>6
  <2>8. v # None
    BY <2>7, ExportAssumption
  <2> QED
    BY <2>3, <2>4, <2>7, <2>8
<1> QED
  BY <1>1, <1>2

(* The rows of the table, numbered, are rows to send. *)
LEMMA NumberedType ==
  ASSUME NEW rows \in Seq(Row), NEW m \in Month
  PROVE  /\ Numbered(rows, m) \in Seq(Sent)
         /\ Len(rows) \in Nat /\ DOMAIN rows = 1 .. Len(rows)
         /\ DOMAIN Numbered(rows, m) = 1 .. Len(rows)
         /\ \A i \in 1 .. Len(rows) :
              /\ rows[i] \in Row /\ Numbered(rows, m)[i] \in Sent
              /\ Numbered(rows, m)[i].id = i /\ Numbered(rows, m)[i].month = m
              /\ Numbered(rows, m)[i].day = rows[i].day
              /\ Numbered(rows, m)[i].out = rows[i].out
<1> DEFINE f == Numbered(rows, m)
           n == Len(rows)
<1>1. n \in Nat /\ DOMAIN rows = 1 .. n /\ \A i \in 1 .. n : rows[i] \in Row
  OBVIOUS
<1>2. \A r \in Row : r.day \in Day /\ r.out \in 0 .. MaxOut
  BY DEF Row
<1>3. DOMAIN f = 1 .. n /\ f = [i \in 1 .. n |-> f[i]]
  BY <1>1 DEF Numbered
<1>4. ASSUME NEW i \in 1 .. n
      PROVE  /\ f[i] \in Sent /\ f[i].id = i /\ f[i].month = m
             /\ f[i].day = rows[i].day /\ f[i].out = rows[i].out
  <2>1. f[i] = [id |-> i, day |-> rows[i].day, out |-> rows[i].out, month |-> m]
    BY <1>1 DEF Numbered
  <2>2. i \in Nat /\ rows[i].day \in Day /\ rows[i].out \in 0 .. MaxOut
    BY <1>1, <1>2
  <2> HIDE DEF f
  <2> QED
    BY <2>1, <2>2 DEF Sent
<1> HIDE DEF f, n
<1>5. f \in [1 .. n -> Sent]
  BY <1>3, <1>4
<1>6. f \in Seq(Sent)
  BY <1>1, <1>5
<1> QED
  BY <1>1, <1>3, <1>4, <1>6 DEF f, n

(* The rows of a month are rows to send, and of that month. *)
LEMMA InMonthType ==
  ASSUME NEW rows \in Seq(Row), NEW m \in Month
  PROVE  /\ InMonth(rows, m) \in Seq(Sent)
         /\ InMonth(rows, m) \in Seq({r \in Sent : YearMonth(r) = m})
         /\ InMonth(rows, m) \in Seq(RowsFlagged(m))
<1> DEFINE f == Numbered(rows, m)
           C == {r \in Sent : YearMonth(r) = m}
           F == RowsFlagged(m)
<1>1. f \in Seq(Sent) /\ f \in Seq(F)
  <2>1. f \in Seq(Sent) /\ Len(f) \in Nat /\ DOMAIN f = 1 .. Len(f)
    BY NumberedType
  <2>2. \A i \in DOMAIN f : f[i] \in F
    BY NumberedType DEF F, RowsFlagged
  <2> HIDE DEF f, F
  <2> QED
    BY <2>1, <2>2
<1> HIDE DEF f, F
<1>2. Only(f, C) \in Seq(Sent \cap C) /\ Only(f, C) \in Seq(F \cap C)
  <2> HIDE DEF C
  <2> QED
    BY <1>1, OnlyType
<1>3. Only(f, C) = InMonth(rows, m)
  BY DEF InMonth, f, C
<1> QED
  BY <1>2, <1>3 DEF F

(* A day of another month, or without rows, is not among them, *)
LEMMA InMonthNone ==
  ASSUME NEW rows \in Seq(Row), NEW m \in Month, NEW d \in Day,
         d \div DaysPerMonth # m \/ LastOf(rows, d) = None
  PROVE  NoneIn(InMonth(rows, m), RowsOf(d))
<1> DEFINE f == Numbered(rows, m)
           t == InMonth(rows, m)
           C == {r \in Sent : YearMonth(r) = m}
           E == Sent \ RowsOf(d)
<1>1. CASE d \div DaysPerMonth # m
  <2>1. t \in Seq(C)
    BY InMonthType
  <2>2. \A i \in DOMAIN t : t[i] \in C
    <3> HIDE DEF C, t
    <3> QED
      BY <2>1
  <2>3. \A r \in C : r \notin RowsOf(d)
    BY <1>1 DEF RowsOf, YearMonth
  <2> QED
    BY <2>2, <2>3 DEF NoneIn
<1>2. CASE LastOf(rows, d) = None
  <2>1. {i \in DOMAIN rows : rows[i].day = d} = {}
    BY <1>2, LastOfDay
  <2>2. f \in Seq(Sent) /\ Len(f) \in Nat /\ DOMAIN f = 1 .. Len(f)
    BY NumberedType
  <2>3. \A i \in DOMAIN f : f[i] \in E
    BY <2>1, NumberedType DEF RowsOf
  <2>4. f \in Seq(E)
    <3> HIDE DEF f, E
    <3> QED
      BY <2>2, <2>3
  <2>5. t \in Seq(E)
    <3>1. Only(f, C) \in Seq(E \cap C)
      <4> HIDE DEF f, E, C
      <4> QED
        BY <2>4, OnlyType
    <3>2. t = Only(f, C)
      BY DEF InMonth
    <3> HIDE DEF f, t, C, E
    <3> QED
      BY <3>1, <3>2
  <2>6. \A i \in DOMAIN t : t[i] \in E
    <3> HIDE DEF t, E
    <3> QED
      BY <2>5
  <2> QED
    BY <2>6 DEF NoneIn
<1> QED
  BY <1>1, <1>2

(* and a day of the month with rows is last among them as its last row. *)
LEMMA InMonthLast ==
  ASSUME NEW rows \in Seq(Row), NEW m \in Month, NEW d \in Day,
         d \div DaysPerMonth = m, LastOf(rows, d) # None
  PROVE  LastIn(InMonth(rows, m), RowsOf(d), RowsSaying(d, LastOf(rows, d)))
<1> DEFINE f == Numbered(rows, m)
           C == {r \in Sent : YearMonth(r) = m}
           A == RowsOf(d)
           v == LastOf(rows, d)
           B == RowsSaying(d, v)
<1>1. PICK k \in DOMAIN rows : /\ rows[k].day = d /\ v.id = k /\ v.out = rows[k].out
                               /\ \A j \in DOMAIN rows : rows[j].day = d => j <= k
  BY LastOfDay
<1>2. f \in Seq(Sent) /\ DOMAIN f = DOMAIN rows
  BY NumberedType
<1>3. k \in DOMAIN f /\ f[k] \in B
  BY <1>1, NumberedType DEF RowsSaying, RowsOf
<1>4. ASSUME NEW j \in DOMAIN f, j > k PROVE f[j] \notin A
  <2>1. j \in Nat /\ k \in Nat /\ ~(j <= k)
    BY <1>1, <1>2, <1>4, NumberedType
  <2>2. rows[j].day # d
    BY <1>1, <1>2, <2>1
  <2> QED
    BY <1>2, <2>2, NumberedType DEF RowsOf
<1>5. LastIn(f, A, B)
  BY <1>3, <1>4 DEF LastIn
<1>6. B \subseteq A /\ A \subseteq C
  BY DEF RowsSaying, RowsOf, YearMonth
<1>7. LastIn(Only(f, C), A, B)
  <2> HIDE DEF f, A, B, C
  <2> QED
    BY <1>2, <1>5, <1>6, OnlyLast
<1> QED
  BY <1>7 DEF InMonth


(* No row of the month is sent exactly if no day of it has a row, *)
LEMMA InMonthEmpty ==
  ASSUME NEW rows \in Seq(Row), NEW m \in Month,
         {d \in Day : d \div DaysPerMonth = m /\ LastOf(rows, d) # None} = {}
  PROVE  InMonth(rows, m) = <<>>
<1> DEFINE f == Numbered(rows, m)
           C == {r \in Sent : YearMonth(r) = m}
           E == Sent \ C
<1>1. f \in Seq(Sent) /\ Len(f) \in Nat /\ DOMAIN f = 1 .. Len(f) /\ DOMAIN f = DOMAIN rows
  BY NumberedType
<1>2. ASSUME NEW i \in DOMAIN f PROVE f[i] \in E
  <2>1. f[i] \in Sent /\ f[i].day = rows[i].day /\ rows[i].day \in Day
    <3>1. i \in 1 .. Len(rows)
      BY NumberedType
    <3>2. rows[i] \in Row /\ f[i] \in Sent /\ f[i].day = rows[i].day
      BY <3>1, NumberedType
    <3> QED
      BY <3>2 DEF Row
  <2>2. LastOf(rows, rows[i].day) # None
    BY <1>1, <2>1, LastOfDay
  <2>3. rows[i].day \div DaysPerMonth # m
    BY <2>1, <2>2
  <2> QED
    BY <2>1, <2>3 DEF YearMonth
<1>3. f \in Seq(E)
  <2> HIDE DEF f, E
  <2> QED
    BY <1>1, <1>2
<1>4. Only(f, C) = <<>>
  <2>1. E \cap C = {}
    OBVIOUS
  <2> HIDE DEF f, E, C
  <2> QED
    BY <1>3, <2>1, OnlyNone
<1> QED
  BY <1>4 DEF InMonth

(* and otherwise the flag is that of the month. *)
LEMMA InMonthFlag ==
  ASSUME NEW rows \in Seq(Row), NEW m \in Month, InMonth(rows, m) # <<>>
  PROVE  LastIn(InMonth(rows, m), Sent, RowsFlagged(m))
<1> DEFINE t == InMonth(rows, m)
<1>1. t \in Seq(RowsFlagged(m)) /\ t # <<>>
  BY InMonthType
<1> HIDE DEF t
<1>2. Len(t) \in DOMAIN t /\ t[Len(t)] \in RowsFlagged(m) /\ \A j \in DOMAIN t : ~(j > Len(t))
  BY <1>1
<1>3. LastIn(t, Sent, RowsFlagged(m))
  BY <1>2 DEF LastIn
<1> QED
  BY <1>3 DEF t

(* What an answered press adds to what was asked for. *)
LEMMA AskedMonth ==
  ASSUME NEW b \in Book, NEW rows \in Seq(Row), NEW m \in Month
  PROVE  /\ WithMonth(b, rows, m) \in Book
         /\ \A d \in Day :
              IF d \div DaysPerMonth = m /\ LastOf(rows, d) # None
              THEN WithMonth(b, rows, m).rows[d] = LastOf(rows, d)
              ELSE WithMonth(b, rows, m).rows[d] = b.rows[d]
         /\ \/ InMonth(rows, m) = <<>> /\ WithMonth(b, rows, m).flag = b.flag
            \/ InMonth(rows, m) # <<>> /\ WithMonth(b, rows, m).flag = m
<1> DEFINE new == {d \in Day : d \div DaysPerMonth = m /\ LastOf(rows, d) # None}
           g == [d \in Day |-> IF d \in new THEN LastOf(rows, d) ELSE b.rows[d]]
           V == [id : Nat, out : 0 .. MaxOut] \cup {None}
<1>0. WithMonth(b, rows, m) = IF new = {} THEN b ELSE [rows |-> g, flag |-> m]
  BY DEF WithMonth
<1>1. \A d \in new : LastOf(rows, d) \in V
  BY LastOfDay
<1>2. b.rows \in [Day -> V] /\ b.flag \in Month \cup {None}
  BY DEF Book
<1>3. CASE new = {}
  <2>1. WithMonth(b, rows, m) = b
    BY <1>0, <1>3
  <2>2. InMonth(rows, m) = <<>>
    BY <1>3, InMonthEmpty
  <2>3. \A d \in Day : ~(d \div DaysPerMonth = m /\ LastOf(rows, d) # None)
    BY <1>3
  <2> QED
    BY <2>1, <2>2, <2>3
<1>4. CASE new # {}
  <2>1. WithMonth(b, rows, m) = [rows |-> g, flag |-> m]
    BY <1>0, <1>4
  <2>2. g \in [Day -> V]
    <3> HIDE DEF new, V
    <3> QED
      BY <1>1, <1>2
  <2>3. [rows |-> g, flag |-> m] \in Book
    <3> HIDE DEF g
    <3> QED
      BY <2>2 DEF Book
  <2>4. InMonth(rows, m) # <<>>
    <3>1. PICK d \in Day : d \div DaysPerMonth = m /\ LastOf(rows, d) # None
      BY <1>4
    <3>2. LastIn(InMonth(rows, m), RowsOf(d), RowsSaying(d, LastOf(rows, d)))
      BY <3>1, InMonthLast
    <3> QED
      BY <3>2 DEF LastIn
  <2>5. \A d \in Day : IF d \div DaysPerMonth = m /\ LastOf(rows, d) # None
                       THEN g[d] = LastOf(rows, d)
                       ELSE g[d] = b.rows[d]
    OBVIOUS
  <2> HIDE DEF g
  <2> QED
    BY <2>1, <2>3, <2>4, <2>5
<1> QED
  BY <1>3, <1>4

(* The field that survives rebuilds holds the text of a month. *)
LEMMA MonthworkType ==
  ASSUME NEW rows \in Seq(Row), NEW mw \in 0 .. (MonthsPerYear - 1) \cup {None}
  PROVE  /\ MonthworkAt(rows, mw, Len(rows) + 1) \in 0 .. (MonthsPerYear - 1) \cup {None}
         /\ Sections(rows, mw) \subseteq DOMAIN rows /\ DOMAIN rows \subseteq Nat
<1> DEFINE n == Len(rows)
           js == CompleteBefore(rows, n + 1)
<1>1. n \in Nat /\ DOMAIN rows = 1 .. n /\ \A i \in 1 .. n : rows[i] \in Row
  OBVIOUS
<1>2. js \subseteq 1 .. n
  BY <1>1 DEF CompleteBefore
<1>3. ASSUME js # {} PROVE MonthText(rows[Max(js)]) \in 0 .. (MonthsPerYear - 1)
  <2> HIDE DEF js, n
  <2>1. Max(js) \in 1 .. n
    BY <1>1, <1>2, <1>3, MaxIsGreatest
  <2>2. rows[Max(js)].day \in Day
    BY <1>1, <2>1 DEF Row
  <2> QED
    BY <2>2, RowMonth
<1>4. MonthworkAt(rows, mw, n + 1) = IF js = {} THEN mw ELSE MonthText(rows[Max(js)])
  BY DEF MonthworkAt
<1>5. MonthworkAt(rows, mw, n + 1) \in 0 .. (MonthsPerYear - 1) \cup {None}
  <2> HIDE DEF js
  <2> QED
    BY <1>3, <1>4
<1>6. Sections(rows, mw) \subseteq DOMAIN rows /\ DOMAIN rows \subseteq Nat
  BY <1>1 DEF Sections
<1> QED
  BY <1>5, <1>6


-----------------------------------------------------------------------------
(* A write is of a row or of the flag, and never of both. *)
LEMMA WriteKinds == RowWrite \cap FlagWrite = {}
<1> SUFFICES ASSUME NEW w \in RowWrite, w \in FlagWrite PROVE FALSE
  OBVIOUS
<1>1. DOMAIN w = {"to", "day", "row"}
  BY DEF RowWrite
<1>2. DOMAIN w = {"to", "flag"}
  BY DEF FlagWrite
<1>3. "day" \in DOMAIN w
  BY <1>1
<1>4. "day" \notin DOMAIN w
  BY <1>2
<1> QED
  BY <1>3, <1>4

(* The two writes a row becomes. *)
RowOf(u, r) == [to |-> u, day |-> r.day, row |-> [id |-> r.id, out |-> r.out]]
FlagOf(u, r) == [to |-> u, flag |-> r.month]

LEMMA SentWrites ==
  ASSUME NEW u \in User, NEW r \in Sent
  PROVE  /\ RowOf(u, r) \in Write /\ RowOf(u, r) \in RowWrite /\ RowOf(u, r) \notin FlagWrite
         /\ FlagOf(u, r) \in Write /\ FlagOf(u, r) \in FlagWrite /\ FlagOf(u, r) \notin RowWrite
<1>1. r.id \in Nat /\ r.day \in Day /\ r.out \in 0 .. MaxOut /\ r.month \in Month
  BY DEF Sent
<1>2. RowOf(u, r) \in RowWrite /\ FlagOf(u, r) \in FlagWrite
  BY <1>1 DEF RowOf, FlagOf, RowWrite, FlagWrite
<1>3. RowWrite \cap FlagWrite = {}
  BY WriteKinds
<1>4. RowWrite \subseteq Write /\ FlagWrite \subseteq Write
  BY DEF RowWrite, FlagWrite, Write
<1> QED
  BY <1>2, <1>3, <1>4

(* What the step that sends a row adds to the outbox. *)
LEMMA SendRowAdds ==
  ASSUME TypeOK, SendRow
  PROVE  /\ sending \in Seq(Sent) /\ sending # <<>> /\ Head(sending) \in Sent
         /\ sending' = Tail(sending)
         /\ outbox' = IF user = NoUser THEN outbox
                      ELSE outbox \o <<RowOf(user, Head(sending)), FlagOf(user, Head(sending))>>
         /\ outbox' \in Seq(Write)
<1>1. sending \in Seq(Sent) /\ sending # <<>> /\ outbox \in Seq(Write) /\ user \in User \cup {NoUser}
  BY DEF TypeOK, SendRow
<1>2. Head(sending) \in Sent
  BY <1>1
<1>3. outbox' = IF user = NoUser THEN outbox
                ELSE outbox \o <<RowOf(user, Head(sending)), FlagOf(user, Head(sending))>>
  BY DEF SendRow, RowOf, FlagOf
<1>4. ASSUME user # NoUser
      PROVE  RowOf(user, Head(sending)) \in Write /\ FlagOf(user, Head(sending)) \in Write
  BY <1>1, <1>2, <1>4, SentWrites
<1>5. outbox' \in Seq(Write)
  BY <1>1, <1>3, <1>4
<1> QED
  BY <1>1, <1>2, <1>3, <1>5 DEF SendRow

(* What the server does with a write. *)
LEMMA CommitStores ==
  ASSUME TypeOK, Commit
  PROVE  /\ outbox \in Seq(Write) /\ outbox # <<>> /\ Head(outbox) \in Write
         /\ outbox' = Tail(outbox) /\ outbox' \in Seq(Write)
         /\ remote' \in [Watched -> Book]
         /\ \A u \in Watched :
              /\ \A d \in Day :
                   IF Head(outbox) \in WritesOf(u, d)
                   THEN remote'[u].rows[d] = Head(outbox).row
                   ELSE remote'[u].rows[d] = remote[u].rows[d]
              /\ IF Head(outbox) \in FlagsOf(u)
                 THEN remote'[u].flag = Head(outbox).flag
                 ELSE remote'[u].flag = remote[u].flag
<1> DEFINE w == Head(outbox)
<1>1. /\ outbox \in Seq(Write) /\ outbox # <<>> /\ outbox' = Tail(outbox)
      /\ remote \in [Watched -> Book]
      /\ remote' = IF w.to \notin Watched THEN remote
                   ELSE IF "flag" \in DOMAIN w
                   THEN [remote EXCEPT ![w.to].flag = w.flag]
                   ELSE [remote EXCEPT ![w.to].rows[w.day] = w.row]
  BY DEF TypeOK, Commit
<1>2. w \in Write /\ Tail(outbox) \in Seq(Write)
  BY <1>1
<1> HIDE DEF w
<1>3. w \in RowWrite \/ w \in FlagWrite
  BY <1>2 DEF Write, RowWrite, FlagWrite
<1>4. \A u \in Watched : /\ remote[u] = [rows |-> remote[u].rows, flag |-> remote[u].flag]
                         /\ remote[u].rows \in [Day -> [id : Nat, out : 0 .. MaxOut] \cup {None}]
                         /\ remote[u].flag \in Month \cup {None}
  <2>1. \A b \in Book : /\ b = [rows |-> b.rows, flag |-> b.flag]
                        /\ b.rows \in [Day -> [id : Nat, out : 0 .. MaxOut] \cup {None}]
                        /\ b.flag \in Month \cup {None}
    BY DEF Book
  <2> QED
    BY <1>1, <2>1
<1> DEFINE Says ==
      /\ remote' \in [Watched -> Book]
      /\ \A u \in Watched :
           /\ \A d \in Day : IF w \in WritesOf(u, d) THEN remote'[u].rows[d] = w.row
                             ELSE remote'[u].rows[d] = remote[u].rows[d]
           /\ IF w \in FlagsOf(u) THEN remote'[u].flag = w.flag
              ELSE remote'[u].flag = remote[u].flag
<1>5. ASSUME w.to \notin Watched PROVE Says
  <2>1. remote' = remote
    BY <1>1, <1>5
  <2>2. \A u \in Watched : w \notin FlagsOf(u) /\ \A d \in Day : w \notin WritesOf(u, d)
    BY <1>5 DEF FlagsOf, WritesOf
  <2> QED
    BY <1>1, <2>1, <2>2
<1>6. ASSUME w.to \in Watched /\ w \in FlagWrite PROVE Says
  <2>1. "flag" \in DOMAIN w /\ w.flag \in Month
    BY <1>6 DEF FlagWrite
  <2>2. remote' = [remote EXCEPT ![w.to].flag = w.flag]
    BY <1>1, <1>6, <2>1
  <2> DEFINE b == [rows |-> remote[w.to].rows, flag |-> w.flag]
  <2>3. remote' = [remote EXCEPT ![w.to] = b]
    BY <1>1, <1>4, <1>6, <2>2
  <2>4. b \in Book
    BY <1>4, <1>6, <2>1 DEF Book
  <2>5. b.rows = remote[w.to].rows /\ b.flag = w.flag
    OBVIOUS
  <2> HIDE DEF b
  <2>6. /\ remote' \in [Watched -> Book] /\ remote'[w.to] = b
        /\ \A u \in Watched : u # w.to => remote'[u] = remote[u]
    BY <1>1, <1>6, <2>3, <2>4
  <2>7. \A u \in Watched : \A d \in Day : w \notin WritesOf(u, d)
    BY <1>6, WriteKinds DEF WritesOf
  <2>8. \A u \in Watched : w \in FlagsOf(u) <=> u = w.to
    BY <1>6 DEF FlagsOf
  <2> QED
    BY <2>5, <2>6, <2>7, <2>8
<1>7. ASSUME w.to \in Watched /\ w \in RowWrite PROVE Says
  <2>1. "flag" \notin DOMAIN w /\ w.day \in Day /\ w.row \in [id : Nat, out : 0 .. MaxOut]
    BY <1>7 DEF RowWrite
  <2>2. remote' = [remote EXCEPT ![w.to].rows[w.day] = w.row]
    BY <1>1, <1>7, <2>1
  <2> DEFINE g == [remote[w.to].rows EXCEPT ![w.day] = w.row]
             b == [rows |-> g, flag |-> remote[w.to].flag]
  <2>3. remote' = [remote EXCEPT ![w.to] = b]
    BY <1>1, <1>4, <1>7, <2>2
  <2>4. g \in [Day -> [id : Nat, out : 0 .. MaxOut] \cup {None}]
    BY <1>4, <1>7, <2>1
  <2>5. \A d \in Day : IF d = w.day THEN g[d] = w.row ELSE g[d] = remote[w.to].rows[d]
    BY <1>4, <1>7, <2>1
  <2> HIDE DEF g
  <2>6. b \in Book
    BY <1>4, <1>7, <2>4 DEF Book
  <2>7. b.rows = g /\ b.flag = remote[w.to].flag
    OBVIOUS
  <2> HIDE DEF b
  <2>8. /\ remote' \in [Watched -> Book] /\ remote'[w.to] = b
        /\ \A u \in Watched : u # w.to => remote'[u] = remote[u]
    BY <1>1, <1>7, <2>3, <2>6
  <2>9. \A u \in Watched : w \notin FlagsOf(u)
    BY <1>7, WriteKinds DEF FlagsOf
  <2>10. \A u \in Watched : \A d \in Day : w \in WritesOf(u, d) <=> u = w.to /\ d = w.day
    BY <1>7 DEF WritesOf
  <2> QED
    BY <2>5, <2>7, <2>8, <2>9, <2>10
<1>8. Says
  BY <1>3, <1>5, <1>6, <1>7
<1> QED
  BY <1>1, <1>2, <1>8 DEF w

-----------------------------------------------------------------------------
(* Nothing is there, asked for or under way at first. *)
LEMMA InitExport == Init => ExportInv
<1> SUFFICES ASSUME Init PROVE ExportInv
  OBVIOUS
<1>1. Empty \in Book
  BY DEF Empty, Book
<1>2. TypeOK
  <2>1. loading \in BOOLEAN
    BY Zenon DEF Init
  <2>2. remote \in [Watched -> Book]
    BY <1>1 DEF Init
  <2> QED
    BY <1>1, <2>1, <2>2 DEF Init, TypeOK
<1>3. SectionsThere
  BY DEF Init, SectionsThere
<1>4. RowsWillBe /\ FlagWillBe
  <2>1. user = NoUser /\ NoUser \notin Watched
    BY ExportAssumption DEF Init
  <2> QED
    BY <2>1 DEF RowsWillBe, FlagWillBe
<1> QED
  BY <1>2, <1>3, <1>4 DEF ExportInv

(* Steps that leave uploads alone. *)
Aside ==
  \/ \E d \in Day : ClockIn(d)
  \/ \E d \in Day, i \in DOMAIN table : ClockOut(i, d)
  \/ OpenList \/ Rebuild \/ Reload \/ CloseList
  \/ \E i \in sections : Press(i)
  \/ UNCHANGED vars

(* Steps after which nothing is asked for yet. *)
Afresh == (\E u \in User : SignIn(u)) \/ SignOut \/ AppKill

LEMMA StepKinds == [Next]_vars => Aside \/ Answer \/ SendRow \/ Commit \/ Afresh
BY DEF Next, Aside, Afresh

LEMMA AsideKeeps ==
  Aside => UNCHANGED <<user, sending, outbox, remote, asked>>
BY DEF Aside, ClockIn, ClockOut, OpenList, Rebuild, Reload, CloseList, Press, vars

LEMMA AfreshAsks ==
  Afresh => asked' = Empty
BY DEF Afresh, SignIn, SignOut, AppKill

(* Every step keeps the types, and sections are of rows the list has. *)
LEMMA TypeStep ==
  ASSUME TypeOK, SectionsThere, [Next]_vars
  PROVE  TypeOK' /\ SectionsThere'
<1>0. /\ table \in Seq(Row) /\ user \in User \cup {NoUser}
      /\ datas \in Seq(Row) \cup {None}
      /\ monthwork \in 0 .. (MonthsPerYear - 1) \cup {None}
      /\ sections \subseteq Nat
      /\ queries \in Seq(Month) /\ sending \in Seq(Sent) /\ outbox \in Seq(Write)
      /\ remote \in [Watched -> Book] /\ asked \in Book
  BY DEF TypeOK
<1>l. loading \in BOOLEAN
  BY DEF TypeOK
<1>e. Empty \in Book
  BY DEF Empty, Book
<1>1. ASSUME NEW d \in Day, ClockIn(d) PROVE TypeOK' /\ SectionsThere'
  <2>1. [day |-> d, out |-> 0] \in Row
    BY ExportAssumption DEF Row
  <2>2. table' \in Seq(Row)
    BY <1>0, <1>1, <2>1 DEF ClockIn
  <2>3. UNCHANGED <<user, datas, loading, monthwork, sections, queries, sending, outbox, remote, asked>>
    BY <1>1 DEF ClockIn, list
  <2> QED
    BY <2>2, <2>3 DEF TypeOK, SectionsThere
<1>2. ASSUME NEW d \in Day, NEW i \in DOMAIN table, ClockOut(i, d) PROVE TypeOK' /\ SectionsThere'
  <2> DEFINE r == [day |-> d, out |-> table[i].out + 1]
  <2>1. table[i].out \in 0 .. MaxOut /\ table[i].out < MaxOut
    <3>1. table[i] \in Row
      BY <1>0
    <3> QED
      BY <1>2, <3>1 DEF Row, ClockOut
  <2>2. table[i].out + 1 \in 0 .. MaxOut
    BY <2>1, ExportAssumption
  <2>3. r \in Row
    BY <2>2 DEF Row
  <2>4. table' = [table EXCEPT ![i] = r]
    BY <1>2 DEF ClockOut
  <2> HIDE DEF r
  <2>5. table' \in Seq(Row)
    BY <1>0, <2>3, <2>4
  <2>6. UNCHANGED <<user, datas, loading, monthwork, sections, queries, sending, outbox, remote, asked>>
    BY <1>2 DEF ClockOut, list
  <2> QED
    BY <2>5, <2>6 DEF TypeOK, SectionsThere
<1>3. CASE OpenList
  <2>1. /\ datas' = table /\ sections' = Sections(table, None)
        /\ monthwork' = MonthworkAt(table, None, Len(table) + 1)
        /\ UNCHANGED <<table, user, loading, queries, sending, outbox, remote, asked>>
    BY <1>3 DEF OpenList
  <2>2. /\ monthwork' \in 0 .. (MonthsPerYear - 1) \cup {None}
        /\ sections' \subseteq DOMAIN table /\ DOMAIN table \subseteq Nat
    BY <1>0, <2>1, MonthworkType
  <2>3. sections' \subseteq Nat /\ datas' \in Seq(Row)
    BY <1>0, <2>1, <2>2
  <2>4. SectionsThere'
    BY <2>1, <2>2, <2>3 DEF SectionsThere
  <2>5. loading' \in BOOLEAN
    BY <1>l, <2>1
  <2> QED
    BY <1>0, <2>1, <2>2, <2>3, <2>4, <2>5 DEF TypeOK
<1>4. CASE Rebuild
  <2>1. /\ datas \in Seq(Row) /\ datas' = datas /\ sections' = Sections(datas, monthwork)
        /\ monthwork' = MonthworkAt(datas, monthwork, Len(datas) + 1)
        /\ UNCHANGED <<table, user, queries, sending, outbox, remote, asked>>
    BY <1>0, <1>4 DEF Rebuild
  <2>2. /\ monthwork' \in 0 .. (MonthsPerYear - 1) \cup {None}
        /\ sections' \subseteq DOMAIN datas /\ DOMAIN datas \subseteq Nat
    BY <1>0, <2>1, MonthworkType
  <2>3. sections' \subseteq Nat /\ datas' \in Seq(Row)
    BY <2>1, <2>2
  <2>4. SectionsThere'
    BY <2>1, <2>2, <2>3 DEF SectionsThere
  <2>5. loading' \in BOOLEAN
    BY <1>4, Zenon DEF Rebuild
  <2> QED
    BY <1>0, <2>1, <2>2, <2>3, <2>4, <2>5 DEF TypeOK
<1>5. CASE Reload
  <2>1. /\ datas' = table /\ sections' = Sections(table, monthwork)
        /\ monthwork' = MonthworkAt(table, monthwork, Len(table) + 1)
        /\ UNCHANGED <<table, user, queries, sending, outbox, remote, asked>>
    BY <1>5 DEF Reload
  <2>2. /\ monthwork' \in 0 .. (MonthsPerYear - 1) \cup {None}
        /\ sections' \subseteq DOMAIN table /\ DOMAIN table \subseteq Nat
    BY <1>0, <2>1, MonthworkType
  <2>3. sections' \subseteq Nat /\ datas' \in Seq(Row)
    BY <1>0, <2>1, <2>2
  <2>4. SectionsThere'
    BY <2>1, <2>2, <2>3 DEF SectionsThere
  <2>5. loading' \in BOOLEAN
    BY <1>5, Zenon DEF Reload
  <2> QED
    BY <1>0, <2>1, <2>2, <2>3, <2>4, <2>5 DEF TypeOK
<1>n. ASSUME NoList
      PROVE  /\ datas' \in Seq(Row) \cup {None} /\ sections' = {} /\ sections' \subseteq Nat
             /\ monthwork' \in 0 .. (MonthsPerYear - 1) \cup {None} /\ SectionsThere'
  BY <1>n DEF NoList, SectionsThere
<1>m. ASSUME NoList PROVE loading' \in BOOLEAN
  BY <1>m, Zenon DEF NoList
<1>6. CASE CloseList
  <2>1. NoList /\ UNCHANGED <<table, user, queries, sending, outbox, remote, asked>>
    BY <1>6 DEF CloseList
  <2> QED
    BY <1>0, <1>n, <1>m, <2>1 DEF TypeOK
<1>7. ASSUME NEW i \in sections, Press(i) PROVE TypeOK' /\ SectionsThere'
  <2>1. datas[i] \in Row
    <3>1. datas \in Seq(Row) /\ i \in DOMAIN datas
      BY DEF SectionsThere
    <3> QED
      BY <3>1
  <2>2. YearMonth(datas[i]) \in Month
    <3>1. datas[i].day \in Day
      BY <2>1 DEF Row
    <3> QED
      BY <3>1, RowMonth
  <2>3. queries' \in Seq(Month)
    BY <1>0, <1>7, <2>2 DEF Press
  <2>4. UNCHANGED <<table, user, datas, loading, monthwork, sections, sending, outbox, remote, asked>>
    BY <1>7 DEF Press, list
  <2> QED
    BY <2>3, <2>4 DEF TypeOK, SectionsThere
<1>8. CASE Answer
  <2> DEFINE m == Head(queries)
  <2>1. /\ queries # <<>> /\ sending' = sending \o InMonth(table, m) /\ queries' = Tail(queries)
        /\ asked' = IF user = NoUser THEN asked ELSE WithMonth(asked, table, m)
    BY <1>8 DEF Answer
  <2>2. m \in Month /\ Tail(queries) \in Seq(Month)
    BY <1>0, <2>1
  <2> HIDE DEF m
  <2>3. sending' \in Seq(Sent) /\ queries' \in Seq(Month)
    <3>1. InMonth(table, m) \in Seq(Sent)
      BY <1>0, <2>2, InMonthType
    <3> QED
      BY <1>0, <2>1, <2>2, <3>1
  <2>4. asked' \in Book
    <3>1. WithMonth(asked, table, m) \in Book
      BY <1>0, <2>2, AskedMonth
    <3> QED
      BY <1>0, <2>1, <3>1
  <2>5. UNCHANGED <<table, user, datas, loading, monthwork, sections, outbox, remote>>
    BY <1>8 DEF Answer, list
  <2> QED
    BY <2>3, <2>4, <2>5 DEF TypeOK, SectionsThere
<1>9. CASE SendRow
  <2>1. sending # <<>> /\ sending' = Tail(sending) /\ sending' \in Seq(Sent)
    BY <1>0, <1>9 DEF SendRow
  <2>2. outbox' \in Seq(Write)
    BY <1>9, SendRowAdds
  <2>3. UNCHANGED <<table, user, datas, loading, monthwork, sections, queries, remote, asked>>
    BY <1>9 DEF SendRow, list
  <2> QED
    BY <2>1, <2>2, <2>3 DEF TypeOK, SectionsThere
<1>10. CASE Commit
  <2>1. outbox' \in Seq(Write)
    BY <1>10, CommitStores
  <2>2. remote' \in [Watched -> Book]
    BY <1>10, CommitStores
  <2>3. UNCHANGED <<table, user, datas, loading, monthwork, sections, queries, sending, asked>>
    BY <1>10 DEF Commit, list
  <2> QED
    BY <2>1, <2>2, <2>3 DEF TypeOK, SectionsThere
<1>11. ASSUME NEW u \in User, SignIn(u) PROVE TypeOK' /\ SectionsThere'
  <2>1. user' = u /\ asked' = Empty
        /\ UNCHANGED <<table, datas, loading, monthwork, sections, queries, sending, outbox, remote>>
    BY <1>11 DEF SignIn, list
  <2> QED
    BY <1>0, <1>e, <2>1 DEF TypeOK, SectionsThere
<1>12. CASE SignOut
  <2>1. user' = NoUser /\ asked' = Empty
        /\ UNCHANGED <<table, datas, loading, monthwork, sections, queries, sending, outbox, remote>>
    BY <1>12 DEF SignOut, list
  <2> QED
    BY <1>0, <1>e, <2>1 DEF TypeOK, SectionsThere
<1>13. CASE AppKill
  <2>1. /\ NoList /\ queries' = <<>> /\ sending' = <<>> /\ outbox' = <<>> /\ asked' = Empty
        /\ UNCHANGED <<table, user, remote>>
    BY <1>13 DEF AppKill
  <2> QED
    BY <1>0, <1>e, <1>n, <1>m, <2>1 DEF TypeOK
<1>14. CASE UNCHANGED vars
  <2>1. UNCHANGED <<table, user, datas, loading, monthwork, sections, queries, sending,
                    outbox, remote, asked>>
    BY <1>14 DEF vars, list
  <2> QED
    BY <2>1 DEF TypeOK, SectionsThere
<1> QED
  BY <1>1, <1>2, <1>3, <1>4, <1>5, <1>6, <1>7, <1>8, <1>9, <1>10, <1>11, <1>12, <1>13, <1>14
     DEF Next


(* Every step keeps what will be stored of the days asked for. *)
LEMMA RowsStep ==
  ASSUME TypeOK, TypeOK', RowsWillBe, [Next]_vars
  PROVE  RowsWillBe'
<1> SUFFICES ASSUME user' \in Watched, NEW d \in Day, asked'.rows[d] # None
             PROVE  WillBe(sending', outbox', RowsOf(d), RowsSaying(d, asked'.rows[d]),
                           WritesOf(user', d), WritesSaying(user', d, asked'.rows[d]),
                           remote'[user'].rows[d] = asked'.rows[d])
  BY DEF RowsWillBe
<1> DEFINE v == asked.rows[d]
           A == RowsOf(d)
           B == RowsSaying(d, v)
           C == WritesOf(user, d)
           D == WritesSaying(user, d, v)
           there == remote[user].rows[d] = v
<1>0. /\ table \in Seq(Row) /\ queries \in Seq(Month) /\ sending \in Seq(Sent)
      /\ outbox \in Seq(Write) /\ asked \in Book /\ Watched \subseteq User /\ NoUser \notin User
  BY ExportAssumption DEF TypeOK
<1>1. ASSUME user \in Watched, v # None PROVE WillBe(sending, outbox, A, B, C, D, there)
  BY <1>1 DEF RowsWillBe
<1>2. CASE Aside
  <2>1. UNCHANGED <<user, sending, outbox, remote, asked>>
    BY <1>2, AsideKeeps
  <2> QED
    BY <1>1, <2>1
<1>3. CASE Answer
  <2> DEFINE m == Head(queries)
             t == InMonth(table, m)
             x == WithMonth(asked, table, m)
  <2>1. queries # <<>> /\ sending' = sending \o t /\ UNCHANGED <<user, outbox, remote>>
    BY <1>3 DEF Answer
  <2>2. user \in Watched /\ asked' = x
    BY <1>0, <1>3, <2>1 DEF Answer
  <2>3. m \in Month
    BY <1>0, <2>1
  <2> HIDE DEF m
  <2>4. t \in Seq(Sent)
    BY <1>0, <2>3, InMonthType
  <2>5. CASE d \div DaysPerMonth = m /\ LastOf(table, d) # None
    <3>1. x.rows[d] = LastOf(table, d)
      BY <1>0, <2>3, <2>5, AskedMonth
    <3>2. LastIn(t, A, RowsSaying(d, asked'.rows[d]))
      BY <1>0, <2>2, <2>3, <2>5, <3>1, InMonthLast
    <3> HIDE DEF t, A, x
    <3>3. LastIn(sending \o t, A, RowsSaying(d, asked'.rows[d]))
      BY <1>0, <2>4, <3>2, ConcatLast
    <3> QED
      BY <2>1, <3>3 DEF WillBe, A
  <2>6. CASE ~(d \div DaysPerMonth = m /\ LastOf(table, d) # None)
    <3>1. x.rows[d] = v
      BY <1>0, <2>3, <2>6, AskedMonth
    <3>2. NoneIn(t, A)
      BY <1>0, <2>3, <2>6, InMonthNone
    <3>3. WillBe(sending, outbox, A, B, C, D, there)
      BY <1>1, <2>2, <3>1
    <3>4. there \in BOOLEAN
      OBVIOUS
    <3>5. WillBe(sending \o t, outbox, A, B, C, D, there)
      <4> HIDE DEF t, A, B, C, D, there
      <4> QED
        BY <1>0, <2>4, <3>2, <3>3, <3>4, WillBeAsked
    <3>6. asked'.rows[d] = v
      BY <2>2, <3>1
    <3> HIDE DEF t
    <3> QED
      BY <2>1, <3>5, <3>6
  <2> QED
    BY <2>5, <2>6
<1>4. CASE SendRow
  <2> DEFINE h == Head(sending)
             a == RowOf(user, h)
             b == FlagOf(user, h)
  <2>1. UNCHANGED <<user, remote, asked>>
    BY <1>4 DEF SendRow
  <2>2. user \in Watched /\ user \in User /\ v # None /\ user # NoUser
    BY <1>0, <2>1
  <2>3. /\ sending # <<>> /\ h \in Sent /\ sending' = Tail(sending)
        /\ outbox' = outbox \o <<a, b>>
    BY <1>4, <2>2, SendRowAdds
  <2>4. a \in Write /\ b \in Write /\ a \in RowWrite /\ b \notin RowWrite
    BY <2>2, <2>3, SentWrites
  <2>5. b \notin C
    BY <2>4 DEF WritesOf
  <2>6. h \notin A => a \notin C
    BY <2>3 DEF RowsOf, WritesOf, RowOf
  <2>7. h \in B => a \in D
    <3> SUFFICES ASSUME h \in B PROVE a \in D
      OBVIOUS
    <3>1. h.day = d /\ h.id = v.id /\ h.out = v.out
      BY DEF RowsSaying, RowsOf
    <3>2. v = [id |-> v.id, out |-> v.out]
      <4>1. v \in [id : Nat, out : 0 .. MaxOut]
        BY <1>0, <2>2 DEF Book
      <4> QED
        BY <4>1
    <3>3. a.to = user /\ a.day = d /\ a.row = [id |-> h.id, out |-> h.out]
      BY <3>1 DEF RowOf
    <3> HIDE DEF a, v
    <3>4. a.row = v
      BY <3>1, <3>2, <3>3
    <3> QED
      BY <2>4, <3>3, <3>4 DEF WritesSaying, WritesOf
  <2>8. there \in BOOLEAN /\ WillBe(sending, outbox, A, B, C, D, there)
    BY <1>1, <2>2
  <2>9. WillBe(Tail(sending), outbox \o <<a, b>>, A, B, C, D, there)
    <3> HIDE DEF a, b, A, B, C, D, there
    <3> QED
      BY <1>0, <2>3, <2>4, <2>5, <2>6, <2>7, <2>8, WillBeSent
  <2> HIDE DEF a, b
  <2> QED
    BY <2>1, <2>3, <2>9
<1>5. CASE Commit
  <2> DEFINE h == Head(outbox)
             then == remote'[user].rows[d] = v
  <2>1. UNCHANGED <<user, sending, asked>>
    BY <1>5 DEF Commit
  <2>2. user \in Watched /\ v # None
    BY <2>1
  <2>3. /\ outbox # <<>> /\ outbox' = Tail(outbox)
        /\ IF h \in C THEN remote'[user].rows[d] = h.row
           ELSE remote'[user].rows[d] = remote[user].rows[d]
    BY <1>5, <2>2, CommitStores
  <2>4. h \in D => then
    BY <2>3 DEF WritesSaying
  <2>5. h \notin C => (there => then)
    BY <2>3
  <2>6. there \in BOOLEAN /\ then \in BOOLEAN /\ WillBe(sending, outbox, A, B, C, D, there)
    BY <1>1, <2>2
  <2>7. WillBe(sending, Tail(outbox), A, B, C, D, then)
    <3> HIDE DEF A, B, C, D, there, then
    <3> QED
      BY <1>0, <2>3, <2>4, <2>5, <2>6, WillBeStored
  <2> QED
    BY <2>1, <2>3, <2>7
<1>6. CASE Afresh
  <2>1. asked'.rows[d] = None
    BY <1>6, AfreshAsks DEF Empty
  <2> QED
    BY <2>1
<1> QED
  BY <1>2, <1>3, <1>4, <1>5, <1>6, StepKinds

(* Every step keeps what will be stored of the flag. *)
LEMMA FlagStep ==
  ASSUME TypeOK, TypeOK', FlagWillBe, [Next]_vars
  PROVE  FlagWillBe'
<1> SUFFICES ASSUME user' \in Watched, asked'.flag # None
             PROVE  WillBe(sending', outbox', Sent, RowsFlagged(asked'.flag),
                           FlagsOf(user'), FlagsSaying(user', asked'.flag),
                           remote'[user'].flag = asked'.flag)
  BY DEF FlagWillBe
<1> DEFINE f == asked.flag
           B == RowsFlagged(f)
           C == FlagsOf(user)
           D == FlagsSaying(user, f)
           there == remote[user].flag = f
<1>0. /\ table \in Seq(Row) /\ queries \in Seq(Month) /\ sending \in Seq(Sent)
      /\ outbox \in Seq(Write) /\ asked \in Book /\ Watched \subseteq User /\ NoUser \notin User
  BY ExportAssumption DEF TypeOK
<1>1. ASSUME user \in Watched, f # None PROVE WillBe(sending, outbox, Sent, B, C, D, there)
  BY <1>1 DEF FlagWillBe
<1>2. CASE Aside
  <2>1. UNCHANGED <<user, sending, outbox, remote, asked>>
    BY <1>2, AsideKeeps
  <2> QED
    BY <1>1, <2>1
<1>3. CASE Answer
  <2> DEFINE m == Head(queries)
             t == InMonth(table, m)
             x == WithMonth(asked, table, m)
  <2>1. queries # <<>> /\ sending' = sending \o t /\ UNCHANGED <<user, outbox, remote>>
    BY <1>3 DEF Answer
  <2>2. user \in Watched /\ asked' = x
    BY <1>0, <1>3, <2>1 DEF Answer
  <2>3. m \in Month
    BY <1>0, <2>1
  <2> HIDE DEF m
  <2>4. t \in Seq(Sent)
    BY <1>0, <2>3, InMonthType
  <2>5. (t = <<>> /\ x.flag = f) \/ (t # <<>> /\ x.flag = m)
    BY <1>0, <2>3, AskedMonth
  <2>6. CASE t = <<>> /\ x.flag = f
    <3>1. sending' = sending /\ asked'.flag = f
      BY <1>0, <2>1, <2>2, <2>6
    <3> QED
      BY <1>1, <2>1, <2>2, <3>1
  <2>7. CASE t # <<>> /\ x.flag = m
    <3>1. LastIn(t, Sent, RowsFlagged(asked'.flag))
      BY <1>0, <2>2, <2>3, <2>7, InMonthFlag
    <3> HIDE DEF t, x
    <3>2. LastIn(sending \o t, Sent, RowsFlagged(asked'.flag))
      BY <1>0, <2>4, <3>1, ConcatLast
    <3> QED
      BY <2>1, <3>2 DEF WillBe
  <2> QED
    BY <2>5, <2>6, <2>7
<1>4. CASE SendRow
  <2> DEFINE h == Head(sending)
             a == RowOf(user, h)
             b == FlagOf(user, h)
  <2>1. UNCHANGED <<user, remote, asked>>
    BY <1>4 DEF SendRow
  <2>2. user \in Watched /\ user \in User /\ f # None /\ user # NoUser
    BY <1>0, <2>1
  <2>3. /\ sending # <<>> /\ h \in Sent /\ sending' = Tail(sending)
        /\ outbox' = outbox \o <<a, b>>
    BY <1>4, <2>2, SendRowAdds
  <2>4. a \in Write /\ b \in Write /\ a \notin FlagWrite /\ b \in FlagWrite
    BY <2>2, <2>3, SentWrites
  <2>5. a \notin C
    BY <2>4 DEF FlagsOf
  <2>6. h \notin Sent => b \notin C
    BY <2>3
  <2>7. h \in B => b \in D
    <3>1. b.to = user /\ b.flag = h.month
      BY DEF FlagOf
    <3> HIDE DEF b
    <3> QED
      BY <2>4, <3>1 DEF RowsFlagged, FlagsSaying, FlagsOf
  <2>8. there \in BOOLEAN /\ WillBe(sending, outbox, Sent, B, C, D, there)
    BY <1>1, <2>2
  <2>9. WillBe(Tail(sending), outbox \o <<a, b>>, Sent, B, C, D, there)
    <3> HIDE DEF a, b, B, C, D, there
    <3> QED
      BY <1>0, <2>3, <2>4, <2>5, <2>6, <2>7, <2>8, WillBeSent
  <2> HIDE DEF a, b
  <2> QED
    BY <2>1, <2>3, <2>9
<1>5. CASE Commit
  <2> DEFINE h == Head(outbox)
             then == remote'[user].flag = f
  <2>1. UNCHANGED <<user, sending, asked>>
    BY <1>5 DEF Commit
  <2>2. user \in Watched /\ f # None
    BY <2>1
  <2>3. /\ outbox # <<>> /\ outbox' = Tail(outbox)
        /\ IF h \in C THEN remote'[user].flag = h.flag
           ELSE remote'[user].flag = remote[user].flag
    BY <1>5, <2>2, CommitStores
  <2>4. h \in D => then
    BY <2>3 DEF FlagsSaying
  <2>5. h \notin C => (there => then)
    BY <2>3
  <2>6. there \in BOOLEAN /\ then \in BOOLEAN /\ WillBe(sending, outbox, Sent, B, C, D, there)
    BY <1>1, <2>2
  <2>7. WillBe(sending, Tail(outbox), Sent, B, C, D, then)
    <3> HIDE DEF B, C, D, there, then
    <3> QED
      BY <1>0, <2>3, <2>4, <2>5, <2>6, WillBeStored
  <2> QED
    BY <2>1, <2>3, <2>7
<1>6. CASE Afresh
  <2>1. asked'.flag = None
    BY <1>6, AfreshAsks DEF Empty
  <2> QED
    BY <2>1
<1> QED
  BY <1>2, <1>3, <1>4, <1>5, <1>6, StepKinds

(* Where nothing is under way, what will be is. *)
LEMMA AtRestStored == ExportInv => UploadedIsLast /\ FlagIsLast
<1> SUFFICES ASSUME ExportInv, AtRest, user \in Watched
             PROVE  /\ \A d \in Day : asked.rows[d] # None =>
                                        remote[user].rows[d] = asked.rows[d]
                    /\ asked.flag # None => remote[user].flag = asked.flag
  BY DEF UploadedIsLast, FlagIsLast
<1>1. sending = <<>> /\ outbox = <<>>
  BY DEF AtRest
<1>2. \A A, B : ~LastIn(<<>>, A, B)
  BY DEF LastIn
<1>3. ASSUME NEW d \in Day, asked.rows[d] # None
      PROVE  remote[user].rows[d] = asked.rows[d]
  BY <1>1, <1>2, <1>3 DEF ExportInv, RowsWillBe, WillBe
<1>4. ASSUME asked.flag # None PROVE remote[user].flag = asked.flag
  BY <1>1, <1>2, <1>4 DEF ExportInv, FlagWillBe, WillBe
<1> QED
  BY <1>3, <1>4

-----------------------------------------------------------------------------
(* What the account signed in has asked for will be stored, whatever is    *)
(* still under way.                                                        *)
THEOREM ExportInvariant == Spec => []ExportInv
<1>1. ExportInv /\ [Next]_vars => ExportInv'
  <2> SUFFICES ASSUME ExportInv, [Next]_vars PROVE ExportInv'
    OBVIOUS
  <2>1. TypeOK' /\ SectionsThere'
    BY TypeStep DEF ExportInv
  <2>2. RowsWillBe'
    BY <2>1, RowsStep DEF ExportInv
  <2>3. FlagWillBe'
    BY <2>1, FlagStep DEF ExportInv
  <2> QED
    BY <2>1, <2>2, <2>3 DEF ExportInv
<1> QED
  BY <1>1, InitExport, PTL DEF Spec

(* Every reachable state of the list and its uploads is well-typed. *)
THEOREM ExportTypeCorrect == Spec => []TypeOK
<1>1. ExportInv => TypeOK
  BY DEF ExportInv
<1> QED
  BY <1>1, ExportInvariant, PTL

(* With no upload under way, every exported day is at the server as the    *)
(* last row it had at the export, for any table, calendar and overlap of   *)
(* presses, edits and writes.                                              *)
THEOREM ExportedAsAsked == Spec => []UploadedIsLast
BY ExportInvariant, AtRestStored, PTL

(* And the flag names the month exported last. *)
THEOREM FlagAsAsked == Spec => []FlagIsLast
BY ExportInvariant, AtRestStored, PTL

=============================================================================
