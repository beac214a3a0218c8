-------------------------- MODULE AttendanceProofs --------------------------
(***************************************************************************)
(* Theorems about Attendance, for every number of pages, rows, taps and    *)
(* requests, in debug and in release builds and for every user.            *)
(***************************************************************************)
EXTENDS Attendance, TLAPS

-----------------------------------------------------------------------------
(* The calendar: days and times have their types, and no instant is on an  *)
(* earlier day than the one before it.                                     *)
LEMMA CalendarTypes ==
  ASSUME clock \in Nat
  PROVE  Today \in Nat /\ TimeNow \in Time
BY ConstantsAssumption, SMT DEF Today, TimeNow, Time

LEMMA DaysPass ==
  ASSUME NEW c \in Nat
  PROVE  /\ c \div TicksPerDay \in Nat
         /\ c \div TicksPerDay <= (c + 1) \div TicksPerDay
BY ConstantsAssumption, SMTT(30)

(* What is in a queue after a request, a tap or an answer is added ...     *)
LEMMA AppendElements ==
  ASSUME NEW S, NEW s \in Seq(S), NEW e \in S,
         NEW k \in DOMAIN Append(s, e)
  PROVE  \/ k \in DOMAIN s /\ Append(s, e)[k] = s[k]
         \/ k = Len(s) + 1 /\ Append(s, e)[k] = e
OBVIOUS

(* ... and after its head is served.                                       *)
LEMMA TailElements ==
  ASSUME NEW S, NEW s \in Seq(S), s # <<>>,
         NEW k \in DOMAIN Tail(s)
  PROVE  k + 1 \in DOMAIN s /\ Tail(s)[k] = s[k + 1]
OBVIOUS

LEMMA HeadElement ==
  ASSUME NEW S, NEW s \in Seq(S), s # <<>>
  PROVE  1 \in DOMAIN s /\ Head(s) = s[1] /\ s[1] \in S /\ Tail(s) \in Seq(S)
OBVIOUS

(* The operators that compute a page's fields keep their types. *)
LEMMA PageStateTypes ==
  ASSUME clock \in Nat
  PROVE  /\ Fresh \in PageState
         /\ \A s \in PageState :
              /\ Built(s) \in PageState
              /\ Gone(s) \in PageState
              /\ Entered(s) \in PageState
              /\ Left(s) \in PageState
              /\ Announced(s) \in PageState
              /\ RowOf(s) \in Row
<1>1. Today \in Nat /\ TimeNow \in Time
  BY CalendarTypes
<1>2. Fresh \in PageState
  BY <1>1 DEF Fresh, PageState, Id, Stamp
<1>3. ASSUME NEW s \in PageState PROVE Built(s) \in PageState
  <2>1. {b \in Button : /\ s.online
                        /\ b = "enter" => ~s.enterbutton
                        /\ b = "out" => ~s.outbutton} \in SUBSET Button
    OBVIOUS
  <2> QED BY <1>1, <2>1 DEF Built, PageState
<1>4. ASSUME NEW s \in PageState
      PROVE  Gone(s) \in PageState /\ Announced(s) \in PageState
  <2>1. Gone(s) \in PageState
    BY DEF Gone, PageState
  <2>2. Announced(s) \in PageState
    <3>1. s.dialogs + 1 \in Nat
      BY DEF PageState
    <3> QED BY <3>1 DEF Announced, PageState
  <2> QED BY <2>1, <2>2
<1>5. ASSUME NEW s \in PageState
      PROVE  Entered(s) \in PageState /\ Left(s) \in PageState
  BY <1>1 DEF Entered, Left, PageState, Stamp
<1>6. ASSUME NEW s \in PageState PROVE RowOf(s) \in Row
  BY DEF RowOf, Row, Bit, PageState
<1> QED BY <1>2, <1>3, <1>4, <1>5, <1>6

(* What the same operators do to the fields the invariants speak of. *)
LEMMA PageFields ==
  ASSUME NEW s \in PageState
  PROVE  /\ /\ Gone(s).life = "disposed" /\ Gone(s).id = s.id
            /\ Gone(s).ymdWork = s.ymdWork /\ Gone(s).outbutton = s.outbutton
            /\ Gone(s).nowWorkenter = s.nowWorkenter
            /\ Gone(s).nowWorkout = s.nowWorkout
         /\ /\ Built(s).life = s.life /\ Built(s).id = s.id
            /\ Built(s).ymdWork = Today /\ Built(s).outbutton = s.outbutton
            /\ Built(s).nowWorkenter = s.nowWorkenter
            /\ Built(s).nowWorkout = s.nowWorkout
         /\ /\ Entered(s).life = s.life /\ Entered(s).id = s.id
            /\ Entered(s).ymdWork = s.ymdWork /\ Entered(s).outbutton = s.outbutton
            /\ Entered(s).nowWorkenter = TimeNow
            /\ Entered(s).nowWorkout = s.nowWorkout
         /\ /\ Left(s).life = s.life /\ Left(s).id = s.id
            /\ Left(s).ymdWork = s.ymdWork
            /\ Left(s).nowWorkenter = s.nowWorkenter
            /\ Left(s).nowWorkout = TimeNow
         /\ /\ Announced(s).life = s.life /\ Announced(s).id = s.id
            /\ Announced(s).ymdWork = s.ymdWork
            /\ Announced(s).outbutton = s.outbutton
            /\ Announced(s).nowWorkenter = s.nowWorkenter
            /\ Announced(s).nowWorkout = s.nowWorkout
<1>1. /\ Gone(s).life = "disposed" /\ Gone(s).id = s.id
      /\ Gone(s).ymdWork = s.ymdWork /\ Gone(s).outbutton = s.outbutton
      /\ Gone(s).nowWorkenter = s.nowWorkenter
      /\ Gone(s).nowWorkout = s.nowWorkout
  BY DEF Gone, PageState
<1>2. /\ Built(s).life = s.life /\ Built(s).id = s.id
      /\ Built(s).ymdWork = Today /\ Built(s).outbutton = s.outbutton
      /\ Built(s).nowWorkenter = s.nowWorkenter
      /\ Built(s).nowWorkout = s.nowWorkout
  BY DEF Built, PageState
<1>3. /\ Entered(s).life = s.life /\ Entered(s).id = s.id
      /\ Entered(s).ymdWork = s.ymdWork /\ Entered(s).outbutton = s.outbutton
      /\ Entered(s).nowWorkenter = TimeNow
      /\ Entered(s).nowWorkout = s.nowWorkout
  BY DEF Entered, PageState
<1>4. /\ Left(s).life = s.life /\ Left(s).id = s.id
      /\ Left(s).ymdWork = s.ymdWork
      /\ Left(s).nowWorkenter = s.nowWorkenter
      /\ Left(s).nowWorkout = TimeNow
  BY DEF Left, PageState
<1>5. /\ Announced(s).life = s.life /\ Announced(s).id = s.id
      /\ Announced(s).ymdWork = s.ymdWork
      /\ Announced(s).outbutton = s.outbutton
      /\ Announced(s).nowWorkenter = s.nowWorkenter
      /\ Announced(s).nowWorkout = s.nowWorkout
  BY DEF Announced, PageState
<1> QED BY <1>1, <1>2, <1>3, <1>4, <1>5

(* And what a loaded row does to them. *)
LEMMA LoadedFields ==
  ASSUME NEW s \in PageState, NEW rows \in Seq(Row), NEW i \in DOMAIN rows
  PROVE  /\ Loaded(s, rows, i).life = s.life
         /\ Loaded(s, rows, i).id = i
         /\ Loaded(s, rows, i).ymdWork = s.ymdWork
         /\ Loaded(s, rows, i).outbutton => rows[i].outbutton = 1
         /\ Loaded(s, rows, i).nowWorkenter = rows[i].nowWorkenter
         /\ Loaded(s, rows, i).nowWorkout = rows[i].nowWorkout
BY DEF Loaded, PageState

LEMMA LoadedType ==
  ASSUME NEW s \in PageState, NEW rows \in Seq(Row), NEW i \in DOMAIN rows
  PROVE  Loaded(s, rows, i) \in PageState
<1>1. rows[i] \in Row /\ i \in Id
  BY DEF Id
<1>2. (rows[i].enterbutton = 1) \in BOOLEAN /\ (rows[i].outbutton = 1) \in BOOLEAN
  OBVIOUS
<1>3. rows[i].nowWorkenter \in Stamp /\ rows[i].nowWorkout \in Stamp
  BY <1>1 DEF Row
<1> QED BY <1>1, <1>2, <1>3 DEF Loaded, PageState

-----------------------------------------------------------------------------
(* The inductive invariant, in three layers.                               *)

(* An answer under way never mentions a row the table lacks. *)
AnswersKnown ==
  \A k \in DOMAIN results : DOMAIN results[k].rows \subseteq DOMAIN table

(* Layer 1: types, and ids that exist.  SqlInsert keeps the table a        *)
(* sequence only because of KnownId, so the two are proved together.       *)
TypeInv == TypeOK /\ KnownId /\ AnswersKnown

(* Layer 2: times.  A page has a clock-in time as soon as it has an id,    *)
(* and so has every request and every answer that could end in a row.      *)
AnswersStamped ==
  \A k \in DOMAIN results : \A i \in DOMAIN results[k].rows :
    StampedRow(results[k].rows[i])

StampedWrite(r) ==
  /\ r.op = "insert" \/ r.id # NoId => r.row.nowWorkenter # NoTime
  /\ r.op = "update" => r.row.nowWorkout # NoTime
  /\ r.row.outbutton = 1 => r.row.nowWorkout # NoTime
  /\ r.row.ymdWork <= Today

WritesStamped == \A k \in DOMAIN dbq : dbq[k].op # "query" => StampedWrite(dbq[k])

StampedPage(s) ==
  /\ s.id # NoId => s.nowWorkenter # NoTime
  /\ s.outbutton => s.nowWorkout # NoTime
  /\ s.ymdWork <= Today

PagesStamped == \A p \in Page : StampedPage(page[p])

StampInv == RowsStamped /\ AnswersStamped /\ WritesStamped /\ PagesStamped

(* Layer 3: days.  At most one page is mounted, and no day known anywhere  *)
(* is later than the day it was built for; so an update, which only the    *)
(* mounted page makes, is dated no earlier than what it will find.         *)
OneMounted == \A p, q \in Page : Mounted(p) /\ Mounted(q) => p = q

MountedIsLatest ==
  \A p \in Page : Mounted(p) =>
    /\ \A q \in Page : page[q].ymdWork <= page[p].ymdWork
    /\ \A i \in DOMAIN table : table[i].ymdWork <= page[p].ymdWork
    /\ \A k \in DOMAIN dbq :
         dbq[k].op # "query" => dbq[k].row.ymdWork <= page[p].ymdWork

UpdatesAreLatest ==
  \A k \in DOMAIN dbq : dbq[k].op = "update" =>
    /\ \A i \in DOMAIN table : table[i].ymdWork <= dbq[k].row.ymdWork
    /\ \A j \in DOMAIN dbq :
         j < k /\ dbq[j].op # "query" => dbq[j].row.ymdWork <= dbq[k].row.ymdWork

DayInv == OneMounted /\ MountedIsLatest /\ UpdatesAreLatest

IInv == TypeInv /\ StampInv /\ DayInv

-----------------------------------------------------------------------------
(* SQL on a table that is a sequence of rows: an id the table knows, or    *)
(* none, leaves a sequence of rows that has all the ids it had.            *)
LEMMA SqlTypes ==
  ASSUME NEW t \in Seq(Row), NEW r \in Row, NEW id, id = NoId \/ id \in DOMAIN t
  PROVE  /\ SqlInsert(t, id, r) \in Seq(Row)
         /\ SqlInsert(t, id, r) = IF id = NoId THEN Append(t, r) ELSE t
         /\ SqlUpdate(t, id, r) \in Seq(Row)
         /\ DOMAIN t \subseteq DOMAIN SqlInsert(t, id, r)
         /\ DOMAIN SqlUpdate(t, id, r) = DOMAIN t
<1>1. NoId \notin DOMAIN t
  BY ConstantsAssumption
<1>2. CASE id = NoId
  BY <1>1, <1>2 DEF SqlInsert, SqlUpdate
<1>3. CASE id \in DOMAIN t
  <2>1. SqlInsert(t, id, r) = [i \in DOMAIN t |-> t[i]]
    <3>1. DOMAIN t \cup {id} = DOMAIN t
      BY <1>3
    <3> QED BY <1>1, <1>3, <3>1 DEF SqlInsert
  <2>2. [i \in DOMAIN t |-> t[i]] = t
    OBVIOUS
  <2>3. SqlUpdate(t, id, r) = [t EXCEPT ![id] = r]
    BY <1>3 DEF SqlUpdate
  <2> QED BY <1>1, <1>3, <2>1, <2>2, <2>3
<1> QED BY <1>2, <1>3

(* The SQLite plugin serves a write: the table is as it was, or has one    *)
(* more row, or one row replaced.                                          *)
LEMMA WriteEffect ==
  ASSUME TypeOK, KnownId, DbWrite
  PROVE  /\ 1 \in DOMAIN dbq /\ dbq' = Tail(dbq)
         /\ dbq[1].op # "query" /\ dbq[1].row \in Row
         /\ \/ table' = table
            \/ /\ dbq[1].op = "insert"
               /\ table' = Append(table, dbq[1].row)
            \/ /\ dbq[1].op = "update"
               /\ dbq[1].id \in DOMAIN table
               /\ table' = [table EXCEPT ![dbq[1].id] = dbq[1].row]
         /\ table' \in Seq(Row)
         /\ DOMAIN table \subseteq DOMAIN table'
<1>1. /\ dbq # <<>> /\ 1 \in DOMAIN dbq /\ Head(dbq) = dbq[1]
      /\ dbq[1] \in Request
  BY HeadElement DEF TypeOK, DbWrite
<1>2. dbq[1].op \in {"insert", "update"}
  BY <1>1 DEF DbWrite
<1>3. dbq[1].id \in DOMAIN table \cup {NoId} /\ dbq[1].row \in Row
  BY <1>1, <1>2 DEF KnownId, Request
<1>4. table \in Seq(Row) /\ (dbq[1].id = NoId \/ dbq[1].id \in DOMAIN table)
  BY <1>3 DEF TypeOK
<1>5. /\ SqlInsert(table, dbq[1].id, dbq[1].row)
           = IF dbq[1].id = NoId THEN Append(table, dbq[1].row) ELSE table
      /\ SqlInsert(table, dbq[1].id, dbq[1].row) \in Seq(Row)
      /\ SqlUpdate(table, dbq[1].id, dbq[1].row) \in Seq(Row)
      /\ DOMAIN table \subseteq DOMAIN SqlInsert(table, dbq[1].id, dbq[1].row)
      /\ DOMAIN SqlUpdate(table, dbq[1].id, dbq[1].row) = DOMAIN table
  BY <1>3, <1>4, SqlTypes
<1>6. CASE dbq[1].op = "insert"
  <2>1. table' = SqlInsert(table, dbq[1].id, dbq[1].row)
    BY <1>1, <1>6 DEF DbWrite
  <2>2. table' = table \/ table' = Append(table, dbq[1].row)
    BY <1>5, <2>1
  <2>3. table' \in Seq(Row) /\ DOMAIN table \subseteq DOMAIN table'
    BY <1>5, <2>1
  <2> QED BY <1>1, <1>3, <1>6, <2>2, <2>3 DEF DbWrite
<1>7. CASE dbq[1].op = "update"
  <2>1. table' = SqlUpdate(table, dbq[1].id, dbq[1].row)
    BY <1>1, <1>7 DEF DbWrite
  <2>2. \/ table' = table
        \/ /\ dbq[1].id \in DOMAIN table
           /\ table' = [table EXCEPT ![dbq[1].id] = dbq[1].row]
    BY <2>1 DEF SqlUpdate
  <2>3. table' \in Seq(Row) /\ DOMAIN table \subseteq DOMAIN table'
    BY <1>5, <2>1
  <2> QED BY <1>1, <1>3, <1>7, <2>2, <2>3 DEF DbWrite
<1> QED BY <1>2, <1>6, <1>7

(* Layer 1 holds initially ... *)
LEMMA TypeInvInit == Init => TypeInv
<1> SUFFICES ASSUME Init PROVE TypeInv
  OBVIOUS
<1>1. clock \in Nat
  BY DEF Init
<1>2. Gone(Fresh) \in PageState /\ Gone(Fresh).id = NoId
  BY <1>1, PageStateTypes DEF Gone, Fresh
<1>3. TypeOK
  BY <1>1, <1>2 DEF Init, TypeOK
<1>4. KnownId
  BY <1>2 DEF Init, KnownId
<1>5. AnswersKnown
  BY DEF Init, AnswersKnown
<1> QED BY <1>3, <1>4, <1>5 DEF TypeInv

(* A page whose slot gets new fields, with an id that was known: all that  *)
(* layer 1 asks of a step that changes neither table nor requests.         *)
LEMMA PageStep ==
  ASSUME TypeInv, NEW p \in Page, NEW s \in PageState,
         s.id \in DOMAIN table \cup {NoId},
         page' = [page EXCEPT ![p] = s],
         UNCHANGED <<clock, table>>
  PROVE  /\ page' \in [Page -> PageState]
         /\ \A q \in Page : page'[q].id \in DOMAIN table' \cup {NoId}
BY DEF TypeInv, TypeOK, KnownId

(* An answer under way. *)
LEMMA AnswerTypes ==
  ASSUME TypeInv, NEW k \in DOMAIN results
  PROVE  results[k].page \in Page /\ results[k].rows \in Seq(Row)
<1> DEFINE T == [page : Page, rows : Seq(Row)]
<1>1. results \in Seq(T)
  BY DEF TypeInv, TypeOK
<1> HIDE DEF T
<1>2. results[k] \in T
  BY <1>1
<1> QED BY <1>2 DEF T

(* The page of the tap at the head of the queue. *)
LEMMA TapPage ==
  ASSUME TypeInv, taps # <<>>
  PROVE  /\ Head(taps).page \in Page /\ page[Head(taps).page] \in PageState
         /\ Tail(taps) \in Seq([page : Page, button : Button])
         /\ page[Head(taps).page].id \in DOMAIN table \cup {NoId}
<1> DEFINE T == [page : Page, button : Button]
<1>1. taps \in Seq(T) /\ page \in [Page -> PageState]
  BY DEF TypeInv, TypeOK
<1> HIDE DEF T
<1>2. Head(taps) \in T /\ Tail(taps) \in Seq(T)
  BY <1>1, HeadElement
<1> USE DEF T
<1>3. Head(taps).page \in Page
  BY <1>2
<1> QED BY <1>1, <1>2, <1>3 DEF TypeInv, KnownId

(* A request is made, with an id that was known. *)
LEMMA RequestStep ==
  ASSUME TypeInv, NEW r \in Request,
         r.op # "query" => r.id \in DOMAIN table \cup {NoId},
         dbq' = Append(dbq, r), UNCHANGED table
  PROVE  /\ dbq' \in Seq(Request)
         /\ \A k \in DOMAIN dbq' :
              dbq'[k].op # "query" => dbq'[k].id \in DOMAIN table' \cup {NoId}
<1>1. dbq \in Seq(Request)
  BY DEF TypeInv, TypeOK
<1>2. dbq' \in Seq(Request)
  BY <1>1
<1>3. ASSUME NEW k \in DOMAIN dbq', dbq'[k].op # "query"
      PROVE  dbq'[k].id \in DOMAIN table \cup {NoId}
  <2>1. (k \in DOMAIN dbq /\ dbq'[k] = dbq[k]) \/ dbq'[k] = r
    BY <1>1, <1>3, AppendElements
  <2> QED BY <1>3, <2>1 DEF TypeInv, KnownId
<1> QED BY <1>2, <1>3

(* ... and every step preserves it. *)
LEMMA TypeInvStep == TypeInv /\ [Next]_vars => TypeInv'
<1> SUFFICES ASSUME TypeInv, [Next]_vars PROVE TypeInv'
  OBVIOUS
<1> USE DEF TypeInv
<1>t. TypeOK /\ KnownId /\ AnswersKnown /\ clock \in Nat
  BY DEF TypeOK
<1>0. CASE UNCHANGED vars
  BY <1>0 DEF vars, TypeOK, KnownId, AnswersKnown
<1>1. ASSUME NEW p \in Page, Open(p) PROVE TypeInv'
  <2>1. Built(Fresh) \in PageState /\ Built(Fresh).id = NoId
    BY <1>t, PageStateTypes DEF Built, Fresh
  <2>2. /\ page' \in [Page -> PageState]
        /\ \A q \in Page : page'[q].id \in DOMAIN table' \cup {NoId}
    BY <1>1, <2>1, PageStep DEF Open
  <2>3. [op |-> "query", page |-> p] \in Request
    BY DEF Request
  <2>4. /\ dbq' \in Seq(Request)
        /\ \A k \in DOMAIN dbq' :
             dbq'[k].op # "query" => dbq'[k].id \in DOMAIN table' \cup {NoId}
    BY <1>1, <2>3, RequestStep DEF Open
  <2> QED BY <1>1, <2>2, <2>4 DEF Open, TypeOK, KnownId, AnswersKnown
<1>2. ASSUME NEW p \in Page, Close(p) PROVE TypeInv'
  <2>1. Gone(page[p]) \in PageState /\ Gone(page[p]).id = page[p].id
    <3>1. page[p] \in PageState
      BY DEF TypeOK
    <3> QED BY <1>t, <3>1, PageStateTypes, PageFields
  <2>2. /\ page' \in [Page -> PageState]
        /\ \A q \in Page : page'[q].id \in DOMAIN table' \cup {NoId}
    BY <1>2, <2>1, PageStep DEF Close, KnownId
  <2> QED BY <1>2, <2>2 DEF Close, TypeOK, KnownId, AnswersKnown
<1>3. ASSUME NEW p \in Page, NEW on \in BOOLEAN, Connectivity(p, on)
      PROVE  TypeInv'
  <2> DEFINE s == [page[p] EXCEPT !.online = on, !.dirty = TRUE]
  <2>1. s \in PageState /\ s.id = page[p].id
    BY DEF TypeOK, PageState
  <2>2. /\ page' \in [Page -> PageState]
        /\ \A q \in Page : page'[q].id \in DOMAIN table' \cup {NoId}
    BY <1>3, <2>1, PageStep DEF Connectivity, KnownId
  <2> QED BY <1>3, <2>2 DEF Connectivity, TypeOK, KnownId, AnswersKnown
<1>4. ASSUME NEW p \in Page, Build(p) PROVE TypeInv'
  <2>1. Built(page[p]) \in PageState /\ Built(page[p]).id = page[p].id
    <3>1. page[p] \in PageState
      BY DEF TypeOK
    <3> QED BY <1>t, <3>1, PageStateTypes, PageFields
  <2>2. /\ page' \in [Page -> PageState]
        /\ \A q \in Page : page'[q].id \in DOMAIN table' \cup {NoId}
    BY <1>4, <2>1, PageStep DEF Build, KnownId
  <2>3. /\ dbq' \in Seq(Request)
        /\ \A k \in DOMAIN dbq' :
             dbq'[k].op # "query" => dbq'[k].id \in DOMAIN table' \cup {NoId}
    <3>1. CASE page[p].online
      <4>1. [op |-> "query", page |-> p] \in Request
        BY DEF Request
      <4> QED BY <1>4, <3>1, <4>1, RequestStep DEF Build
    <3>2. CASE ~page[p].online
      BY <1>4, <3>2 DEF Build, TypeOK, KnownId
    <3> QED BY <3>1, <3>2
  <2> QED BY <1>4, <2>2, <2>3 DEF Build, TypeOK, KnownId, AnswersKnown
<1>5. ASSUME NEW p \in Page, NEW b \in Button, Tap(p, b) PROVE TypeInv'
  BY <1>5 DEF Tap, TypeOK, KnownId, AnswersKnown
<1>6. ASSUME NEW p \in Page, DialogClose(p) PROVE TypeInv'
  <2> DEFINE s == [page[p] EXCEPT !.dialogs = @ - 1]
  <2>1. page[p].dialogs - 1 \in Nat
    BY <1>6 DEF DialogClose, TypeOK, PageState
  <2>2. s \in PageState /\ s.id = page[p].id
    BY <2>1 DEF TypeOK, PageState
  <2>3. /\ page' \in [Page -> PageState]
        /\ \A q \in Page : page'[q].id \in DOMAIN table' \cup {NoId}
    BY <1>6, <2>2, PageStep DEF DialogClose, KnownId
  <2> QED BY <1>6, <2>3 DEF DialogClose, TypeOK, KnownId, AnswersKnown
<1>7. CASE FireEnter
  <2> DEFINE p == Head(taps).page
             s == Entered(page[p])
             n == IF Mounted(p) THEN Announced(s) ELSE s
             r == [op |-> "insert", id |-> s.id, row |-> RowOf(s)]
  <2>1. taps # <<>> /\ page' = [page EXCEPT ![p] = n] /\ dbq' = Append(dbq, r)
        /\ taps' = Tail(taps) /\ UNCHANGED <<clock, table, results>>
    BY <1>7 DEF FireEnter
  <2>2. p \in Page /\ page[p] \in PageState /\ page[p].id \in DOMAIN table \cup {NoId}
        /\ Tail(taps) \in Seq([page : Page, button : Button])
    BY <2>1, TapPage
  <2>3. s \in PageState /\ s.id = page[p].id /\ RowOf(s) \in Row
    BY <1>t, <2>2, PageStateTypes, PageFields
  <2>4. n \in PageState /\ n.id = page[p].id
    BY <1>t, <2>3, PageStateTypes, PageFields
  <2>5. r \in Request /\ r.id = page[p].id
    BY <2>3 DEF Request, PageState
  <2> HIDE DEF n, r, s, p
  <2>6. /\ page' \in [Page -> PageState]
        /\ \A q \in Page : page'[q].id \in DOMAIN table' \cup {NoId}
    BY <2>1, <2>2, <2>4, PageStep
  <2>7. /\ dbq' \in Seq(Request)
        /\ \A k \in DOMAIN dbq' :
             dbq'[k].op # "query" => dbq'[k].id \in DOMAIN table' \cup {NoId}
    BY <2>1, <2>2, <2>5, RequestStep
  <2> QED BY <2>1, <2>2, <2>6, <2>7 DEF TypeOK, KnownId, AnswersKnown
<1>8. CASE FireOut
  <2> DEFINE p == Head(taps).page
             s == Left(page[p])
             n == Announced(s)
             r == [op |-> "update", id |-> s.id, row |-> RowOf(s)]
  <2>1. taps # <<>> /\ page' = [page EXCEPT ![p] = n] /\ dbq' = Append(dbq, r)
        /\ taps' = Tail(taps) /\ UNCHANGED <<clock, table, results>>
    BY <1>8 DEF FireOut
  <2>2. p \in Page /\ page[p] \in PageState /\ page[p].id \in DOMAIN table \cup {NoId}
        /\ Tail(taps) \in Seq([page : Page, button : Button])
    BY <2>1, TapPage
  <2>3. s \in PageState /\ s.id = page[p].id /\ RowOf(s) \in Row
    BY <1>t, <2>2, PageStateTypes, PageFields
  <2>4. n \in PageState /\ n.id = page[p].id
    BY <1>t, <2>3, PageStateTypes, PageFields
  <2>5. r \in Request /\ r.id = page[p].id
    BY <2>3 DEF Request, PageState
  <2> HIDE DEF n, r, s, p
  <2>6. /\ page' \in [Page -> PageState]
        /\ \A q \in Page : page'[q].id \in DOMAIN table' \cup {NoId}
    BY <2>1, <2>2, <2>4, PageStep
  <2>7. /\ dbq' \in Seq(Request)
        /\ \A k \in DOMAIN dbq' :
             dbq'[k].op # "query" => dbq'[k].id \in DOMAIN table' \cup {NoId}
    BY <2>1, <2>2, <2>5, RequestStep
  <2> QED BY <2>1, <2>2, <2>6, <2>7 DEF TypeOK, KnownId, AnswersKnown
<1>9. CASE FireOutLost
  <2> DEFINE p == Head(taps).page
  <2>1. taps # <<>> /\ page' = [page EXCEPT ![p] = Left(page[p])]
        /\ taps' = Tail(taps) /\ UNCHANGED <<clock, table, dbq, results>>
    BY <1>9 DEF FireOutLost
  <2>2. p \in Page /\ page[p] \in PageState /\ page[p].id \in DOMAIN table \cup {NoId}
        /\ Tail(taps) \in Seq([page : Page, button : Button])
    BY <2>1, TapPage
  <2>3. Left(page[p]) \in PageState /\ Left(page[p]).id = page[p].id
    BY <1>t, <2>2, PageStateTypes, PageFields
  <2>4. /\ page' \in [Page -> PageState]
        /\ \A q \in Page : page'[q].id \in DOMAIN table' \cup {NoId}
    BY <2>1, <2>2, <2>3, PageStep
  <2> QED BY <2>1, <2>2, <2>4 DEF TypeOK, KnownId, AnswersKnown
<1>10. CASE FireDropped
  <2>1. Tail(taps) \in Seq([page : Page, button : Button])
    BY <1>10, TapPage DEF FireDropped
  <2> QED BY <1>10, <2>1 DEF FireDropped, TypeOK, KnownId, AnswersKnown
<1>11. CASE DbWrite
  <2>1. table' \in Seq(Row) /\ DOMAIN table \subseteq DOMAIN table'
    BY <1>11, WriteEffect
  <2>2. dbq \in Seq(Request) /\ dbq # <<>> /\ dbq' = Tail(dbq)
        /\ UNCHANGED <<clock, results, taps, page>>
    BY <1>11 DEF TypeOK, DbWrite
  <2>3. dbq' \in Seq(Request)
    BY <2>2
  <2>4. ASSUME NEW k \in DOMAIN dbq', dbq'[k].op # "query"
        PROVE  dbq'[k].id \in DOMAIN table' \cup {NoId}
    <3>1. k + 1 \in DOMAIN dbq /\ dbq'[k] = dbq[k + 1]
      BY <2>2, <2>4, TailElements
    <3> QED BY <2>1, <2>4, <3>1 DEF KnownId
  <2>5. TypeOK'
    BY <2>1, <2>2, <2>3 DEF TypeOK
  <2>6. KnownId'
    BY <2>1, <2>2, <2>4 DEF KnownId
  <2>7. AnswersKnown'
    BY <2>1, <2>2 DEF AnswersKnown
  <2> QED BY <2>5, <2>6, <2>7
<1>12. CASE DbQuery
  <2> DEFINE a == [page |-> Head(dbq).page, rows |-> table]
             Answer == [page : Page, rows : Seq(Row)]
  <2>1. dbq \in Seq(Request) /\ dbq # <<>> /\ dbq' = Tail(dbq)
        /\ Head(dbq).op = "query" /\ results' = Append(results, a)
        /\ UNCHANGED <<clock, table, taps, page>>
    BY <1>12 DEF TypeOK, DbQuery
  <2>2. Head(dbq) \in Request
    BY <2>1
  <2>3. a \in Answer
    BY <2>1, <2>2 DEF Request, TypeOK
  <2>4. a.rows = table
    OBVIOUS
  <2>5. results \in Seq(Answer)
    BY DEF TypeOK
  <2> HIDE DEF a
  <2>6. results' \in Seq(Answer)
    BY <2>1, <2>3, <2>5
  <2>7. dbq' \in Seq(Request)
    BY <2>1
  <2>8. ASSUME NEW k \in DOMAIN dbq', dbq'[k].op # "query"
        PROVE  dbq'[k].id \in DOMAIN table' \cup {NoId}
    <3>1. k + 1 \in DOMAIN dbq /\ dbq'[k] = dbq[k + 1]
      BY <2>1, <2>8, TailElements
    <3> QED BY <2>1, <2>8, <3>1 DEF KnownId
  <2>9. ASSUME NEW k \in DOMAIN results'
        PROVE  DOMAIN results'[k].rows \subseteq DOMAIN table'
    <3>1. (k \in DOMAIN results /\ results'[k] = results[k]) \/ results'[k] = a
      BY <2>1, <2>3, <2>5, <2>9, AppendElements
    <3> QED BY <2>1, <2>4, <3>1 DEF AnswersKnown
  <2>10. TypeOK'
    BY <2>1, <2>6, <2>7 DEF TypeOK
  <2>11. KnownId'
    BY <2>1, <2>8 DEF KnownId
  <2>12. AnswersKnown'
    BY <2>9 DEF AnswersKnown
  <2> QED BY <2>10, <2>11, <2>12
<1>13. CASE Deliver
  <2> DEFINE p == Head(results).page
             rows == Head(results).rows
             Answer == [page : Page, rows : Seq(Row)]
  <2>1. results \in Seq(Answer) /\ results # <<>> /\ results' = Tail(results)
        /\ UNCHANGED <<clock, table, dbq, taps>>
    BY <1>13 DEF TypeOK, Deliver
  <2>2. /\ 1 \in DOMAIN results /\ Head(results) = results[1]
        /\ results[1] \in Answer /\ results' \in Seq(Answer)
    BY <2>1, HeadElement
  <2>3. p \in Page /\ rows \in Seq(Row) /\ page[p] \in PageState
    BY <2>2 DEF TypeOK
  <2>4. DOMAIN rows \subseteq DOMAIN table
    BY <2>2 DEF AnswersKnown
  <2>5. \/ \E i \in DOMAIN rows : page' = [page EXCEPT ![p] = Loaded(page[p], rows, i)]
        \/ UNCHANGED page
    BY <1>13 DEF Deliver
  <2>6. ASSUME NEW i \in DOMAIN rows
        PROVE  Loaded(page[p], rows, i) \in PageState
               /\ Loaded(page[p], rows, i).id \in DOMAIN table \cup {NoId}
    BY <2>3, <2>4, LoadedType, LoadedFields
  <2> HIDE DEF p, rows
  <2>7. /\ page' \in [Page -> PageState]
        /\ \A q \in Page : page'[q].id \in DOMAIN table' \cup {NoId}
    <3>1. CASE UNCHANGED page
      BY <2>1, <3>1 DEF TypeOK, KnownId
    <3>2. ASSUME NEW i \in DOMAIN rows,
                 page' = [page EXCEPT ![p] = Loaded(page[p], rows, i)]
          PROVE  /\ page' \in [Page -> PageState]
                 /\ \A q \in Page : page'[q].id \in DOMAIN table' \cup {NoId}
      <4> DEFINE s == Loaded(page[p], rows, i)
      <4>1. s \in PageState /\ s.id \in DOMAIN table \cup {NoId}
            /\ page' = [page EXCEPT ![p] = s]
        BY <2>6, <3>2
      <4> HIDE DEF s
      <4> QED BY <2>1, <2>3, <4>1, PageStep
    <3> QED BY <2>5, <3>1, <3>2
  <2>8. ASSUME NEW k \in DOMAIN results'
        PROVE  DOMAIN results'[k].rows \subseteq DOMAIN table'
    <3>1. k + 1 \in DOMAIN results /\ results'[k] = results[k + 1]
      BY <2>1, <2>8, TailElements
    <3> QED BY <2>1, <3>1 DEF AnswersKnown
  <2>9. TypeOK'
    BY <2>1, <2>2, <2>7 DEF TypeOK
  <2>10. KnownId'
    BY <2>1, <2>7 DEF KnownId
  <2>11. AnswersKnown'
    BY <2>8 DEF AnswersKnown
  <2> QED BY <2>9, <2>10, <2>11
<1>14. CASE Tick
  BY <1>14 DEF Tick, TypeOK, KnownId, AnswersKnown
<1>15. CASE AppKill
  <2>1. Gone(Fresh) \in PageState /\ Gone(Fresh).id = NoId
    BY <1>t, PageStateTypes DEF Gone, Fresh
  <2> HIDE DEF TypeInv
  <2>2. TypeOK'
    BY <1>t, <1>15, <2>1 DEF AppKill, TypeOK
  <2>3. KnownId'
    BY <1>15, <2>1 DEF AppKill, KnownId
  <2>4. AnswersKnown'
    BY <1>15 DEF AppKill, AnswersKnown
  <2> QED BY <2>2, <2>3, <2>4 DEF TypeInv
<1> QED
  BY <1>0, <1>1, <1>2, <1>3, <1>4, <1>5, <1>6, <1>7, <1>8, <1>9, <1>10,
     <1>11, <1>12, <1>13, <1>14, <1>15 DEF Next

LEMMA TypeInvAlways == Spec => []TypeInv
<1>1. TypeInv /\ [Next]_vars => TypeInv'
  BY TypeInvStep
<1> QED BY <1>1, TypeInvInit, PTL DEF Spec

(* Every variable has its type in every reachable state; in particular the *)
(* failing INSERT of an id that is taken leaves the table a sequence.      *)
THEOREM TypeCorrect == Spec => []TypeOK
<1>1. TypeInv => TypeOK
  BY DEF TypeInv
<1> QED BY <1>1, TypeInvAlways, PTL

(* No page and no request ever names a row that is not in the table, so    *)
(* the UPDATE of a page that has loaded a row never misses.                *)
THEOREM IdsAreKnown == Spec => []KnownId
<1>1. TypeInv => KnownId
  BY DEF TypeInv
<1> QED BY <1>1, TypeInvAlways, PTL

-----------------------------------------------------------------------------
(* No step takes the calendar back. *)
LEMMA CalendarStep ==
  ASSUME TypeInv, [Next]_vars
  PROVE  Today \in Nat /\ Today' \in Nat /\ Today <= Today'
<1>1. clock \in Nat /\ (clock' = clock \/ clock' = clock + 1)
  BY DEF TypeInv, TypeOK, Next, vars, Open, Close, Connectivity, Build, Tap,
         DialogClose, FireEnter, FireOut, FireOutLost, FireDropped, DbWrite,
         DbQuery, Deliver, Tick, AppKill
<1>2. clock' \in Nat
  BY <1>1
<1>3. clock \div TicksPerDay \in Nat /\ clock' \div TicksPerDay \in Nat
  BY <1>1, <1>2, DaysPass
<1>4. clock \div TicksPerDay <= clock' \div TicksPerDay
  <2>1. CASE clock' = clock
    BY <1>3, <2>1
  <2>2. CASE clock' = clock + 1
    BY <1>1, <2>2, DaysPass
  <2> QED BY <1>1, <2>1, <2>2
<1> QED BY <1>3, <1>4 DEF Today

(* The parts of layer 2 that a step leaves alone stay true as days pass.   *)
LEMMA StampFrame ==
  ASSUME TypeInv, StampInv, Today \in Nat, Today' \in Nat, Today <= Today'
  PROVE  /\ UNCHANGED table => RowsStamped'
         /\ UNCHANGED results => AnswersStamped'
         /\ UNCHANGED dbq => WritesStamped'
         /\ UNCHANGED page => PagesStamped'
<1>1. ASSUME UNCHANGED table PROVE RowsStamped'
  <2>1. ASSUME NEW i \in DOMAIN table PROVE StampedRow(table[i])'
    <3>1. table[i] \in Row /\ StampedRow(table[i])
      BY DEF TypeInv, TypeOK, StampInv, RowsStamped
    <3> QED BY <1>1, <3>1 DEF StampedRow, Row
  <2> QED BY <1>1, <2>1 DEF RowsStamped
<1>2. ASSUME UNCHANGED results PROVE AnswersStamped'
  <2>1. ASSUME NEW k \in DOMAIN results, NEW i \in DOMAIN results[k].rows
        PROVE  StampedRow(results[k].rows[i])'
    <3>1. results[k].rows \in Seq(Row)
      BY AnswerTypes
    <3>2. results[k].rows[i] \in Row /\ StampedRow(results[k].rows[i])
      BY <3>1 DEF StampInv, AnswersStamped
    <3> QED BY <1>2, <3>2 DEF StampedRow, Row
  <2> QED BY <1>2, <2>1 DEF AnswersStamped
<1>3. ASSUME UNCHANGED dbq PROVE WritesStamped'
  <2>1. ASSUME NEW k \in DOMAIN dbq, dbq[k].op # "query"
        PROVE  StampedWrite(dbq[k])'
    <3>1. dbq[k] \in Request
      BY DEF TypeInv, TypeOK
    <3>2. dbq[k].row \in Row /\ StampedWrite(dbq[k])
      BY <2>1, <3>1 DEF Request, StampInv, WritesStamped
    <3> QED BY <1>3, <3>2 DEF StampedWrite, Row
  <2> QED BY <1>3, <2>1 DEF WritesStamped
<1>4. ASSUME UNCHANGED page PROVE PagesStamped'
  BY <1>4 DEF TypeInv, TypeOK, PageState, StampInv, PagesStamped, StampedPage
<1> QED BY <1>1, <1>2, <1>3, <1>4

(* A page gets new fields that layer 2 accepts. *)
LEMMA PageStampStep ==
  ASSUME TypeInv, StampInv, Today \in Nat, Today' \in Nat, Today <= Today',
         NEW p \in Page, NEW s \in PageState,
         s.id # NoId => s.nowWorkenter # NoTime,
         s.outbutton => s.nowWorkout # NoTime,
         s.ymdWork <= Today',
         page' = [page EXCEPT ![p] = s]
  PROVE  PagesStamped'
<1>1. ASSUME NEW q \in Page PROVE StampedPage(page[q])'
  <2>1. page[q] \in PageState /\ StampedPage(page[q])
    BY DEF TypeInv, TypeOK, StampInv, PagesStamped
  <2>2. page'[q] = IF q = p THEN s ELSE page[q]
    BY DEF TypeInv, TypeOK
  <2>3. CASE q = p
    BY <2>2, <2>3 DEF StampedPage
  <2>4. CASE q # p
    BY <2>1, <2>2, <2>4 DEF StampedPage, PageState
  <2> QED BY <2>3, <2>4
<1> QED BY <1>1 DEF PagesStamped

(* A request is made that layer 2 accepts. *)
LEMMA RequestStampStep ==
  ASSUME TypeInv, StampInv, Today \in Nat, Today' \in Nat, Today <= Today',
         NEW r \in Request,
         r.op # "query" =>
           /\ r.op = "insert" \/ r.id # NoId => r.row.nowWorkenter # NoTime
           /\ r.op = "update" => r.row.nowWorkout # NoTime
           /\ r.row.outbutton = 1 => r.row.nowWorkout # NoTime
           /\ r.row.ymdWork <= Today',
         dbq' = Append(dbq, r)
  PROVE  WritesStamped'
<1>1. ASSUME NEW k \in DOMAIN dbq', dbq'[k].op # "query"
      PROVE  StampedWrite(dbq[k])'
  <2>1. dbq \in Seq(Request)
    BY DEF TypeInv, TypeOK
  <2>2. (k \in DOMAIN dbq /\ dbq'[k] = dbq[k]) \/ dbq'[k] = r
    BY <1>1, <2>1, AppendElements
  <2>3. CASE k \in DOMAIN dbq /\ dbq'[k] = dbq[k]
    <3>1. dbq[k] \in Request /\ dbq[k].op # "query" /\ StampedWrite(dbq[k])
      BY <1>1, <2>1, <2>3 DEF StampInv, WritesStamped
    <3>2. dbq[k].row \in Row
      BY <3>1 DEF Request
    <3> QED BY <2>3, <3>1, <3>2 DEF StampedWrite, Row
  <2>4. CASE dbq'[k] = r
    BY <1>1, <2>4 DEF StampedWrite
  <2> QED BY <2>2, <2>3, <2>4
<1> QED BY <1>1 DEF WritesStamped

(* A request is served: the others are as they were. *)
LEMMA ServedWrites ==
  ASSUME TypeInv, StampInv, 1 \in DOMAIN dbq, dbq' = Tail(dbq), Today' = Today
  PROVE  WritesStamped'
<1>1. dbq \in Seq(Request) /\ dbq # <<>>
  BY DEF TypeInv, TypeOK
<1>2. ASSUME NEW k \in DOMAIN dbq', dbq'[k].op # "query"
      PROVE  StampedWrite(dbq[k])'
  <2>1. k + 1 \in DOMAIN dbq /\ dbq'[k] = dbq[k + 1]
    BY <1>1, <1>2, TailElements
  <2>2. StampedWrite(dbq[k + 1])
    BY <1>2, <2>1 DEF StampInv, WritesStamped
  <2> QED BY <2>1, <2>2 DEF StampedWrite
<1> QED BY <1>2 DEF WritesStamped

(* The row a page would store, field by field. *)
LEMMA RowFields ==
  ASSUME NEW s \in PageState
  PROVE  /\ RowOf(s).ymdWork = s.ymdWork
         /\ RowOf(s).nowWorkenter = s.nowWorkenter
         /\ RowOf(s).nowWorkout = s.nowWorkout
         /\ RowOf(s).outbutton = 1 => s.outbutton
BY DEF RowOf, Bit

(* A clock time is not the empty string. *)
LEMMA TimeIsStamped == ASSUME clock \in Nat PROVE TimeNow # NoTime
BY CalendarTypes, ConstantsAssumption DEF Time

(* Layer 2 holds initially ... *)
LEMMA StampInvInit == Init => StampInv
<1> SUFFICES ASSUME Init PROVE StampInv
  OBVIOUS
<1>1. clock \in Nat
  BY DEF Init
<1>2. Today \in Nat
  BY <1>1, CalendarTypes
<1>3. Gone(Fresh).id = NoId /\ ~Gone(Fresh).outbutton /\ Gone(Fresh).ymdWork = 0
  BY <1>1, PageStateTypes, PageFields DEF Fresh
<1>4. PagesStamped
  <2>1. \A p \in Page : page[p] = Gone(Fresh)
    BY DEF Init
  <2>2. 0 <= Today
    BY <1>2
  <2> QED BY <1>3, <2>1, <2>2 DEF PagesStamped, StampedPage
<1> QED BY <1>4 DEF Init, StampInv, RowsStamped, AnswersStamped, WritesStamped

(* ... and every step preserves it. *)
LEMMA StampInvStep ==
  ASSUME TypeInv, StampInv, [Next]_vars
  PROVE  StampInv'
<1>d. Today \in Nat /\ Today' \in Nat /\ Today <= Today'
  BY CalendarStep
<1>f. /\ UNCHANGED table => RowsStamped'
      /\ UNCHANGED results => AnswersStamped'
      /\ UNCHANGED dbq => WritesStamped'
      /\ UNCHANGED page => PagesStamped'
  BY <1>d, StampFrame
<1>t. clock \in Nat /\ \A p \in Page : page[p] \in PageState
  BY DEF TypeInv, TypeOK
<1>s. \A p \in Page : StampedPage(page[p])
  BY DEF StampInv, PagesStamped
<1>0. CASE UNCHANGED vars
  BY <1>0, <1>f DEF vars, StampInv
<1>1. ASSUME NEW p \in Page, Open(p) PROVE StampInv'
  <2>1. Fresh \in PageState /\ Built(Fresh) \in PageState
    BY <1>t, PageStateTypes
  <2>2. Built(Fresh).id = NoId /\ ~Built(Fresh).outbutton
        /\ Built(Fresh).ymdWork = Today
    BY <2>1, PageFields DEF Fresh
  <2>3. Today' = Today
    BY <1>1 DEF Open, Today
  <2>4. PagesStamped'
    BY <1>1, <1>d, <2>1, <2>2, <2>3, PageStampStep DEF Open
  <2>5. WritesStamped'
    <3> DEFINE r == [op |-> "query", page |-> p]
    <3>1. r \in Request /\ r.op = "query" /\ dbq' = Append(dbq, r)
      BY <1>1 DEF Open, Request
    <3> HIDE DEF r
    <3> QED BY <1>d, <3>1, RequestStampStep
  <2> QED BY <1>1, <1>f, <2>4, <2>5 DEF Open, StampInv
<1>2. ASSUME NEW p \in Page, Close(p) PROVE StampInv'
  <2>1. Gone(page[p]) \in PageState
    BY <1>t, PageStateTypes
  <2>2. /\ Gone(page[p]).id # NoId => Gone(page[p]).nowWorkenter # NoTime
        /\ Gone(page[p]).outbutton => Gone(page[p]).nowWorkout # NoTime
        /\ Gone(page[p]).ymdWork <= Today'
    <3>1. page[p] \in PageState /\ StampedPage(page[p]) /\ Today' = Today
      BY <1>2, <1>t, <1>s DEF Close, Today
    <3> QED BY <3>1, PageFields DEF StampedPage
  <2>3. PagesStamped'
    BY <1>2, <1>d, <2>1, <2>2, PageStampStep DEF Close
  <2> QED BY <1>2, <1>f, <2>3 DEF Close, StampInv
<1>3. ASSUME NEW p \in Page, NEW on \in BOOLEAN, Connectivity(p, on)
      PROVE  StampInv'
  <2> DEFINE s == [page[p] EXCEPT !.online = on, !.dirty = TRUE]
  <2>1. page[p] \in PageState /\ StampedPage(page[p]) /\ Today' = Today
    BY <1>3, <1>t, <1>s DEF Connectivity, Today
  <2>2. s \in PageState /\ s.id = page[p].id /\ s.outbutton = page[p].outbutton
        /\ s.nowWorkenter = page[p].nowWorkenter
        /\ s.nowWorkout = page[p].nowWorkout /\ s.ymdWork = page[p].ymdWork
    BY <2>1 DEF PageState
  <2>3. page' = [page EXCEPT ![p] = s]
    BY <1>3 DEF Connectivity
  <2> HIDE DEF s
  <2>4. PagesStamped'
    BY <1>d, <2>1, <2>2, <2>3, PageStampStep DEF StampedPage
  <2> QED BY <1>3, <1>f, <2>4 DEF Connectivity, StampInv
<1>4. ASSUME NEW p \in Page, Build(p) PROVE StampInv'
  <2>1. Built(page[p]) \in PageState
    BY <1>t, PageStateTypes
  <2>2. /\ Built(page[p]).id # NoId => Built(page[p]).nowWorkenter # NoTime
        /\ Built(page[p]).outbutton => Built(page[p]).nowWorkout # NoTime
        /\ Built(page[p]).ymdWork <= Today'
    <3>1. page[p] \in PageState /\ StampedPage(page[p]) /\ Today' = Today
      BY <1>4, <1>t, <1>s DEF Build, Today
    <3> QED BY <1>d, <3>1, PageFields DEF StampedPage
  <2>3. PagesStamped'
    BY <1>4, <1>d, <2>1, <2>2, PageStampStep DEF Build
  <2>4. WritesStamped'
    <3> DEFINE r == [op |-> "query", page |-> p]
    <3>1. r \in Request /\ r.op = "query"
      BY DEF Request
    <3>2. dbq' = Append(dbq, r) \/ UNCHANGED dbq
      BY <1>4 DEF Build
    <3> HIDE DEF r
    <3> QED BY <1>d, <1>f, <3>1, <3>2, RequestStampStep
  <2> QED BY <1>4, <1>f, <2>3, <2>4 DEF Build, StampInv
<1>5. ASSUME NEW p \in Page, NEW b \in Button, Tap(p, b) PROVE StampInv'
  BY <1>5, <1>f DEF Tap, StampInv
<1>6. ASSUME NEW p \in Page, DialogClose(p) PROVE StampInv'
  <2> DEFINE s == [page[p] EXCEPT !.dialogs = @ - 1]
  <2>1. page[p] \in PageState /\ StampedPage(page[p]) /\ Today' = Today
        /\ page[p].dialogs - 1 \in Nat
    BY <1>6, <1>t, <1>s DEF DialogClose, Today, PageState
  <2>2. s \in PageState /\ s.id = page[p].id /\ s.outbutton = page[p].outbutton
        /\ s.nowWorkenter = page[p].nowWorkenter
        /\ s.nowWorkout = page[p].nowWorkout /\ s.ymdWork = page[p].ymdWork
    BY <2>1 DEF PageState
  <2>3. page' = [page EXCEPT ![p] = s]
    BY <1>6 DEF DialogClose
  <2> HIDE DEF s
  <2>4. PagesStamped'
    BY <1>d, <2>1, <2>2, <2>3, PageStampStep DEF StampedPage
  <2> QED BY <1>6, <1>f, <2>4 DEF DialogClose, StampInv
<1>7. CASE FireEnter
  <2> DEFINE p == Head(taps).page
             s == Entered(page[p])
             n == IF Mounted(p) THEN Announced(s) ELSE s
             r == [op |-> "insert", id |-> s.id, row |-> RowOf(s)]
  <2>1. taps # <<>> /\ page' = [page EXCEPT ![p] = n] /\ dbq' = Append(dbq, r)
        /\ UNCHANGED <<table, results>> /\ Today' = Today
    BY <1>7 DEF FireEnter, Today
  <2>2. p \in Page /\ page[p] \in PageState /\ StampedPage(page[p])
    BY <1>s, <2>1, TapPage
  <2>3. /\ s \in PageState /\ RowOf(s) \in Row
        /\ s.nowWorkenter # NoTime
        /\ s.outbutton => s.nowWorkout # NoTime
        /\ s.ymdWork <= Today
    BY <1>t, <2>2, PageStateTypes, PageFields, TimeIsStamped DEF StampedPage
  <2>4. /\ n \in PageState
        /\ n.nowWorkenter # NoTime
        /\ n.outbutton => n.nowWorkout # NoTime
        /\ n.ymdWork <= Today
    BY <1>t, <2>3, PageStateTypes, PageFields
  <2>5. /\ r \in Request /\ r.op = "insert"
        /\ r.row.nowWorkenter # NoTime
        /\ r.row.outbutton = 1 => r.row.nowWorkout # NoTime
        /\ r.row.ymdWork <= Today
    <3>1. r \in Request /\ r.op = "insert" /\ r.row = RowOf(s)
      BY <2>3 DEF Request, PageState
    <3> QED BY <2>3, <3>1, RowFields
  <2> HIDE DEF n, r, s, p
  <2>6. PagesStamped'
    BY <1>d, <2>1, <2>2, <2>4, PageStampStep
  <2>7. WritesStamped'
    BY <1>d, <2>1, <2>5, RequestStampStep
  <2> QED BY <1>f, <2>1, <2>6, <2>7 DEF StampInv
<1>8. CASE FireOut
  <2> DEFINE p == Head(taps).page
             s == Left(page[p])
             n == Announced(s)
             r == [op |-> "update", id |-> s.id, row |-> RowOf(s)]
  <2>1. taps # <<>> /\ page' = [page EXCEPT ![p] = n] /\ dbq' = Append(dbq, r)
        /\ UNCHANGED <<table, results>> /\ Today' = Today
    BY <1>8 DEF FireOut, Today
  <2>2. p \in Page /\ page[p] \in PageState /\ StampedPage(page[p])
    BY <1>s, <2>1, TapPage
  <2>3. /\ s \in PageState /\ RowOf(s) \in Row
        /\ s.id # NoId => s.nowWorkenter # NoTime
        /\ s.nowWorkout # NoTime
        /\ s.ymdWork <= Today
    BY <1>t, <2>2, PageStateTypes, PageFields, TimeIsStamped DEF StampedPage
  <2>4. /\ n \in PageState
        /\ n.id # NoId => n.nowWorkenter # NoTime
        /\ n.nowWorkout # NoTime
        /\ n.ymdWork <= Today
    BY <1>t, <2>3, PageStateTypes, PageFields
  <2>5. /\ r \in Request /\ r.op = "update"
        /\ r.id # NoId => r.row.nowWorkenter # NoTime
        /\ r.row.nowWorkout # NoTime
        /\ r.row.ymdWork <= Today
    <3>1. r \in Request /\ r.op = "update" /\ r.row = RowOf(s) /\ r.id = s.id
      BY <2>3 DEF Request, PageState
    <3> QED BY <2>3, <3>1, RowFields
  <2> HIDE DEF n, r, s, p
  <2>6. PagesStamped'
    BY <1>d, <2>1, <2>2, <2>4, PageStampStep
  <2>7. WritesStamped'
    BY <1>d, <2>1, <2>5, RequestStampStep
  <2> QED BY <1>f, <2>1, <2>6, <2>7 DEF StampInv
<1>9. CASE FireOutLost
  <2> DEFINE p == Head(taps).page
             s == Left(page[p])
  <2>1. taps # <<>> /\ page' = [page EXCEPT ![p] = s]
        /\ UNCHANGED <<table, dbq, results>> /\ Today' = Today
    BY <1>9 DEF FireOutLost, Today
  <2>2. p \in Page /\ page[p] \in PageState /\ StampedPage(page[p])
    BY <1>s, <2>1, TapPage
  <2>3. /\ s \in PageState
        /\ s.id # NoId => s.nowWorkenter # NoTime
        /\ s.nowWorkout # NoTime
        /\ s.ymdWork <= Today
    BY <1>t, <2>2, PageStateTypes, PageFields, TimeIsStamped DEF StampedPage
  <2> HIDE DEF s, p
  <2>4. PagesStamped'
    BY <1>d, <2>1, <2>2, <2>3, PageStampStep
  <2> QED BY <1>f, <2>1, <2>4 DEF StampInv
<1>10. CASE FireDropped
  BY <1>10, <1>f DEF FireDropped, StampInv
<1>11. CASE DbWrite
  <2>1. /\ 1 \in DOMAIN dbq /\ dbq' = Tail(dbq)
        /\ dbq[1].op # "query" /\ dbq[1].row \in Row
        /\ \/ table' = table
           \/ /\ dbq[1].op = "insert"
              /\ table' = Append(table, dbq[1].row)
           \/ /\ dbq[1].op = "update"
              /\ dbq[1].id \in DOMAIN table
              /\ table' = [table EXCEPT ![dbq[1].id] = dbq[1].row]
    BY <1>11, WriteEffect DEF TypeInv
  <2>2. StampedWrite(dbq[1]) /\ Today' = Today
        /\ UNCHANGED <<results, page>>
    BY <1>11, <2>1 DEF StampInv, WritesStamped, DbWrite, Today
  <2>3. table \in Seq(Row) /\ \A i \in DOMAIN table : StampedRow(table[i])
    BY DEF TypeInv, TypeOK, StampInv, RowsStamped
  <2>4. RowsStamped'
    <3>1. CASE table' = table
      BY <1>f, <3>1
    <3>2. CASE dbq[1].op = "insert" /\ table' = Append(table, dbq[1].row)
      <4>1. StampedRow(dbq[1].row)
        BY <2>2, <3>2 DEF StampedWrite, StampedRow
      <4>2. ASSUME NEW i \in DOMAIN table' PROVE StampedRow(table[i])'
        <5>1. (i \in DOMAIN table /\ table'[i] = table[i]) \/ table'[i] = dbq[1].row
          BY <2>1, <2>3, <3>2, <4>2, AppendElements
        <5> QED BY <2>2, <2>3, <4>1, <5>1 DEF StampedRow
      <4> QED BY <4>2 DEF RowsStamped
    <3>3. CASE /\ dbq[1].op = "update" /\ dbq[1].id \in DOMAIN table
               /\ table' = [table EXCEPT ![dbq[1].id] = dbq[1].row]
      <4>1. dbq[1].id # NoId
        BY <2>3, <3>3, ConstantsAssumption
      <4>2. StampedRow(dbq[1].row)
        BY <2>2, <4>1 DEF StampedWrite, StampedRow
      <4>3. ASSUME NEW i \in DOMAIN table' PROVE StampedRow(table[i])'
        <5>1. i \in DOMAIN table /\ (table'[i] = table[i] \/ table'[i] = dbq[1].row)
          BY <3>3, <4>3
        <5> QED BY <2>2, <2>3, <4>2, <5>1 DEF StampedRow
      <4> QED BY <4>3 DEF RowsStamped
    <3> QED BY <2>1, <3>1, <3>2, <3>3
  <2>5. WritesStamped'
    BY <1>d, <2>1, <2>2, ServedWrites
  <2> QED BY <1>f, <2>2, <2>4, <2>5 DEF StampInv
<1>12. CASE DbQuery
  <2> DEFINE a == [page |-> Head(dbq).page, rows |-> table]
             Answer == [page : Page, rows : Seq(Row)]
  <2>1. dbq \in Seq(Request) /\ dbq # <<>> /\ dbq' = Tail(dbq)
        /\ results' = Append(results, a) /\ a.rows = table
        /\ UNCHANGED <<table, page>> /\ Today' = Today
    BY <1>12 DEF TypeInv, TypeOK, DbQuery, Today
  <2>2. a \in Answer /\ results \in Seq(Answer)
    <3>1. Head(dbq) \in Request /\ Head(dbq).op = "query"
      BY <1>12, <2>1 DEF DbQuery
    <3> QED BY <3>1 DEF Request, TypeInv, TypeOK
  <2>3. 1 \in DOMAIN dbq
    BY <2>1
  <2>4. WritesStamped'
    BY <2>1, <2>3, ServedWrites
  <2> HIDE DEF a, Answer
  <2>5. AnswersStamped'
    <3>1. ASSUME NEW k \in DOMAIN results', NEW i \in DOMAIN results'[k].rows
          PROVE  StampedRow(results[k].rows[i])'
      <4>1. (k \in DOMAIN results /\ results'[k] = results[k]) \/ results'[k] = a
        BY <2>1, <2>2, <3>1, AppendElements
      <4>2. CASE k \in DOMAIN results /\ results'[k] = results[k]
        <5>1. StampedRow(results[k].rows[i])
          BY <3>1, <4>2 DEF StampInv, AnswersStamped
        <5> QED BY <2>1, <4>2, <5>1 DEF StampedRow
      <4>3. CASE results'[k] = a
        <5>1. i \in DOMAIN table /\ StampedRow(table[i])
          BY <2>1, <3>1, <4>3 DEF StampInv, RowsStamped
        <5> QED BY <2>1, <4>3, <5>1 DEF StampedRow
      <4> QED BY <4>1, <4>2, <4>3
    <3> QED BY <3>1 DEF AnswersStamped
  <2> QED BY <1>f, <2>1, <2>4, <2>5 DEF StampInv
<1>13. CASE Deliver
  <2> DEFINE p == Head(results).page
             rows == Head(results).rows
             Answer == [page : Page, rows : Seq(Row)]
  <2>1. results \in Seq(Answer) /\ results # <<>> /\ results' = Tail(results)
        /\ UNCHANGED <<table, dbq>> /\ Today' = Today
    BY <1>13 DEF TypeInv, TypeOK, Deliver, Today
  <2>2. 1 \in DOMAIN results /\ Head(results) = results[1]
    BY <2>1, HeadElement
  <2>3. p \in Page /\ rows \in Seq(Row) /\ page[p] \in PageState
        /\ StampedPage(page[p])
    BY <1>t, <1>s, <2>2, AnswerTypes
  <2>4. \A i \in DOMAIN rows : StampedRow(rows[i])
    BY <2>2 DEF StampInv, AnswersStamped
  <2>5. \/ \E i \in DOMAIN rows : page' = [page EXCEPT ![p] = Loaded(page[p], rows, i)]
        \/ UNCHANGED page
    BY <1>13 DEF Deliver
  <2> HIDE DEF p, rows, Answer
  <2>6. PagesStamped'
    <3>1. ASSUME NEW i \in DOMAIN rows,
                 page' = [page EXCEPT ![p] = Loaded(page[p], rows, i)]
          PROVE  PagesStamped'
      <4> DEFINE s == Loaded(page[p], rows, i)
      <4>1. /\ s \in PageState
            /\ s.nowWorkenter # NoTime
            /\ s.outbutton => s.nowWorkout # NoTime
            /\ s.ymdWork <= Today
        <5>1. /\ s.outbutton => rows[i].outbutton = 1
              /\ s.nowWorkenter = rows[i].nowWorkenter
              /\ s.nowWorkout = rows[i].nowWorkout
              /\ s.ymdWork = page[p].ymdWork
          BY <2>3, LoadedFields
        <5>2. s \in PageState /\ StampedRow(rows[i])
          BY <2>3, <2>4, LoadedType
        <5> QED BY <2>3, <5>1, <5>2 DEF StampedRow, StampedPage
      <4>2. page' = [page EXCEPT ![p] = s]
        BY <3>1
      <4> HIDE DEF s
      <4> QED BY <1>d, <2>1, <2>3, <4>1, <4>2, PageStampStep
    <3> QED BY <1>f, <2>5, <3>1
  <2>7. AnswersStamped'
    <3>1. ASSUME NEW k \in DOMAIN results', NEW i \in DOMAIN results'[k].rows
          PROVE  StampedRow(results[k].rows[i])'
      <4>1. k + 1 \in DOMAIN results /\ results'[k] = results[k + 1]
        BY <2>1, <3>1, TailElements
      <4>2. StampedRow(results[k + 1].rows[i])
        BY <3>1, <4>1 DEF StampInv, AnswersStamped
      <4> QED BY <2>1, <4>1, <4>2 DEF StampedRow
    <3> QED BY <3>1 DEF AnswersStamped
  <2> QED BY <1>f, <2>1, <2>6, <2>7 DEF StampInv
<1>14. CASE Tick
  BY <1>14, <1>f DEF Tick, StampInv
<1>15. CASE AppKill
  <2>1. Gone(Fresh).id = NoId /\ ~Gone(Fresh).outbutton /\ Gone(Fresh).ymdWork = 0
    BY <1>t, PageStateTypes, PageFields DEF Fresh
  <2>2. PagesStamped'
    <3>1. \A p \in Page : page'[p] = Gone(Fresh)
      BY <1>15 DEF AppKill
    <3>2. 0 <= Today'
      BY <1>d
    <3> QED BY <2>1, <3>1, <3>2 DEF PagesStamped, StampedPage
  <2> QED BY <1>15, <1>f, <2>2 DEF AppKill, StampInv, AnswersStamped, WritesStamped
<1> QED
  BY <1>0, <1>1, <1>2, <1>3, <1>4, <1>5, <1>6, <1>7, <1>8, <1>9, <1>10,
     <1>11, <1>12, <1>13, <1>14, <1>15 DEF Next

(* No row is ever stored without a clock-in time, with an out flag but no  *)
(* clock-out time, or with a date in the future, whatever the interleaving *)
(* of taps, loads, page changes, midnights and crashes, and although the   *)
(* page lets 退勤 be tapped first.                                          *)
THEOREM StoredRowsAreStamped == Spec => []RowsStamped
<1>1. Init => TypeInv /\ StampInv
  BY TypeInvInit, StampInvInit
<1>2. TypeInv /\ StampInv /\ [Next]_vars => (TypeInv /\ StampInv)'
  BY TypeInvStep, StampInvStep
<1>3. StampInv => RowsStamped
  BY DEF StampInv
<1> QED BY <1>1, <1>2, <1>3, PTL DEF Spec

-----------------------------------------------------------------------------
(* The page just built is the only one mounted and has today's date, the   *)
(* latest there is; it has at most asked a query.                          *)
LEMMA BuiltDays ==
  ASSUME TypeInv, StampInv, DayInv, NEW p \in Page,
         UNCHANGED table,
         page'[p].ymdWork = Today,
         \A q \in Page : q # p => page'[q] = page[q] /\ ~Mounted(q),
         dbq' = dbq \/ \E r \in Request : r.op = "query" /\ dbq' = Append(dbq, r)
  PROVE  DayInv'
<1>1. dbq \in Seq(Request)
  BY DEF TypeInv, TypeOK
<1>2. ASSUME NEW k \in DOMAIN dbq', dbq'[k].op # "query"
      PROVE  k \in DOMAIN dbq /\ dbq'[k] = dbq[k]
  <2>1. CASE dbq' = dbq
    BY <1>2, <2>1
  <2>2. ASSUME NEW r \in Request, r.op = "query", dbq' = Append(dbq, r)
        PROVE  k \in DOMAIN dbq /\ dbq'[k] = dbq[k]
    BY <1>1, <1>2, <2>2, AppendElements
  <2> QED BY <2>1, <2>2
<1>3. OneMounted'
  BY DEF OneMounted, Mounted
<1>4. MountedIsLatest'
  <2> SUFFICES ASSUME NEW m \in Page, Mounted(m)'
               PROVE  /\ \A q \in Page : page'[q].ymdWork <= page'[m].ymdWork
                      /\ \A i \in DOMAIN table' : table'[i].ymdWork <= page'[m].ymdWork
                      /\ \A k \in DOMAIN dbq' :
                           dbq'[k].op # "query" => dbq'[k].row.ymdWork <= page'[m].ymdWork
    BY DEF MountedIsLatest
  <2>1. m = p
    BY DEF Mounted
  <2>2. Today \in Nat /\ Today <= Today
    BY CalendarTypes DEF TypeInv, TypeOK
  <2>3. \A q \in Page : page'[q].ymdWork <= Today
    BY <2>2 DEF StampInv, PagesStamped, StampedPage
  <2>4. \A i \in DOMAIN table' : table'[i].ymdWork <= Today
    BY DEF StampInv, RowsStamped, StampedRow
  <2>5. \A k \in DOMAIN dbq' : dbq'[k].op # "query" => dbq'[k].row.ymdWork <= Today
    BY <1>2 DEF StampInv, WritesStamped, StampedWrite
  <2> QED BY <2>1, <2>3, <2>4, <2>5
<1>5. UpdatesAreLatest'
  BY <1>2 DEF DayInv, UpdatesAreLatest
<1> QED BY <1>3, <1>4, <1>5 DEF DayInv

(* A step that mounts and dates no page, and makes no request. *)
LEMMA SameDays ==
  ASSUME DayInv, UNCHANGED <<table, dbq>>,
         \A q \in Page : /\ page'[q].ymdWork = page[q].ymdWork
                         /\ page'[q].life = page[q].life \/ ~Mounted(q)'
  PROVE  DayInv'
<1>1. \A q \in Page : Mounted(q)' => Mounted(q)
  BY DEF Mounted
<1>2. OneMounted'
  BY <1>1 DEF DayInv, OneMounted
<1>3. MountedIsLatest'
  <2> SUFFICES ASSUME NEW m \in Page, Mounted(m)'
               PROVE  /\ \A q \in Page : page'[q].ymdWork <= page'[m].ymdWork
                      /\ \A i \in DOMAIN table' : table'[i].ymdWork <= page'[m].ymdWork
                      /\ \A k \in DOMAIN dbq' :
                           dbq'[k].op # "query" => dbq'[k].row.ymdWork <= page'[m].ymdWork
    BY DEF MountedIsLatest
  <2>1. Mounted(m) /\ page'[m].ymdWork = page[m].ymdWork
    BY <1>1
  <2>2. /\ \A q \in Page : page[q].ymdWork <= page[m].ymdWork
        /\ \A i \in DOMAIN table : table[i].ymdWork <= page[m].ymdWork
        /\ \A k \in DOMAIN dbq :
             dbq[k].op # "query" => dbq[k].row.ymdWork <= page[m].ymdWork
    BY <2>1 DEF DayInv, MountedIsLatest
  <2>3. \A q \in Page : page'[q].ymdWork <= page'[m].ymdWork
    BY <2>1, <2>2
  <2>4. table' = table /\ dbq' = dbq
    OBVIOUS
  <2> QED BY <2>1, <2>2, <2>3, <2>4
<1>4. UpdatesAreLatest'
  BY DEF DayInv, UpdatesAreLatest
<1> QED BY <1>2, <1>3, <1>4 DEF DayInv

(* A button makes a request dated like its page, an update only on the     *)
(* mounted page.                                                           *)
LEMMA RequestDays ==
  ASSUME TypeInv, DayInv, UNCHANGED table,
         \A q \in Page : /\ page'[q].ymdWork = page[q].ymdWork
                         /\ page'[q].life = page[q].life,
         NEW r \in Request, dbq' = Append(dbq, r),
         NEW p \in Page, r.op # "query", r.row.ymdWork = page[p].ymdWork,
         r.op = "update" => Mounted(p)
  PROVE  DayInv'
<1>1. dbq \in Seq(Request) /\ Len(dbq) \in Nat /\ DOMAIN dbq = 1 .. Len(dbq)
  BY DEF TypeInv, TypeOK
<1>2. ASSUME NEW k \in DOMAIN dbq'
      PROVE  \/ k \in DOMAIN dbq /\ dbq'[k] = dbq[k]
             \/ k = Len(dbq) + 1 /\ dbq'[k] = r
  BY <1>1, <1>2, AppendElements
<1>3. OneMounted'
  BY DEF DayInv, OneMounted, Mounted
<1>4. MountedIsLatest'
  BY <1>2 DEF DayInv, MountedIsLatest, Mounted
<1>5. UpdatesAreLatest'
  <2> SUFFICES ASSUME NEW k \in DOMAIN dbq', dbq'[k].op = "update"
               PROVE  /\ \A i \in DOMAIN table :
                           table[i].ymdWork <= dbq'[k].row.ymdWork
                      /\ \A j \in DOMAIN dbq' :
                           j < k /\ dbq'[j].op # "query" =>
                             dbq'[j].row.ymdWork <= dbq'[k].row.ymdWork
    BY DEF UpdatesAreLatest
  <2>1. CASE k \in DOMAIN dbq /\ dbq'[k] = dbq[k]
    <3>1. \A j \in DOMAIN dbq' : j < k => j \in DOMAIN dbq /\ dbq'[j] = dbq[j]
      BY <1>1, <1>2, <2>1
    <3> QED BY <2>1, <3>1 DEF DayInv, UpdatesAreLatest
  <2>2. CASE k = Len(dbq) + 1 /\ dbq'[k] = r
    <3>1. Mounted(p) /\ dbq'[k].row.ymdWork = page[p].ymdWork
      BY <2>2
    <3>2. \A j \in DOMAIN dbq' : j < k => j \in DOMAIN dbq /\ dbq'[j] = dbq[j]
      BY <1>1, <1>2, <2>2
    <3> QED BY <3>1, <3>2 DEF DayInv, MountedIsLatest
  <2> QED BY <1>2, <2>1, <2>2
<1> QED BY <1>3, <1>4, <1>5 DEF DayInv

(* A request is served; a row it writes is dated like the request. *)
LEMMA ServedDays ==
  ASSUME TypeInv, DayInv, UNCHANGED page,
         1 \in DOMAIN dbq, dbq' = Tail(dbq),
         \A i \in DOMAIN table' :
           \/ i \in DOMAIN table /\ table'[i] = table[i]
           \/ dbq[1].op # "query" /\ table'[i] = dbq[1].row
  PROVE  DayInv'
<1>1. dbq \in Seq(Request) /\ dbq # <<>>
  BY DEF TypeInv, TypeOK
<1>2. \A k \in DOMAIN dbq' : k \in Nat /\ k + 1 \in DOMAIN dbq /\ dbq'[k] = dbq[k + 1]
  <2>1. dbq' \in Seq(Request)
    BY <1>1
  <2> QED BY <1>1, <2>1, TailElements
<1>3. OneMounted'
  BY DEF DayInv, OneMounted, Mounted
<1>4. MountedIsLatest'
  BY <1>2 DEF DayInv, MountedIsLatest, Mounted
<1>5. UpdatesAreLatest'
  <2> SUFFICES ASSUME NEW k \in DOMAIN dbq', dbq'[k].op = "update"
               PROVE  /\ \A i \in DOMAIN table' :
                           table'[i].ymdWork <= dbq'[k].row.ymdWork
                      /\ \A j \in DOMAIN dbq' :
                           j < k /\ dbq'[j].op # "query" =>
                             dbq'[j].row.ymdWork <= dbq'[k].row.ymdWork
    BY DEF UpdatesAreLatest
  <2>1. k \in Nat /\ k + 1 \in DOMAIN dbq /\ dbq'[k] = dbq[k + 1]
        /\ dbq[k + 1].op = "update"
    BY <1>2
  <2>2. /\ \A i \in DOMAIN table : table[i].ymdWork <= dbq[k + 1].row.ymdWork
        /\ \A j \in DOMAIN dbq :
             j < k + 1 /\ dbq[j].op # "query" =>
               dbq[j].row.ymdWork <= dbq[k + 1].row.ymdWork
    BY <2>1 DEF DayInv, UpdatesAreLatest
  <2>3. 1 < k + 1
    <3>1. k \in 1 .. Len(dbq')
      BY <1>1
    <3> QED BY <3>1
  <2>4. \A i \in DOMAIN table' : table'[i].ymdWork <= dbq'[k].row.ymdWork
    BY <2>1, <2>2, <2>3
  <2>5. ASSUME NEW j \in DOMAIN dbq', j < k, dbq'[j].op # "query"
        PROVE  dbq'[j].row.ymdWork <= dbq'[k].row.ymdWork
    <3>1. j \in Nat /\ j + 1 \in DOMAIN dbq /\ dbq'[j] = dbq[j + 1]
      BY <1>2
    <3>2. j + 1 < k + 1
      BY <2>1, <2>5, <3>1
    <3> QED BY <2>1, <2>2, <2>5, <3>1, <3>2
  <2> QED BY <2>4, <2>5
<1> QED BY <1>3, <1>4, <1>5 DEF DayInv

(* Layer 3 holds initially ... *)
LEMMA DayInvInit == Init => DayInv
<1> SUFFICES ASSUME Init PROVE DayInv
  OBVIOUS
<1>1. clock \in Nat
  BY DEF Init
<1>2. \A p \in Page : ~Mounted(p)
  BY <1>1, PageStateTypes, PageFields DEF Init, Mounted
<1> QED BY <1>2 DEF Init, DayInv, OneMounted, MountedIsLatest, UpdatesAreLatest

(* ... and every step preserves it. *)
LEMMA DayInvStep ==
  ASSUME TypeInv, StampInv, DayInv, [Next]_vars
  PROVE  DayInv'
<1>t. clock \in Nat /\ page \in [Page -> PageState]
      /\ \A p \in Page : page[p] \in PageState
  BY DEF TypeInv, TypeOK
<1>0. CASE UNCHANGED vars
  BY <1>0, SameDays DEF vars
<1>1. ASSUME NEW p \in Page, Open(p) PROVE DayInv'
  <2>1. page' = [page EXCEPT ![p] = Built(Fresh)] /\ Built(Fresh).ymdWork = Today
    BY <1>1, <1>t, PageStateTypes, PageFields DEF Open
  <2>2. page'[p].ymdWork = Today /\ \A q \in Page : q # p => page'[q] = page[q]
    BY <1>t, <2>1
  <2>3. [op |-> "query", page |-> p] \in Request
    BY DEF Request
  <2>4. \E r \in Request : r.op = "query" /\ dbq' = Append(dbq, r)
    BY <1>1, <2>3 DEF Open
  <2>5. UNCHANGED table /\ \A q \in Page : ~Mounted(q)
    BY <1>1 DEF Open
  <2> QED BY <2>2, <2>4, <2>5, BuiltDays
<1>2. ASSUME NEW p \in Page, Close(p) PROVE DayInv'
  <2>1. page' = [page EXCEPT ![p] = Gone(page[p])]
        /\ Gone(page[p]).ymdWork = page[p].ymdWork
        /\ Gone(page[p]).life = "disposed"
    BY <1>2, <1>t, PageFields DEF Close
  <2>2. \A q \in Page : /\ page'[q].ymdWork = page[q].ymdWork
                        /\ page'[q].life = page[q].life \/ ~Mounted(q)'
    BY <1>t, <2>1 DEF Mounted
  <2> QED BY <1>2, <2>2, SameDays DEF Close
<1>3. ASSUME NEW p \in Page, NEW on \in BOOLEAN, Connectivity(p, on)
      PROVE  DayInv'
  <2>1. \A q \in Page : /\ page'[q].ymdWork = page[q].ymdWork
                        /\ page'[q].life = page[q].life
    BY <1>3, <1>t DEF Connectivity, PageState
  <2> QED BY <1>3, <2>1, SameDays DEF Connectivity
<1>4. ASSUME NEW p \in Page, Build(p) PROVE DayInv'
  <2>1. page' = [page EXCEPT ![p] = Built(page[p])]
        /\ Built(page[p]).ymdWork = Today
    BY <1>4, <1>t, PageFields DEF Build
  <2>2. page'[p].ymdWork = Today /\ \A q \in Page : q # p => page'[q] = page[q]
    BY <1>t, <2>1
  <2>3. [op |-> "query", page |-> p] \in Request
    BY DEF Request
  <2>4. dbq' = dbq \/ \E r \in Request : r.op = "query" /\ dbq' = Append(dbq, r)
    BY <1>4, <2>3 DEF Build
  <2>5. UNCHANGED table /\ \A q \in Page : q # p => ~Mounted(q)
    BY <1>4 DEF Build, DayInv, OneMounted
  <2> QED BY <2>2, <2>4, <2>5, BuiltDays
<1>5. ASSUME NEW p \in Page, NEW b \in Button, Tap(p, b) PROVE DayInv'
  BY <1>5, SameDays DEF Tap
<1>6. ASSUME NEW p \in Page, DialogClose(p) PROVE DayInv'
  <2>1. \A q \in Page : /\ page'[q].ymdWork = page[q].ymdWork
                        /\ page'[q].life = page[q].life
    BY <1>6, <1>t DEF DialogClose, PageState
  <2> QED BY <1>6, <2>1, SameDays DEF DialogClose
<1>7. CASE FireEnter
  <2> DEFINE p == Head(taps).page
             s == Entered(page[p])
             n == IF Mounted(p) THEN Announced(s) ELSE s
             r == [op |-> "insert", id |-> s.id, row |-> RowOf(s)]
  <2>1. taps # <<>> /\ page' = [page EXCEPT ![p] = n] /\ dbq' = Append(dbq, r)
        /\ UNCHANGED table
    BY <1>7 DEF FireEnter
  <2>2. p \in Page /\ page[p] \in PageState
    BY <2>1, TapPage
  <2>3. s \in PageState /\ RowOf(s) \in Row /\ s.life = page[p].life
        /\ s.ymdWork = page[p].ymdWork
    BY <1>t, <2>2, PageStateTypes, PageFields
  <2>4. n.life = page[p].life /\ n.ymdWork = page[p].ymdWork
    BY <2>3, PageFields
  <2>5. r \in Request /\ r.op = "insert" /\ r.row.ymdWork = page[p].ymdWork
    <3>1. r \in Request /\ r.op = "insert" /\ r.row = RowOf(s)
      BY <2>3 DEF Request, PageState
    <3> QED BY <2>3, <3>1, RowFields
  <2> HIDE DEF n, r, s, p
  <2>6. \A q \in Page : /\ page'[q].ymdWork = page[q].ymdWork
                        /\ page'[q].life = page[q].life
    BY <1>t, <2>1, <2>2, <2>4
  <2> QED BY <2>1, <2>2, <2>5, <2>6, RequestDays
<1>8. CASE FireOut
  <2> DEFINE p == Head(taps).page
             s == Left(page[p])
             n == Announced(s)
             r == [op |-> "update", id |-> s.id, row |-> RowOf(s)]
  <2>1. taps # <<>> /\ page' = [page EXCEPT ![p] = n] /\ dbq' = Append(dbq, r)
        /\ UNCHANGED table /\ Mounted(p)
    BY <1>8 DEF FireOut
  <2>2. p \in Page /\ page[p] \in PageState
    BY <2>1, TapPage
  <2>3. s \in PageState /\ RowOf(s) \in Row /\ s.life = page[p].life
        /\ s.ymdWork = page[p].ymdWork
    BY <1>t, <2>2, PageStateTypes, PageFields
  <2>4. n.life = page[p].life /\ n.ymdWork = page[p].ymdWork
    BY <2>3, PageFields
  <2>5. r \in Request /\ r.op = "update" /\ r.row.ymdWork = page[p].ymdWork
    <3>1. r \in Request /\ r.op = "update" /\ r.row = RowOf(s)
      BY <2>3 DEF Request, PageState
    <3> QED BY <2>3, <3>1, RowFields
  <2> HIDE DEF n, r, s, p
  <2>6. \A q \in Page : /\ page'[q].ymdWork = page[q].ymdWork
                        /\ page'[q].life = page[q].life
    BY <1>t, <2>1, <2>2, <2>4
  <2> QED BY <2>1, <2>2, <2>5, <2>6, RequestDays
<1>9. CASE FireOutLost
  <2> DEFINE p == Head(taps).page
             s == Left(page[p])
  <2>1. taps # <<>> /\ page' = [page EXCEPT ![p] = s] /\ UNCHANGED <<table, dbq>>
    BY <1>9 DEF FireOutLost
  <2>2. p \in Page /\ page[p] \in PageState
    BY <2>1, TapPage
  <2>3. s.life = page[p].life /\ s.ymdWork = page[p].ymdWork
    BY <2>2, PageFields
  <2> HIDE DEF s, p
  <2>4. \A q \in Page : /\ page'[q].ymdWork = page[q].ymdWork
                        /\ page'[q].life = page[q].life
    BY <1>t, <2>1, <2>2, <2>3
  <2> QED BY <2>1, <2>4, SameDays
<1>10. CASE FireDropped
  BY <1>10, SameDays DEF FireDropped
<1>11. CASE DbWrite
  <2>1. /\ 1 \in DOMAIN dbq /\ dbq' = Tail(dbq)
        /\ dbq[1].op # "query" /\ dbq[1].row \in Row
        /\ \/ table' = table
           \/ /\ dbq[1].op = "insert"
              /\ table' = Append(table, dbq[1].row)
           \/ /\ dbq[1].op = "update"
              /\ dbq[1].id \in DOMAIN table
              /\ table' = [table EXCEPT ![dbq[1].id] = dbq[1].row]
    BY <1>11, WriteEffect DEF TypeInv
  <2>2. table \in Seq(Row) /\ UNCHANGED page
    BY <1>11 DEF TypeInv, TypeOK, DbWrite
  <2>3. ASSUME NEW i \in DOMAIN table'
        PROVE  (i \in DOMAIN table /\ table'[i] = table[i]) \/ table'[i] = dbq[1].row
    <3>1. CASE table' = table
      BY <2>3, <3>1
    <3>2. CASE table' = Append(table, dbq[1].row)
      BY <2>1, <2>2, <2>3, <3>2, AppendElements
    <3>3. CASE dbq[1].id \in DOMAIN table
               /\ table' = [table EXCEPT ![dbq[1].id] = dbq[1].row]
      BY <2>3, <3>3
    <3> QED BY <2>1, <3>1, <3>2, <3>3
  <2> QED BY <2>1, <2>2, <2>3, ServedDays
<1>12. CASE DbQuery
  <2>1. dbq \in Seq(Request) /\ dbq # <<>> /\ dbq' = Tail(dbq)
        /\ UNCHANGED <<table, page>>
    BY <1>12 DEF TypeInv, TypeOK, DbQuery
  <2>2. 1 \in DOMAIN dbq
    BY <2>1
  <2> QED BY <2>1, <2>2, ServedDays
<1>13. CASE Deliver
  <2> DEFINE p == Head(results).page
             rows == Head(results).rows
  <2>1. 1 \in DOMAIN results /\ Head(results) = results[1]
    <3>1. results \in Seq([page : Page, rows : Seq(Row)]) /\ results # <<>>
      BY <1>13 DEF Deliver, TypeInv, TypeOK
    <3> QED BY <3>1, HeadElement
  <2>2. p \in Page /\ rows \in Seq(Row) /\ page[p] \in PageState
    BY <1>t, <2>1, AnswerTypes
  <2>3. \/ \E i \in DOMAIN rows : page' = [page EXCEPT ![p] = Loaded(page[p], rows, i)]
        \/ UNCHANGED page
    BY <1>13 DEF Deliver
  <2> HIDE DEF p, rows
  <2>4. \A q \in Page : /\ page'[q].ymdWork = page[q].ymdWork
                        /\ page'[q].life = page[q].life
    <3>1. ASSUME NEW i \in DOMAIN rows
          PROVE  /\ Loaded(page[p], rows, i).ymdWork = page[p].ymdWork
                 /\ Loaded(page[p], rows, i).life = page[p].life
      BY <2>2, LoadedFields
    <3> QED BY <1>t, <2>2, <2>3, <3>1
  <2> QED BY <1>13, <2>4, SameDays DEF Deliver
<1>14. CASE Tick
  BY <1>14, SameDays DEF Tick
<1>15. CASE AppKill
  <2>1. \A p \in Page : ~Mounted(p)'
    BY <1>15, <1>t, PageStateTypes, PageFields DEF AppKill, Mounted
  <2> QED BY <1>15, <2>1
          DEF AppKill, DayInv, OneMounted, MountedIsLatest, UpdatesAreLatest
<1> QED
  BY <1>0, <1>1, <1>2, <1>3, <1>4, <1>5, <1>6, <1>7, <1>8, <1>9, <1>10,
     <1>11, <1>12, <1>13, <1>14, <1>15 DEF Next

(* Together: the inductive invariant holds in every reachable state. *)
THEOREM InductiveInvariant == Spec => []IInv
<1>1. Init => IInv
  BY TypeInvInit, StampInvInit, DayInvInit DEF IInv
<1>2. IInv /\ [Next]_vars => IInv'
  BY TypeInvStep, StampInvStep, DayInvStep DEF IInv
<1> QED BY <1>1, <1>2, PTL DEF Spec

-----------------------------------------------------------------------------
(* The table read as a book is a sequence of entries; stated for any table *)
(* so as to speak of the one before and the one after a step.              *)
BookOf(t) == [i \in DOMAIN t |->
                [day |-> t[i].ymdWork, in |-> t[i].nowWorkenter,
                 out |-> t[i].nowWorkout]]

LEMMA BookIsBook ==
  ASSUME NEW t \in Seq(Row), \A i \in DOMAIN t : t[i].nowWorkenter # NoTime
  PROVE  /\ BookOf(t) \in Seq(R!Entry) /\ Len(BookOf(t)) = Len(t)
         /\ DOMAIN BookOf(t) = DOMAIN t
         /\ \A i \in DOMAIN t :
              BookOf(t)[i] = [day |-> t[i].ymdWork, in |-> t[i].nowWorkenter,
                              out |-> t[i].nowWorkout]
<1>1. DOMAIN t = 1 .. Len(t) /\ Len(t) \in Nat
  OBVIOUS
<1>2. ASSUME NEW i \in DOMAIN t
      PROVE  [day |-> t[i].ymdWork, in |-> t[i].nowWorkenter,
              out |-> t[i].nowWorkout] \in R!Entry
  <2>1. t[i] \in Row /\ t[i].nowWorkenter # NoTime
    OBVIOUS
  <2> QED BY <2>1 DEF Row, Stamp, R!Entry
<1>3. BookOf(t) \in [1 .. Len(t) -> R!Entry]
  BY <1>1, <1>2 DEF BookOf
<1>4. BookOf(t) \in Seq(R!Entry) /\ Len(BookOf(t)) = Len(t)
  BY <1>1, <1>3
<1> QED BY <1>4 DEF BookOf

(* Every step of the application is a step of the register or leaves it    *)
(* alone.                                                                  *)
LEMMA RegisterStep ==
  ASSUME IInv, IInv', [Next]_vars
  PROVE  [R!Next]_(R!rvars)
<1>i. TypeInv /\ StampInv /\ DayInv /\ TypeInv' /\ StampInv'
  BY DEF IInv
<1>d. Today \in Nat /\ Today' \in Nat /\ Today <= Today'
  BY <1>i, CalendarStep
<1>b. /\ Book \in Seq(R!Entry) /\ Len(Book) = Len(table)
      /\ DOMAIN Book = DOMAIN table
      /\ \A i \in DOMAIN table :
           Book[i] = [day |-> table[i].ymdWork, in |-> table[i].nowWorkenter,
                      out |-> table[i].nowWorkout]
  <2>1. table \in Seq(Row) /\ \A i \in DOMAIN table : table[i].nowWorkenter # NoTime
    BY <1>i DEF TypeInv, TypeOK, StampInv, RowsStamped, StampedRow
  <2>2. Book = BookOf(table)
    BY DEF Book, BookOf
  <2> QED BY <2>1, <2>2, BookIsBook
<1>c. /\ Book' \in Seq(R!Entry) /\ Len(Book') = Len(table')
      /\ DOMAIN Book' = DOMAIN table'
      /\ \A i \in DOMAIN table' :
           Book'[i] = [day |-> table'[i].ymdWork, in |-> table'[i].nowWorkenter,
                       out |-> table'[i].nowWorkout]
  <2>1. table' \in Seq(Row) /\ \A i \in DOMAIN table' : table'[i].nowWorkenter # NoTime
    BY <1>i DEF TypeInv, TypeOK, StampInv, RowsStamped, StampedRow
  <2>2. Book' = BookOf(table')
    BY DEF Book, BookOf
  <2> QED BY <2>1, <2>2, BookIsBook
<1>1. CASE UNCHANGED <<clock, table>>
  BY <1>1 DEF R!rvars, Today, Book
<1>2. CASE Tick
  <2>1. Book' = Book
    BY <1>2 DEF Tick, Book
  <2> QED BY <1>d, <2>1 DEF R!Next, R!NewDay
<1>3. CASE DbWrite
  <2>1. /\ 1 \in DOMAIN dbq
        /\ dbq[1].op # "query" /\ dbq[1].row \in Row
        /\ \/ table' = table
           \/ /\ dbq[1].op = "insert"
              /\ table' = Append(table, dbq[1].row)
           \/ /\ dbq[1].op = "update"
              /\ dbq[1].id \in DOMAIN table
              /\ table' = [table EXCEPT ![dbq[1].id] = dbq[1].row]
    BY <1>i, <1>3, WriteEffect DEF TypeInv
  <2>2. StampedWrite(dbq[1]) /\ Today' = Today /\ table \in Seq(Row)
    BY <1>i, <1>3, <2>1 DEF StampInv, WritesStamped, DbWrite, Today, TypeInv, TypeOK
  <2>3. CASE table' = table
    BY <1>3, <2>3, <1>1 DEF DbWrite
  <2>4. CASE table' = Append(table, dbq[1].row)
    <3> DEFINE n == Len(table) + 1
               e == Book'[n]
    <3>1. Len(table') = n /\ n \in DOMAIN table' /\ table'[n] = dbq[1].row
          /\ \A i \in DOMAIN table : i \in DOMAIN table' /\ table'[i] = table[i]
      BY <2>1, <2>2, <2>4
    <3>2. e \in R!Entry /\ e.day = dbq[1].row.ymdWork
      BY <1>c, <3>1
    <3>3. e.day <= Today
      BY <2>2, <3>2 DEF StampedWrite
    <3>4. \A i \in DOMAIN Book : Book'[i] = Book[i]
      BY <1>b, <1>c, <3>1
    <3>5. Book' = Append(Book, e)
      <4>1. Append(Book, e) \in Seq(R!Entry) /\ Len(Append(Book, e)) = n
        BY <1>b, <3>2
      <4>2. \A i \in 1 .. n : Append(Book, e)[i] = Book'[i]
        BY <1>b, <3>2, <3>4
      <4> QED BY <1>c, <3>1, <4>1, <4>2
    <3>6. Len(Book') = Len(Book) + 1
      BY <1>b, <1>c, <3>1
    <3> QED BY <1>b, <2>2, <3>2, <3>3, <3>5, <3>6 DEF R!Next, R!Add
  <2>5. CASE /\ dbq[1].op = "update" /\ dbq[1].id \in DOMAIN table
             /\ table' = [table EXCEPT ![dbq[1].id] = dbq[1].row]
    <3> DEFINE i == dbq[1].id
               e == Book'[i]
    <3>1. i \in DOMAIN table /\ DOMAIN table' = DOMAIN table
          /\ table'[i] = dbq[1].row
          /\ \A j \in DOMAIN table : j # i => table'[j] = table[j]
      BY <2>5
    <3>2. e \in R!Entry /\ e.day = dbq[1].row.ymdWork
          /\ e.out = dbq[1].row.nowWorkout
      BY <1>c, <3>1
    <3>3. e.day <= Today /\ e.out # NoTime
      BY <2>2, <2>5, <3>2 DEF StampedWrite
    <3>4. Book[i].day <= e.day
      <4>1. table[i].ymdWork <= dbq[1].row.ymdWork
        BY <1>i, <2>1, <2>5, <3>1 DEF DayInv, UpdatesAreLatest
      <4> QED BY <1>b, <3>1, <3>2, <4>1
    <3>5. \A j \in DOMAIN Book : j # i => Book'[j] = Book[j]
      BY <1>b, <1>c, <3>1
    <3>6. Book' = [Book EXCEPT ![i] = e]
      BY <1>b, <1>c, <3>1, <3>5
    <3> QED BY <1>b, <1>c, <2>2, <3>1, <3>2, <3>3, <3>4, <3>6 DEF R!Next, R!Amend
  <2> QED BY <2>1, <2>3, <2>4, <2>5
<1>4. CASE \/ \E p \in Page : \/ Open(p) \/ Close(p) \/ Build(p) \/ DialogClose(p)
                              \/ \E on \in BOOLEAN : Connectivity(p, on)
                              \/ \E b \in Button : Tap(p, b)
           \/ FireEnter \/ FireOut \/ FireOutLost \/ FireDropped
           \/ DbQuery \/ Deliver \/ AppKill \/ UNCHANGED vars
  <2>1. UNCHANGED <<clock, table>>
    BY <1>4 DEF Open, Close, Build, DialogClose, Connectivity, Tap, FireEnter,
                FireOut, FireOutLost, FireDropped, DbQuery, Deliver, AppKill, vars
  <2> QED BY <1>1, <2>1
<1> QED BY <1>2, <1>3, <1>4 DEF Next

(* The application implements the register: over every run the table only  *)
(* gains rows with a clock-in time and completes rows with both times,     *)
(* never losing, emptying or dating back one.                              *)
THEOREM ImplementsRegister == Spec => RegisterSpec
<1>1. Init => R!Init
  <2> SUFFICES ASSUME Init PROVE R!Init
    OBVIOUS
  <2>1. Today \in Nat
    BY CalendarTypes DEF Init
  <2>2. Book = <<>>
    BY DEF Init, Book
  <2> QED BY <2>1, <2>2 DEF R!Init
<1>2. IInv /\ IInv' /\ [Next]_vars => [R!Next]_(R!rvars)
  BY RegisterStep
<1> QED BY <1>1, <1>2, InductiveInvariant, PTL DEF Spec, RegisterSpec, R!Spec
=============================================================================
