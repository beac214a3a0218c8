---------------------------- MODULE PatientProofs ----------------------------
(***************************************************************************)
(* Theorems about Attendance that need a user who waits, or a debug build. *)
(*                                                                         *)
(* CaughtUp speaks of the moments at which nothing is under way.  What     *)
(* holds at all times is that a mounted page that is online will know the  *)
(* table: a frame is due, or a read is under way with no write behind it,  *)
(* or the last answer it waits for is the table as it is, or there is      *)
(* nothing left to come and its fields are those of the day's last row.    *)
(*                                                                         *)
(* OneRowPerDay and ClockInKept then follow the one tap a waiting user has *)
(* under way: from the moment it starts until its request is served, the   *)
(* only row of the page's day is the one the page holds.                   *)
(***************************************************************************)
EXTENDS AttendanceProofs, ListFacts

(* Requests that write, the reads of a page, and its answers. *)
Writing == {r \in Request : r.op # "query"}
ReadsOf(p) == {r \in Request : r.op = "query" /\ r.page = p}
Answers == [page : Page, rows : Seq(Row)]
AnswersTo(p) == {a \in Answers : a.page = p}
Current(p, t) == {a \in AnswersTo(p) : a.rows = t}

(* The fields s are those of the last row of their day, if t has one. *)
Knows(s, t) ==
  \A i \in DOMAIN t : IsLastOf(t, s.ymdWork, i) => s = Loaded(s, t, i)

(* Page p with the fields s will know the table t, once the requests q     *)
(* have been served and the answers a delivered.                           *)
WillKnow(p, s, q, a, t) ==
  \/ s.dirty
  \/ LastIn(q, Writing, ReadsOf(p))
  \/ NoneIn(q, Writing) /\ LastIn(a, AnswersTo(p), Current(p, t))
  \/ NoneIn(q, Writing) /\ NoneIn(a, AnswersTo(p)) /\ Knows(s, t)

PagesWillKnow ==
  (PatientUser \/ ~ReleaseBuild) =>
    \A p \in Page : Mounted(p) /\ page[p].online =>
      WillKnow(p, page[p], dbq, results, table)

(* A user who waits does not leave a page with a tap under way. *)
TapsAreMounted == PatientUser => \A k \in DOMAIN taps : Mounted(taps[k].page)

(* Buttons drawn and not yet due to be drawn again are those of a page     *)
(* that is online.                                                         *)
ButtonsAreOnline ==
  \A p \in Page : Mounted(p) /\ ~page[p].dirty /\ page[p].shown # {} => page[p].online

WatchInv == PagesWillKnow /\ TapsAreMounted /\ ButtonsAreOnline

(* No day has two rows. *)
Distinct(t) == \A i, j \in DOMAIN t : t[i].ymdWork = t[j].ymdWork => i = j

(* A row of the day of the page is the page's, clock-in time included. *)
OwnsDay(s, t) ==
  \A i \in DOMAIN t : t[i].ymdWork = s.ymdWork =>
                        i = s.id /\ t[i].nowWorkenter = s.nowWorkenter

(* And so for a request: an insert finds no row of its day, or fails; an   *)
(* update finds at most its own, with the same clock-in time.              *)
Harmless(w, t) ==
  \A i \in DOMAIN t :
    t[i].ymdWork = w.row.ymdWork =>
      i = w.id /\ (w.op = "update" => t[i].nowWorkenter = w.row.nowWorkenter)

(* At most one tap is under way, nothing changes the table meanwhile, and  *)
(* its page owns its day.                                                  *)
TapOwnsDay ==
  /\ \A k, l \in DOMAIN taps : k = l
  /\ \A k \in DOMAIN taps :
       /\ NoneIn(dbq, Writing)
       /\ \A j \in DOMAIN results : results[j].rows = table
       /\ OwnsDay(page[taps[k].page], table)

(* At most one write is under way, and it does no harm. *)
WriteIsHarmless ==
  /\ \A k, l \in DOMAIN dbq : dbq[k] \in Writing /\ dbq[l] \in Writing => k = l
  /\ \A k \in DOMAIN dbq : dbq[k] \in Writing => Harmless(dbq[k], table)

PatientInv == PatientUser => Distinct(table) /\ TapOwnsDay /\ WriteIsHarmless

-----------------------------------------------------------------------------
(* What the operators that compute a page's fields do to the fields that   *)
(* say whether it will read the table.                                     *)
LEMMA PageSigns ==
  ASSUME NEW s \in PageState
  PROVE  /\ Built(s).online = s.online
         /\ Built(s).shown # {} => s.online
         /\ Announced(s).dirty /\ Announced(Entered(s)).dirty /\ Announced(Left(s)).dirty
         /\ \A on \in BOOLEAN : [s EXCEPT !.online = on, !.dirty = TRUE].dirty
<1>1. Built(s).online = s.online
  BY DEF Built, PageState
<1>2. Built(s).shown # {} => s.online
  <2>1. Built(s).shown = {b \in Button : /\ s.online
                                         /\ b = "enter" => ~s.enterbutton
                                         /\ b = "out" => ~s.outbutton}
    BY DEF Built, PageState
  <2> QED
    BY <2>1
<1>3. Announced(s).dirty
  BY DEF Announced, PageState
<1>5. Announced(Entered(s)).dirty
  BY DEF Announced, Entered, PageState
<1>6. Announced(Left(s)).dirty
  BY DEF Announced, Left, PageState
<1>7. \A on \in BOOLEAN : [s EXCEPT !.online = on, !.dirty = TRUE].dirty
  BY DEF PageState
<1> QED
  BY <1>1, <1>2, <1>3, <1>5, <1>6, <1>7

(* A row that is loaded leaves them alone. *)
LEMMA LoadedSigns ==
  ASSUME NEW s \in PageState, NEW t \in Seq(Row), NEW i \in DOMAIN t
  PROVE  /\ Loaded(s, t, i).online = s.online /\ Loaded(s, t, i).dirty = s.dirty
         /\ Loaded(s, t, i).shown = s.shown /\ Loaded(s, t, i).life = s.life
         /\ Loaded(s, t, i).ymdWork = s.ymdWork
         /\ Loaded(Loaded(s, t, i), t, i) = Loaded(s, t, i)
<1>1. /\ Loaded(s, t, i).online = s.online /\ Loaded(s, t, i).dirty = s.dirty
      /\ Loaded(s, t, i).shown = s.shown /\ Loaded(s, t, i).life = s.life
      /\ Loaded(s, t, i).ymdWork = s.ymdWork
  BY DEF Loaded, PageState
<1>2. Loaded(Loaded(s, t, i), t, i) = Loaded(s, t, i)
  BY DEF Loaded, PageState
<1> QED
  BY <1>1, <1>2

(* One slot gets new fields. *)
LEMMA Slots ==
  ASSUME TypeOK, NEW p \in Page, NEW s, page' = [page EXCEPT ![p] = s]
  PROVE  page'[p] = s /\ \A q \in Page : q # p => page'[q] = page[q]
BY DEF TypeOK

(* Of the rows of a day one is the last, and no other. *)
LEMMA LastRow ==
  ASSUME NEW t \in Seq(Row), NEW d
  PROVE  /\ \A i, j : IsLastOf(t, d, i) /\ IsLastOf(t, d, j) => i = j
         /\ (\E i \in DOMAIN t : t[i].ymdWork = d) => \E i \in DOMAIN t : IsLastOf(t, d, i)
<1> DEFINE T == {i \in DOMAIN t : t[i].ymdWork = d}
<1>1. Len(t) \in Nat /\ DOMAIN t = 1 .. Len(t) /\ T \subseteq 1 .. Len(t)
  OBVIOUS
<1>2. ASSUME NEW i, NEW j, IsLastOf(t, d, i), IsLastOf(t, d, j) PROVE i = j
  <2>1. i \in Nat /\ j \in Nat /\ i <= j /\ j <= i
    BY <1>1, <1>2 DEF IsLastOf
  <2> QED
    BY <2>1
<1>3. ASSUME T # {} PROVE \E i \in DOMAIN t : IsLastOf(t, d, i)
  <2>1. PICK m \in T : \A x \in T : m >= x
    <3> HIDE DEF T
    <3> QED
      BY <1>1, <1>3, GreatestNumber
  <2>2. \A x \in T : x <= m
    BY <1>1, <2>1
  <2>3. IsLastOf(t, d, m)
    BY <2>2 DEF IsLastOf
  <2> QED
    BY <2>3
<1> QED
  BY <1>2, <1>3

-----------------------------------------------------------------------------
(* Taps under way, and those that remain when the first has fired. *)
LEMMA TapElements ==
  ASSUME TypeOK
  PROVE  /\ \A k \in DOMAIN taps : taps[k].page \in Page
         /\ taps # <<>> => /\ 1 \in DOMAIN taps /\ Head(taps) = taps[1]
                           /\ \A k \in DOMAIN Tail(taps) :
                                k + 1 \in DOMAIN taps /\ Tail(taps)[k] = taps[k + 1]
<1> DEFINE T == [page : Page, button : Button]
<1>1. taps \in Seq(T)
  BY DEF TypeOK
<1>2. \A e \in T : e.page \in Page
  OBVIOUS
<1> HIDE DEF T
<1>3. \A k \in DOMAIN taps : taps[k].page \in Page
  BY <1>1, <1>2
<1>4. ASSUME taps # <<>>
      PROVE  /\ 1 \in DOMAIN taps /\ Head(taps) = taps[1]
             /\ \A k \in DOMAIN Tail(taps) :
                  k + 1 \in DOMAIN taps /\ Tail(taps)[k] = taps[k + 1]
  BY <1>1, <1>4, HeadElement, TailElements
<1> QED
  BY <1>3, <1>4

(* The button whose delay expires: its page keeps its life. *)
LEMMA FirePage ==
  ASSUME TypeOK, FireEnter \/ FireOut \/ FireOutLost \/ FireDropped
  PROVE  /\ taps # <<>> /\ taps' = Tail(taps) /\ Head(taps).page \in Page
         /\ UNCHANGED <<clock, table, results>>
         /\ \A q \in Page : page'[q].life = page[q].life
         /\ \A q \in Page : q # Head(taps).page => page'[q] = page[q]
         /\ Mounted(Head(taps).page) => page'[Head(taps).page].dirty
<1> DEFINE p == Head(taps).page
<1>0. /\ clock \in Nat /\ taps # <<>> /\ taps' = Tail(taps) /\ UNCHANGED <<clock, table, results>>
  BY DEF TypeOK, FireEnter, FireOut, FireOutLost, FireDropped
<1>1. p \in Page
  BY <1>0, TapElements
<1>2. page[p] \in PageState /\ page \in [Page -> PageState]
  BY <1>1 DEF TypeOK
<1> DEFINE e == Entered(page[p])
           l == Left(page[p])
<1>3. e \in PageState /\ l \in PageState
  BY <1>0, <1>2, PageStateTypes
<1>4. /\ e.life = page[p].life /\ l.life = page[p].life
      /\ Announced(e).life = page[p].life /\ Announced(l).life = page[p].life
  <2>1. e.life = page[p].life /\ l.life = page[p].life
    BY <1>2, PageFields
  <2> HIDE DEF e, l
  <2>2. Announced(e).life = e.life /\ Announced(l).life = l.life
    BY <1>3, PageFields
  <2> QED
    BY <2>1, <2>2
<1>5. Announced(e).dirty /\ Announced(l).dirty
  BY <1>2, PageSigns
<1>6. CASE FireEnter
  <2>1. page' = [page EXCEPT ![p] = IF Mounted(p) THEN Announced(e) ELSE e]
    BY <1>6 DEF FireEnter
  <2> HIDE DEF e, p
  <2>2. /\ page'[p] = IF Mounted(p) THEN Announced(e) ELSE e
        /\ \A q \in Page : q # p => page'[q] = page[q]
    BY <1>1, <2>1, Slots
  <2>3. \A q \in Page : page'[q].life = page[q].life
    BY <1>4, <2>2
  <2>4. Mounted(p) => page'[p].dirty
    BY <1>5, <2>2
  <2> QED
    BY <1>0, <1>1, <2>2, <2>3, <2>4 DEF p
<1>7. CASE FireOut
  <2>1. page' = [page EXCEPT ![p] = Announced(l)]
    BY <1>7 DEF FireOut
  <2> HIDE DEF l, p
  <2>2. page'[p] = Announced(l) /\ \A q \in Page : q # p => page'[q] = page[q]
    BY <1>1, <2>1, Slots
  <2>3. \A q \in Page : page'[q].life = page[q].life
    BY <1>4, <2>2
  <2>4. page'[p].dirty
    BY <1>5, <2>2
  <2> QED
    BY <1>0, <1>1, <2>2, <2>3, <2>4 DEF p
<1>8. CASE FireOutLost
  <2>1. page' = [page EXCEPT ![p] = l] /\ ~Mounted(p)
    BY <1>8 DEF FireOutLost
  <2> HIDE DEF l, p
  <2>2. page'[p] = l /\ \A q \in Page : q # p => page'[q] = page[q]
    BY <1>1, <2>1, Slots
  <2>3. \A q \in Page : page'[q].life = page[q].life
    BY <1>4, <2>2
  <2> QED
    BY <1>0, <1>1, <2>1, <2>2, <2>3 DEF p
<1>9. CASE FireDropped
  <2>1. page' = page /\ ~Mounted(p)
    BY <1>9 DEF FireDropped
  <2> QED
    BY <1>0, <1>1, <2>1
<1> QED
  BY <1>6, <1>7, <1>8, <1>9

(* An answer is delivered: its page has loaded the last row of its day, or *)
(* there is none.                                                          *)
LEMMA DeliverPage ==
  ASSUME TypeInv, Deliver
  PROVE  /\ results # <<>> /\ results' = Tail(results) /\ results \in Seq(Answers)
         /\ Head(results) \in Answers /\ UNCHANGED <<clock, table, dbq, taps>>
         /\ \A q \in Page : q # Head(results).page => page'[q] = page[q]
         /\ \A q \in Page : q = Head(results).page =>
              \/ \E i \in DOMAIN Head(results).rows :
                   /\ IsLastOf(Head(results).rows, page[q].ymdWork, i)
                   /\ page'[q] = Loaded(page[q], Head(results).rows, i)
              \/ /\ \A i \in DOMAIN Head(results).rows :
                      Head(results).rows[i].ymdWork # page[q].ymdWork
                 /\ page'[q] = page[q]
<1> DEFINE a == Head(results)
           p == a.page
<1>1. /\ results # <<>> /\ results' = Tail(results) /\ results \in Seq(Answers)
      /\ UNCHANGED <<clock, table, dbq, taps>>
  BY DEF Deliver, TypeInv, TypeOK, Answers
<1>2. a \in Answers
  <2> HIDE DEF a
  <2>1. \A S, s : s \in Seq(S) /\ s # <<>> => Head(s) \in S
    OBVIOUS
  <2> QED
    BY <1>1, <2>1 DEF a
<1>3. p \in Page
  <2> HIDE DEF a
  <2> QED
    BY <1>2 DEF Answers
<1>4. CASE \E i \in DOMAIN a.rows :
             /\ IsLastOf(a.rows, page[p].ymdWork, i)
             /\ page' = [page EXCEPT ![p] = Loaded(page[p], a.rows, i)]
  <2>1. PICK i \in DOMAIN a.rows :
               /\ IsLastOf(a.rows, page[p].ymdWork, i)
               /\ page' = [page EXCEPT ![p] = Loaded(page[p], a.rows, i)]
    BY <1>4
  <2>2. /\ page'[p] = Loaded(page[p], a.rows, i)
        /\ \A q \in Page : q # p => page'[q] = page[q]
    <3> HIDE DEF a
    <3> QED
      BY <1>3, <2>1, Slots DEF TypeInv
  <2> HIDE DEF a
  <2>3. \A q \in Page : q = a.page =>
          \E j \in DOMAIN a.rows : /\ IsLastOf(a.rows, page[q].ymdWork, j)
                                   /\ page'[q] = Loaded(page[q], a.rows, j)
    BY <2>1, <2>2
  <2> QED
    BY <1>1, <1>2, <2>2, <2>3 DEF a
<1>5. CASE /\ \A i \in DOMAIN a.rows : a.rows[i].ymdWork # page[p].ymdWork
           /\ page' = page
  <2> HIDE DEF a
  <2>1. \A q \in Page : q = a.page =>
          /\ \A i \in DOMAIN a.rows : a.rows[i].ymdWork # page[q].ymdWork
          /\ page'[q] = page[q]
    BY <1>5
  <2> QED
    BY <1>1, <1>2, <1>5, <2>1 DEF a
<1>6. \/ \E i \in DOMAIN a.rows :
           /\ IsLastOf(a.rows, page[p].ymdWork, i)
           /\ page' = [page EXCEPT ![p] = Loaded(page[p], a.rows, i)]
      \/ /\ \A i \in DOMAIN a.rows : a.rows[i].ymdWork # page[p].ymdWork
         /\ page' = page
  BY DEF Deliver
<1> QED
  BY <1>4, <1>5, <1>6

(* What a step does to the life of pages. *)
LEMMA LifeStep ==
  ASSUME TypeInv, [Next]_vars
  PROVE  \/ \A q \in Page : Mounted(q) => Mounted(q)'
         \/ taps' = <<>>
         \/ ~PatientUser
<1>0. TypeOK /\ clock \in Nat /\ page \in [Page -> PageState]
  BY DEF TypeInv, TypeOK
<1>f. Fresh \in PageState /\ Built(Fresh).life = "mounted"
  <2>1. Fresh \in PageState
    BY <1>0, PageStateTypes
  <2> QED
    BY <2>1, PageFields DEF Fresh
<1>1. ASSUME NEW p \in Page, Open(p) PROVE \A q \in Page : Mounted(q) => Mounted(q)'
  BY <1>1 DEF Open
<1>2. ASSUME NEW p \in Page, Close(p), PatientUser PROVE taps' = <<>>
  BY <1>2 DEF Close, Settled
<1>3. ASSUME NEW p \in Page, Build(p) PROVE \A q \in Page : Mounted(q) => Mounted(q)'
  <2>1. page'[p] = Built(page[p]) /\ \A q \in Page : q # p => page'[q] = page[q]
    BY <1>0, <1>3, Slots DEF Build
  <2>2. Built(page[p]).life = page[p].life
    BY <1>0, PageFields
  <2> QED
    BY <2>1, <2>2 DEF Mounted
<1>4. ASSUME NEW p \in Page, DialogClose(p) PROVE \A q \in Page : Mounted(q) => Mounted(q)'
  BY <1>0, <1>4 DEF DialogClose, Mounted, PageState
<1>5. ASSUME NEW p \in Page, NEW on \in BOOLEAN, Connectivity(p, on)
      PROVE  \A q \in Page : Mounted(q) => Mounted(q)'
  BY <1>0, <1>5 DEF Connectivity, Mounted, PageState
<1>6. ASSUME NEW p \in Page, NEW b \in Button, Tap(p, b)
      PROVE  \A q \in Page : Mounted(q) => Mounted(q)'
  BY <1>6 DEF Tap, Mounted
<1>7. CASE FireEnter \/ FireOut \/ FireOutLost \/ FireDropped
  BY <1>0, <1>7, FirePage DEF Mounted
<1>8. CASE DbWrite \/ DbQuery \/ Tick \/ UNCHANGED vars
  BY <1>8 DEF DbWrite, DbQuery, Tick, vars, Mounted
<1>9. CASE Deliver
  <2>1. ASSUME NEW q \in Page PROVE page'[q].life = page[q].life
    <3>1. CASE page'[q] = page[q]
      BY <3>1
    <3>2. ASSUME NEW i \in DOMAIN Head(results).rows,
                 page'[q] = Loaded(page[q], Head(results).rows, i)
          PROVE  page'[q].life = page[q].life
      <4>1. Head(results).rows \in Seq(Row)
        BY <1>9, DeliverPage DEF Answers
      <4> QED
        BY <1>0, <3>2, <4>1, LoadedSigns
    <3> QED
      BY <1>9, <3>1, <3>2, DeliverPage
  <2> QED
    BY <2>1 DEF Mounted
<1>10. CASE AppKill
  BY <1>10 DEF AppKill
<1> QED
  BY <1>1, <1>2, <1>3, <1>4, <1>5, <1>6, <1>7, <1>8, <1>9, <1>10 DEF Next

(* Who waits has no tap under way on a page that is gone. *)
LEMMA TapsStep ==
  ASSUME TypeInv, TapsAreMounted, [Next]_vars
  PROVE  TapsAreMounted'
<1> SUFFICES ASSUME PatientUser, NEW k \in DOMAIN taps'
             PROVE  page'[taps'[k].page].life = "mounted"
  BY DEF TapsAreMounted, Mounted
<1>0. TypeOK /\ \A j \in DOMAIN taps : taps[j].page \in Page /\ Mounted(taps[j].page)
  BY TapElements DEF TypeInv, TapsAreMounted
<1>1. \A q \in Page : Mounted(q) => page'[q].life = "mounted"
  BY LifeStep DEF Mounted
<1>2. CASE taps' = taps
  BY <1>0, <1>1, <1>2
<1>3. CASE taps # <<>> /\ taps' = Tail(taps)
  BY <1>0, <1>1, <1>3, TapElements
<1>4. ASSUME NEW p \in Page, NEW b \in Button, Tap(p, b)
      PROVE  page'[taps'[k].page].life = "mounted"
  <2>1. taps = <<>> /\ taps' = <<[page |-> p, button |-> b]>> /\ Mounted(p)
    BY <1>4 DEF Tap, Settled
  <2>2. taps'[k].page = p
    BY <2>1
  <2> QED
    BY <1>1, <2>1, <2>2
<1>5. CASE AppKill
  BY <1>5 DEF AppKill
<1>6. CASE FireEnter \/ FireOut \/ FireOutLost \/ FireDropped
  BY <1>0, <1>3, <1>6, FirePage
<1>7. CASE \/ \E p \in Page : \/ Open(p) \/ Close(p) \/ Build(p) \/ DialogClose(p)
                              \/ \E on \in BOOLEAN : Connectivity(p, on)
           \/ DbWrite \/ DbQuery \/ Deliver \/ Tick \/ UNCHANGED vars
  <2>1. taps' = taps
    BY <1>7 DEF Open, Close, Build, DialogClose, Connectivity, DbWrite, DbQuery, Deliver, Tick, vars
  <2> QED
    BY <1>2, <2>1
<1> QED
  BY <1>4, <1>5, <1>6, <1>7 DEF Next

(* Buttons are enabled only by a build that is online. *)
LEMMA ButtonsStep ==
  ASSUME TypeInv, ButtonsAreOnline, [Next]_vars
  PROVE  ButtonsAreOnline'
<1> SUFFICES ASSUME NEW q \in Page, page'[q].life = "mounted", ~page'[q].dirty, page'[q].shown # {}
             PROVE  page'[q].online
  BY DEF ButtonsAreOnline, Mounted
<1>0. TypeOK /\ clock \in Nat /\ page \in [Page -> PageState] /\ page[q] \in PageState
  BY DEF TypeInv, TypeOK
<1>1. CASE page'[q] = page[q]
  BY <1>1 DEF ButtonsAreOnline, Mounted
<1>2. ASSUME NEW s \in PageState, page'[q] = Built(s) PROVE page'[q].online
  BY <1>2, PageSigns
<1>3. ASSUME NEW p \in Page, Open(p) PROVE page'[q].online
  <2>1. Fresh \in PageState
    BY <1>0, PageStateTypes
  <2>2. page'[p] = Built(Fresh) /\ (q # p => page'[q] = page[q])
    BY <1>0, <1>3, Slots DEF Open
  <2> QED
    BY <1>1, <1>2, <2>1, <2>2
<1>4. ASSUME NEW p \in Page, Close(p) PROVE page'[q].online
  <2>1. page'[p] = Gone(page[p]) /\ (q # p => page'[q] = page[q])
    BY <1>0, <1>4, Slots DEF Close
  <2>2. Gone(page[p]).life = "disposed"
    BY <1>0, PageFields
  <2> QED
    BY <1>1, <2>1, <2>2
<1>5. ASSUME NEW p \in Page, Build(p) PROVE page'[q].online
  <2>1. page'[p] = Built(page[p]) /\ (q # p => page'[q] = page[q]) /\ page[p] \in PageState
    BY <1>0, <1>5, Slots DEF Build
  <2> QED
    BY <1>1, <1>2, <2>1
<1>6. ASSUME NEW p \in Page, DialogClose(p) PROVE page'[q].online
  <2> DEFINE s == [page[p] EXCEPT !.dialogs = @ - 1]
  <2>1. page'[p] = s /\ (q # p => page'[q] = page[q])
    BY <1>0, <1>6, Slots DEF DialogClose
  <2>2. /\ s.life = page[p].life /\ s.dirty = page[p].dirty /\ s.shown = page[p].shown
        /\ s.online = page[p].online
    BY <1>0 DEF PageState
  <2> HIDE DEF s
  <2>3. CASE q = p
    <3>1. /\ page[q].life = "mounted" /\ ~page[q].dirty /\ page[q].shown # {}
          /\ page'[q].online = page[q].online
      BY <2>1, <2>2, <2>3
    <3> QED
      BY <3>1 DEF ButtonsAreOnline, Mounted
  <2> QED
    BY <1>1, <2>1, <2>3
<1>7. ASSUME NEW p \in Page, NEW on \in BOOLEAN, Connectivity(p, on) PROVE page'[q].online
  <2> DEFINE s == [page[p] EXCEPT !.online = on, !.dirty = TRUE]
  <2>1. page'[p] = s /\ (q # p => page'[q] = page[q])
    BY <1>0, <1>7, Slots DEF Connectivity
  <2>2. s.dirty
    BY <1>0, PageSigns
  <2> HIDE DEF s
  <2> QED
    BY <1>1, <2>1, <2>2
<1>8. CASE FireEnter \/ FireOut \/ FireOutLost \/ FireDropped
  BY <1>0, <1>1, <1>8, FirePage DEF Mounted
<1>9. CASE Deliver
  <2>1. ASSUME NEW i \in DOMAIN Head(results).rows,
               page'[q] = Loaded(page[q], Head(results).rows, i)
        PROVE  page'[q].online
    <3>1. Head(results).rows \in Seq(Row)
      BY <1>9, DeliverPage DEF Answers
    <3>2. /\ page'[q].online = page[q].online /\ page'[q].dirty = page[q].dirty
          /\ page'[q].shown = page[q].shown /\ page'[q].life = page[q].life
      BY <1>0, <2>1, <3>1, LoadedSigns
    <3>3. page[q].life = "mounted" /\ ~page[q].dirty /\ page[q].shown # {}
      BY <3>2
    <3>4. page[q].online
      BY <3>3 DEF ButtonsAreOnline, Mounted
    <3> QED
      BY <3>2, <3>4
  <2> QED
    BY <1>1, <1>9, <2>1, DeliverPage
<1>10. CASE AppKill
  <2>1. page'[q] = Gone(Fresh) /\ Fresh \in PageState
    BY <1>0, <1>10, PageStateTypes DEF AppKill
  <2> QED
    BY <2>1, PageFields
<1>11. CASE \/ \E p \in Page : \E b \in Button : Tap(p, b)
            \/ DbWrite \/ DbQuery \/ Tick \/ UNCHANGED vars
  BY <1>1, <1>11 DEF Tap, DbWrite, DbQuery, Tick, vars
<1> QED
  BY <1>3, <1>4, <1>5, <1>6, <1>7, <1>8, <1>9, <1>10, <1>11 DEF Next

-----------------------------------------------------------------------------
(* Requests at the head of the queue, and a read or an answer at its end.  *)
LEMMA RequestKinds ==
  ASSUME TypeOK
  PROVE  /\ dbq # <<>> => Head(dbq) \in Request
         /\ \A r \in Request : /\ r.op # "query" => r \in Writing
                               /\ r.op = "query" => r \notin Writing /\ r \in ReadsOf(r.page)
         /\ \A p : ReadsOf(p) \cap Writing = {}
         /\ \A p \in Page : /\ [op |-> "query", page |-> p] \in Request
                            /\ [op |-> "query", page |-> p] \in ReadsOf(p)
                            /\ [op |-> "query", page |-> p] \notin Writing
<1>1. dbq # <<>> => Head(dbq) \in Request
  BY DEF TypeOK
<1>2. \A r \in Request : /\ r.op # "query" => r \in Writing
                         /\ r.op = "query" => r \notin Writing /\ r \in ReadsOf(r.page)
  BY DEF Writing, ReadsOf
<1>3. \A p : ReadsOf(p) \cap Writing = {}
  BY DEF Writing, ReadsOf
<1>4. \A p \in Page : [op |-> "query", page |-> p] \in Request
  BY DEF Request
<1>5. \A p \in Page : /\ [op |-> "query", page |-> p].op = "query"
                      /\ [op |-> "query", page |-> p].page = p
  OBVIOUS
<1>6. ASSUME NEW p \in Page
      PROVE  /\ [op |-> "query", page |-> p] \in ReadsOf(p)
             /\ [op |-> "query", page |-> p] \notin Writing
  BY <1>4, <1>5, <1>6 DEF Writing, ReadsOf
<1> QED
  BY <1>1, <1>2, <1>3, <1>4, <1>6

(* A page that has just loaded the last row of its day knows the table. *)
LEMMA LoadedKnows ==
  ASSUME NEW s \in PageState, NEW t \in Seq(Row), NEW i \in DOMAIN t,
         IsLastOf(t, s.ymdWork, i)
  PROVE  Knows(Loaded(s, t, i), t)
<1> DEFINE l == Loaded(s, t, i)
<1>1. l.ymdWork = s.ymdWork /\ l = Loaded(l, t, i)
  BY LoadedSigns
<1> HIDE DEF l
<1>2. ASSUME NEW j \in DOMAIN t, IsLastOf(t, l.ymdWork, j) PROVE l = Loaded(l, t, j)
  <2>1. j = i
    BY <1>1, <1>2, LastRow
  <2> QED
    BY <1>1, <2>1
<1> QED
  BY <1>2 DEF Knows, l

(* A frame that reads the table. *)
LEMMA ReadKnows ==
  ASSUME TypeOK, NEW p \in Page, NEW s,
         dbq' = Append(dbq, [op |-> "query", page |-> p])
  PROVE  WillKnow(p, s, dbq', results', table')
<1> DEFINE r == [op |-> "query", page |-> p]
<1>1. r \in Request /\ r \in ReadsOf(p) /\ dbq \in Seq(Request)
  BY RequestKinds DEF TypeOK
<1> HIDE DEF r
<1>2. LastIn(Append(dbq, r), Writing, ReadsOf(p))
  BY <1>1, AppendLast
<1> QED
  BY <1>2 DEF WillKnow, r

(* A write is served: what was to come is still to come. *)
LEMMA WriteKnows ==
  ASSUME TypeOK, DbWrite, NEW p \in Page, WillKnow(p, page[p], dbq, results, table)
  PROVE  WillKnow(p, page[p], dbq', results', table')
<1>1. dbq # <<>> /\ dbq' = Tail(dbq) /\ dbq \in Seq(Request) /\ Head(dbq).op # "query"
  BY DEF DbWrite, TypeOK
<1>2. Head(dbq) \in Writing /\ Head(dbq) \notin ReadsOf(p)
  BY <1>1, RequestKinds
<1>3. CASE page[p].dirty
  BY <1>3 DEF WillKnow
<1>4. CASE LastIn(dbq, Writing, ReadsOf(p))
  <2>1. LastIn(Tail(dbq), Writing, ReadsOf(p))
    BY <1>1, <1>2, <1>4, TailLast
  <2> QED
    BY <1>1, <2>1 DEF WillKnow
<1>5. CASE NoneIn(dbq, Writing)
  BY <1>1, <1>2, <1>5, TailLast
<1> QED
  BY <1>3, <1>4, <1>5 DEF WillKnow

(* A read is served: the answer is the table as it is. *)
LEMMA QueryKnows ==
  ASSUME TypeOK, DbQuery, NEW p \in Page, WillKnow(p, page[p], dbq, results, table)
  PROVE  WillKnow(p, page[p], dbq', results', table')
<1> DEFINE h == Head(dbq)
           a == [page |-> h.page, rows |-> table]
           A == AnswersTo(p)
           C == Current(p, table)
<1>1. /\ dbq # <<>> /\ dbq' = Tail(dbq) /\ dbq \in Seq(Request) /\ h.op = "query"
      /\ results' = Append(results, a) /\ results \in Seq(Answers) /\ table' = table
      /\ table \in Seq(Row)
  BY DEF DbQuery, TypeOK, Answers
<1>2. h \in Request /\ h \notin Writing /\ h.page \in Page /\ (h \in ReadsOf(p) => h.page = p)
  <2>1. h \in Request
    BY <1>1, RequestKinds
  <2> HIDE DEF h
  <2> QED
    BY <1>1, <2>1 DEF Request, Writing, ReadsOf
<1>3. a \in Answers /\ a.page = h.page /\ a.rows = table
  <2> HIDE DEF h
  <2> QED
    BY <1>1, <1>2 DEF Answers
<1> HIDE DEF h, a
<1>4. (h.page = p => a \in C) /\ (h.page # p => a \notin A)
  BY <1>3 DEF AnswersTo, Current
<1> HIDE DEF A, C
<1>5. /\ h.page = p => LastIn(results', A, C)
      /\ h.page # p /\ LastIn(results, A, C) => LastIn(results', A, C)
      /\ h.page # p /\ NoneIn(results, A) => NoneIn(results', A)
  BY <1>1, <1>3, <1>4, AppendLast
<1>6. CASE page[p].dirty
  BY <1>6 DEF WillKnow
<1>7. CASE LastIn(dbq, Writing, ReadsOf(p))
  <2>1. \/ LastIn(dbq', Writing, ReadsOf(p))
        \/ h \in ReadsOf(p) /\ NoneIn(dbq', Writing)
    BY <1>1, <1>7, TailLast DEF h
  <2>2. LastIn(dbq', Writing, ReadsOf(p)) \/ (NoneIn(dbq', Writing) /\ LastIn(results', A, C))
    BY <1>2, <1>5, <2>1
  <2> QED
    BY <1>1, <2>2 DEF WillKnow, A, C
<1>8. CASE NoneIn(dbq, Writing) /\ LastIn(results, A, C)
  <2>1. NoneIn(dbq', Writing) /\ LastIn(results', A, C)
    BY <1>1, <1>5, <1>8, TailLast
  <2> QED
    BY <1>1, <2>1 DEF WillKnow, A, C
<1>9. CASE NoneIn(dbq, Writing) /\ NoneIn(results, A) /\ Knows(page[p], table)
  <2>1. NoneIn(dbq', Writing) /\ (LastIn(results', A, C) \/ NoneIn(results', A))
    BY <1>1, <1>5, <1>9, TailLast
  <2> QED
    BY <1>1, <1>9, <2>1 DEF WillKnow, A, C
<1> QED
  BY <1>6, <1>7, <1>8, <1>9 DEF WillKnow, A, C

(* An answer is delivered: the last one a page waits for is the table as   *)
(* it is.                                                                  *)
LEMMA DeliverKnows ==
  ASSUME TypeInv, Deliver, NEW p \in Page, WillKnow(p, page[p], dbq, results, table)
  PROVE  WillKnow(p, page'[p], dbq', results', table')
<1> DEFINE h == Head(results)
           A == AnswersTo(p)
           C == Current(p, table)
<1>1. /\ results # <<>> /\ results' = Tail(results) /\ results \in Seq(Answers)
      /\ h \in Answers /\ table' = table /\ dbq' = dbq
      /\ (p # h.page => page'[p] = page[p])
      /\ p = h.page =>
           \/ \E i \in DOMAIN h.rows : /\ IsLastOf(h.rows, page[p].ymdWork, i)
                                       /\ page'[p] = Loaded(page[p], h.rows, i)
           \/ /\ \A i \in DOMAIN h.rows : h.rows[i].ymdWork # page[p].ymdWork
              /\ page'[p] = page[p]
  BY DeliverPage
<1> HIDE DEF h
<1>2. page[p] \in PageState /\ h.rows \in Seq(Row) /\ table \in Seq(Row)
  BY <1>1 DEF TypeInv, TypeOK, Answers
<1>3. page'[p].dirty = page[p].dirty
  BY <1>1, <1>2, LoadedSigns
<1>4. CASE page[p].dirty
  BY <1>3, <1>4 DEF WillKnow
<1>5. CASE LastIn(dbq, Writing, ReadsOf(p))
  BY <1>1, <1>5 DEF WillKnow
<1>6. (h \in C => h.page = p /\ h.rows = table) /\ (h.page = p => h \in A)
  BY <1>1 DEF AnswersTo, Current
<1> HIDE DEF A, C
<1>7. CASE NoneIn(dbq, Writing) /\ LastIn(results, A, C)
  <2>1. LastIn(results', A, C) \/ (h \in C /\ NoneIn(results', A))
    BY <1>1, <1>7, TailLast DEF h
  <2>2. CASE LastIn(results', A, C)
    BY <1>1, <1>7, <2>2 DEF WillKnow, A, C
  <2>3. CASE h \in C /\ NoneIn(results', A)
    <3>1. Knows(page'[p], table)
      <4>1. ASSUME NEW i \in DOMAIN table, IsLastOf(table, page[p].ymdWork, i),
                   page'[p] = Loaded(page[p], table, i)
            PROVE  Knows(page'[p], table)
        BY <1>2, <4>1, LoadedKnows
      <4>2. ASSUME \A i \in DOMAIN table : table[i].ymdWork # page[p].ymdWork,
                   page'[p] = page[p]
            PROVE  Knows(page'[p], table)
        BY <4>2 DEF Knows, IsLastOf
      <4> QED
        BY <1>1, <1>6, <2>3, <4>1, <4>2
    <3> QED
      BY <1>1, <1>7, <2>3, <3>1 DEF WillKnow, A, C
  <2> QED
    BY <2>1, <2>2, <2>3
<1>8. CASE NoneIn(dbq, Writing) /\ NoneIn(results, A) /\ Knows(page[p], table)
  <2>1. h \notin A /\ NoneIn(results', A)
    BY <1>1, <1>8, TailLast DEF h
  <2>2. page'[p] = page[p]
    BY <1>1, <1>6, <2>1
  <2> QED
    BY <1>1, <1>8, <2>1, <2>2 DEF WillKnow, A, C
<1> QED
  BY <1>4, <1>5, <1>7, <1>8 DEF WillKnow, A, C

(* A dialog goes away: the fields are those of the row they were of. *)
LEMMA DialogKnows ==
  ASSUME TypeOK, NEW p \in Page, DialogClose(p), WillKnow(p, page[p], dbq, results, table)
  PROVE  WillKnow(p, page'[p], dbq', results', table')
<1> DEFINE n == page[p].dialogs - 1
           s == [page[p] EXCEPT !.dialogs = n]
<1>1. page'[p] = s /\ UNCHANGED <<dbq, results, table>> /\ page[p] \in PageState
      /\ table \in Seq(Row)
  BY Slots DEF DialogClose, TypeOK
<1> HIDE DEF n
<1>2. s.dirty = page[p].dirty /\ s.ymdWork = page[p].ymdWork
  BY <1>1 DEF PageState
<1>3. ASSUME Knows(page[p], table) PROVE Knows(s, table)
  <2>1. ASSUME NEW i \in DOMAIN table, IsLastOf(table, s.ymdWork, i)
        PROVE  s = Loaded(s, table, i)
    <3>1. page[p] = Loaded(page[p], table, i)
      BY <1>2, <1>3, <2>1 DEF Knows
    <3>2. \A u \in PageState : u = Loaded(u, table, i) =>
            [u EXCEPT !.dialogs = n] = Loaded([u EXCEPT !.dialogs = n], table, i)
      BY DEF Loaded, PageState
    <3> QED
      BY <1>1, <3>1, <3>2
  <2> QED
    BY <2>1 DEF Knows
<1> HIDE DEF s
<1> QED
  BY <1>1, <1>2, <1>3 DEF WillKnow

(* A delay expires: the page has a frame due, or there is nobody to fool.  *)
LEMMA FireKnows ==
  ASSUME TypeInv, TapsAreMounted, OneMounted, PatientUser \/ ~ReleaseBuild,
         FireEnter \/ FireOut \/ FireOutLost \/ FireDropped,
         NEW q \in Page, page'[q].life = "mounted",
         WillKnow(q, page[q], dbq, results, table)
  PROVE  WillKnow(q, page'[q], dbq', results', table')
<1> DEFINE p == Head(taps).page
<1>0. TypeOK
  BY DEF TypeInv
<1>1. taps # <<>> /\ p \in Page /\ page'[q].life = page[q].life
      /\ (q # p => page'[q] = page[q]) /\ (Mounted(p) => page'[p].dirty)
  BY <1>0, FirePage
<1>2. CASE Mounted(p)
  <2>1. q = p
    BY <1>1, <1>2 DEF OneMounted, Mounted
  <2> QED
    BY <1>1, <1>2, <2>1 DEF WillKnow
<1>3. CASE ~Mounted(p)
  <2>1. ~PatientUser
    BY <1>0, <1>1, <1>3, TapElements DEF TapsAreMounted
  <2>2. FireDropped
    BY <1>3, <2>1 DEF FireEnter, FireOut, FireOutLost
  <2> QED
    BY <2>2 DEF FireDropped
<1> QED
  BY <1>2, <1>3

(* A mounted page that is online will know the table. *)
LEMMA KnowStep ==
  ASSUME TypeInv, TapsAreMounted, OneMounted, PagesWillKnow, [Next]_vars
  PROVE  PagesWillKnow'
<1> SUFFICES ASSUME PatientUser \/ ~ReleaseBuild, NEW q \in Page,
                    page'[q].life = "mounted", page'[q].online
             PROVE  WillKnow(q, page'[q], dbq', results', table')
  BY DEF PagesWillKnow, Mounted
<1>0. TypeOK /\ clock \in Nat /\ page \in [Page -> PageState] /\ page[q] \in PageState
  BY DEF TypeInv, TypeOK
<1>w. ASSUME page[q].life = "mounted", page[q].online
      PROVE  WillKnow(q, page[q], dbq, results, table)
  BY <1>w DEF PagesWillKnow, Mounted
<1>u. ASSUME page'[q] = page[q], UNCHANGED <<dbq, results, table>>
      PROVE  WillKnow(q, page'[q], dbq', results', table')
  BY <1>u, <1>w
<1>1. ASSUME NEW p \in Page, Open(p) PROVE WillKnow(q, page'[q], dbq', results', table')
  <2>1. q # p => page'[q] = page[q]
    BY <1>0, <1>1, Slots DEF Open
  <2>2. q = p
    BY <1>1, <2>1 DEF Open, Mounted
  <2> QED
    BY <1>0, <1>1, <2>2, ReadKnows DEF Open
<1>2. ASSUME NEW p \in Page, Close(p) PROVE WillKnow(q, page'[q], dbq', results', table')
  <2>1. page'[p] = Gone(page[p]) /\ (q # p => page'[q] = page[q])
    BY <1>0, <1>2, Slots DEF Close
  <2>2. q # p
    BY <1>0, <2>1, PageFields
  <2> QED
    BY <1>2, <1>u, <2>1, <2>2 DEF Close
<1>3. ASSUME NEW p \in Page, Build(p) PROVE WillKnow(q, page'[q], dbq', results', table')
  <2>1. page'[p] = Built(page[p]) /\ (q # p => page'[q] = page[q]) /\ Mounted(p)
    BY <1>0, <1>3, Slots DEF Build
  <2>2. q = p
    BY <2>1 DEF OneMounted, Mounted
  <2>3. page[p].online
    BY <1>0, <2>1, <2>2, PageSigns
  <2> QED
    BY <1>0, <1>3, <2>2, <2>3, ReadKnows DEF Build
<1>4. ASSUME NEW p \in Page, DialogClose(p) PROVE WillKnow(q, page'[q], dbq', results', table')
  <2> DEFINE s == [page[p] EXCEPT !.dialogs = @ - 1]
  <2>1. page'[p] = s /\ (q # p => page'[q] = page[q]) /\ UNCHANGED <<dbq, results, table>>
    BY <1>0, <1>4, Slots DEF DialogClose
  <2>2. s.life = page[p].life /\ s.online = page[p].online
    BY <1>0 DEF PageState
  <2> HIDE DEF s
  <2>3. CASE q = p
    BY <1>0, <1>4, <1>w, <2>1, <2>2, <2>3, DialogKnows
  <2> QED
    BY <1>u, <2>1, <2>3
<1>5. ASSUME NEW p \in Page, NEW on \in BOOLEAN, Connectivity(p, on)
      PROVE  WillKnow(q, page'[q], dbq', results', table')
  <2> DEFINE s == [page[p] EXCEPT !.online = on, !.dirty = TRUE]
  <2>1. page'[p] = s /\ (q # p => page'[q] = page[q]) /\ UNCHANGED <<dbq, results, table>>
    BY <1>0, <1>5, Slots DEF Connectivity
  <2>2. s.dirty
    BY <1>0, PageSigns
  <2> HIDE DEF s
  <2>3. CASE q = p
    BY <2>1, <2>2, <2>3 DEF WillKnow
  <2> QED
    BY <1>u, <2>1, <2>3
<1>6. CASE \/ \E p \in Page : \E b \in Button : Tap(p, b)
           \/ Tick \/ UNCHANGED vars
  <2>1. UNCHANGED <<page, dbq, results, table>>
    BY <1>6 DEF Tap, Tick, vars
  <2> QED
    BY <1>u, <2>1
<1>7. CASE FireEnter \/ FireOut \/ FireOutLost \/ FireDropped
  <2>1. CASE page[q].online
    <3>1. page[q].life = "mounted"
      BY <1>0, <1>7, FirePage
    <3> QED
      BY <1>7, <1>w, <2>1, <3>1, FireKnows
  <2>2. CASE ~page[q].online
    <3>1. CASE q = Head(taps).page
      BY <1>0, <1>7, <3>1, FirePage DEF WillKnow, Mounted
    <3>2. CASE q # Head(taps).page
      BY <1>0, <1>7, <2>2, <3>2, FirePage
    <3> QED
      BY <3>1, <3>2
  <2> QED
    BY <2>1, <2>2
<1>8. CASE DbWrite
  <2>1. page' = page
    BY <1>8 DEF DbWrite
  <2> QED
    BY <1>0, <1>8, <1>w, <2>1, WriteKnows
<1>9. CASE DbQuery
  <2>1. page' = page
    BY <1>9 DEF DbQuery
  <2> QED
    BY <1>0, <1>9, <1>w, <2>1, QueryKnows
<1>10. CASE Deliver
  <2>1. page'[q].life = page[q].life /\ page'[q].online = page[q].online
    <3>1. CASE page'[q] = page[q]
      BY <3>1
    <3>2. ASSUME NEW i \in DOMAIN Head(results).rows,
                 page'[q] = Loaded(page[q], Head(results).rows, i)
          PROVE  page'[q].life = page[q].life /\ page'[q].online = page[q].online
      <4>1. Head(results).rows \in Seq(Row)
        BY <1>10, DeliverPage DEF Answers
      <4>2. /\ Loaded(page[q], Head(results).rows, i).life = page[q].life
            /\ Loaded(page[q], Head(results).rows, i).online = page[q].online
        BY <1>0, <4>1, LoadedSigns
      <4> QED
        BY <3>2, <4>2
    <3> QED
      BY <1>10, <3>1, <3>2, DeliverPage
  <2> QED
    BY <1>10, <1>w, <2>1, DeliverKnows
<1>11. CASE AppKill
  <2>1. page'[q] = Gone(Fresh) /\ Fresh \in PageState
    BY <1>0, <1>11, PageStateTypes DEF AppKill
  <2> QED
    BY <2>1, PageFields
<1> QED
  BY <1>1, <1>2, <1>3, <1>4, <1>5, <1>6, <1>7, <1>8, <1>9, <1>10, <1>11 DEF Next

-----------------------------------------------------------------------------
(* At the start no page is mounted. *)
LEMMA WatchInvInit == Init => WatchInv
<1> SUFFICES ASSUME Init PROVE WatchInv
  OBVIOUS
<1>1. clock \in Nat
  BY DEF Init
<1>2. \A p \in Page : ~Mounted(p)
  BY <1>1, PageStateTypes, PageFields DEF Init, Mounted
<1> QED
  BY <1>2 DEF Init, WatchInv, PagesWillKnow, TapsAreMounted, ButtonsAreOnline

LEMMA WatchInvStep ==
  ASSUME IInv, WatchInv, [Next]_vars
  PROVE  WatchInv'
BY TapsStep, ButtonsStep, KnowStep DEF IInv, DayInv, WatchInv

(* With nothing under way, to know the table soon is to know it. *)
LEMMA SettledKnows ==
  ASSUME WatchInv, Settled, PatientUser \/ ~ReleaseBuild,
         NEW p \in Page, Mounted(p), page[p].online
  PROVE  Knows(page[p], table)
<1>1. WillKnow(p, page[p], dbq, results, table)
  BY DEF WatchInv, PagesWillKnow
<1>2. ~page[p].dirty /\ dbq = <<>> /\ results = <<>>
  BY DEF Settled
<1>3. ~LastIn(dbq, Writing, ReadsOf(p)) /\ ~LastIn(results, AnswersTo(p), Current(p, table))
  BY <1>2 DEF LastIn
<1> QED
  BY <1>1, <1>2, <1>3 DEF WillKnow

(* At all times a mounted page that is online has a frame due, or a read   *)
(* behind every write, or the table as its last answer, or knows it; no    *)
(* tap of a user who waits outlives its page; enabled buttons are those of *)
(* a page that is online.                                                  *)
THEOREM PagesCatchUp == Spec => [](IInv /\ WatchInv)
<1>1. Init => WatchInv
  BY WatchInvInit
<1>2. IInv /\ WatchInv /\ [Next]_vars => WatchInv'
  BY WatchInvStep
<1> QED
  BY <1>1, <1>2, InductiveInvariant, PTL DEF Spec

(* CaughtUp for every number of pages, rows and requests: when everything  *)
(* under way has ended, the fields of a page that is online are those of   *)
(* the last row of its day, for a user who waits in every build and for    *)
(* every user of a debug build.                                            *)
THEOREM SettledPagesAreCaughtUp == Spec => []CaughtUp
<1>1. WatchInv => CaughtUp
  BY SettledKnows DEF CaughtUp, Knows
<1> QED
  BY <1>1, PagesCatchUp, PTL

-----------------------------------------------------------------------------
(* A write that does no harm: no day gets a second row, and a row that     *)
(* keeps its day keeps its clock-in time.                                  *)
LEMMA HarmlessWrite ==
  ASSUME TypeOK, KnownId, DbWrite, Distinct(table), Harmless(Head(dbq), table)
  PROVE  /\ Distinct(table')
         /\ \A i \in DOMAIN table : table'[i].ymdWork = table[i].ymdWork =>
              table'[i].nowWorkenter = table[i].nowWorkenter
<1> DEFINE w == Head(dbq)
<1>1. dbq # <<>> /\ w \in Request /\ w = dbq[1] /\ 1 \in DOMAIN dbq
  BY HeadElement DEF DbWrite, TypeOK
<1>2. \/ w.op = "insert" /\ table' = SqlInsert(table, w.id, w.row)
      \/ w.op = "update" /\ table' = SqlUpdate(table, w.id, w.row)
  BY DEF DbWrite
<1> HIDE DEF w
<1>3. w.row \in Row /\ (w.id = NoId \/ w.id \in DOMAIN table) /\ table \in Seq(Row)
  BY <1>1, <1>2 DEF KnownId, Request, TypeOK
<1>4. NoId \notin DOMAIN table
  BY <1>3, ConstantsAssumption
<1>5. \A i \in DOMAIN table : table[i].ymdWork = w.row.ymdWork =>
        i = w.id /\ (w.op = "update" => table[i].nowWorkenter = w.row.nowWorkenter)
  BY DEF Harmless, w
<1>6. CASE table' = table
  BY <1>6
<1>7. CASE w.op = "insert" /\ w.id = NoId /\ table' = Append(table, w.row)
  <2> DEFINE r == w.row
             n == Len(table)
  <2>1. /\ n \in Nat /\ DOMAIN table = 1 .. n /\ DOMAIN table' = 1 .. (n + 1)
        /\ \A i \in 1 .. n : table'[i] = table[i]
        /\ table'[n + 1] = r
    BY <1>3, <1>7, AppendPlaces
  <2>2. \A i \in 1 .. n : table[i].ymdWork # r.ymdWork
    BY <1>4, <1>5, <1>7, <2>1
  <2> HIDE DEF n, r
  <2>3. ASSUME NEW i \in 1 .. (n + 1), NEW j \in 1 .. (n + 1),
               table'[i].ymdWork = table'[j].ymdWork
        PROVE  i = j
    <3>1. (i \in 1 .. n \/ i = n + 1) /\ (j \in 1 .. n \/ j = n + 1)
      BY <2>1
    <3>2. CASE i \in 1 .. n /\ j \in 1 .. n
      BY <2>1, <2>3, <3>2 DEF Distinct
    <3> QED
      BY <2>1, <2>2, <2>3, <3>1, <3>2
  <2>4. Distinct(table')
    BY <2>1, <2>3 DEF Distinct
  <2> QED
    BY <2>1, <2>4
<1>8. CASE w.op = "update" /\ w.id \in DOMAIN table /\ table' = [table EXCEPT ![w.id] = w.row]
  <2>1. /\ DOMAIN table' = DOMAIN table /\ table'[w.id] = w.row
        /\ \A i \in DOMAIN table : i # w.id => table'[i] = table[i]
    BY <1>8
  <2>2. Distinct(table')
    BY <1>5, <2>1 DEF Distinct
  <2>3. ASSUME NEW i \in DOMAIN table, table'[i].ymdWork = table[i].ymdWork
        PROVE  table'[i].nowWorkenter = table[i].nowWorkenter
    BY <1>5, <1>8, <2>1, <2>3
  <2> QED
    BY <2>2, <2>3
<1>9. CASE w.op = "insert"
  <2>1. table' = IF w.id = NoId THEN Append(table, w.row) ELSE table
    BY <1>2, <1>3, <1>9, SqlTypes
  <2> QED
    BY <1>6, <1>7, <1>9, <2>1
<1>10. CASE w.op = "update"
  BY <1>2, <1>6, <1>8, <1>10 DEF SqlUpdate
<1> QED
  BY <1>2, <1>9, <1>10

(* A page that knows a table without two rows for a day owns its day. *)
LEMMA KnowsOwns ==
  ASSUME NEW s \in PageState, NEW t \in Seq(Row), Distinct(t), Knows(s, t)
  PROVE  OwnsDay(s, t)
<1> SUFFICES ASSUME NEW i \in DOMAIN t, t[i].ymdWork = s.ymdWork
             PROVE  i = s.id /\ t[i].nowWorkenter = s.nowWorkenter
  BY DEF OwnsDay
<1>1. PICK j \in DOMAIN t : IsLastOf(t, s.ymdWork, j)
  BY LastRow
<1>2. j = i
  BY <1>1 DEF IsLastOf, Distinct
<1>3. s = Loaded(s, t, i)
  BY <1>1, <1>2 DEF Knows
<1>4. Loaded(s, t, i).id = i /\ Loaded(s, t, i).nowWorkenter = t[i].nowWorkenter
  BY LoadedFields
<1> QED
  BY <1>3, <1>4

(* It still does after another look at the same table. *)
LEMMA LoadedOwns ==
  ASSUME NEW s \in PageState, NEW t \in Seq(Row), NEW i \in DOMAIN t,
         IsLastOf(t, s.ymdWork, i), OwnsDay(s, t)
  PROVE  OwnsDay(Loaded(s, t, i), t)
<1> DEFINE l == Loaded(s, t, i)
<1>1. l.id = i /\ l.nowWorkenter = t[i].nowWorkenter /\ l.ymdWork = s.ymdWork
  BY LoadedFields
<1>2. i = s.id
  BY DEF IsLastOf, OwnsDay
<1> HIDE DEF l
<1>3. OwnsDay(l, t)
  BY <1>1, <1>2 DEF OwnsDay
<1> QED
  BY <1>3 DEF l

(* A tap of a user who waits: the page owns its day. *)
LEMMA TapOwns ==
  ASSUME TypeOK, WatchInv, PatientUser, Distinct(table),
         NEW p \in Page, NEW b \in Button, Tap(p, b)
  PROVE  TapOwnsDay'
<1>1. /\ Mounted(p) /\ Settled /\ page[p].shown # {}
      /\ UNCHANGED <<dbq, results, page, table>>
      /\ taps' = Append(taps, [page |-> p, button |-> b])
  BY DEF Tap
<1>2. taps = <<>> /\ dbq = <<>> /\ results = <<>> /\ ~page[p].dirty
  BY <1>1 DEF Settled
<1>3. page[p].online
  BY <1>1, <1>2 DEF WatchInv, ButtonsAreOnline
<1>4. OwnsDay(page[p], table)
  BY <1>1, <1>3, SettledKnows, KnowsOwns DEF TypeOK
<1>5. taps' = <<[page |-> p, button |-> b]>>
  BY <1>1, <1>2
<1>6. \A k \in DOMAIN taps' : k = 1 /\ taps'[k].page = p
  BY <1>5
<1>7. NoneIn(dbq', Writing) /\ \A j \in DOMAIN results' : results'[j].rows = table'
  BY <1>1, <1>2 DEF NoneIn
<1>8. \A k \in DOMAIN taps' : OwnsDay(page'[taps'[k].page], table')
  BY <1>1, <1>4, <1>6
<1>9. \A k, l \in DOMAIN taps' : k = l
  BY <1>6
<1> QED
  BY <1>7, <1>8, <1>9 DEF TapOwnsDay

(* With taps, writes, answers and the table as they are, all that matters  *)
(* is what the page that was tapped owns.                                  *)
LEMMA TapOwnsFrame ==
  ASSUME TapOwnsDay, UNCHANGED <<taps, table, results>>,
         taps # <<>> /\ NoneIn(dbq, Writing) => NoneIn(dbq', Writing),
         \A k \in DOMAIN taps : OwnsDay(page[taps[k].page], table) =>
                                  OwnsDay(page'[taps[k].page], table)
  PROVE  TapOwnsDay'
<1>1. \A k \in DOMAIN taps : taps # <<>>
  OBVIOUS
<1>2. taps' = taps /\ table' = table /\ results' = results
  OBVIOUS
<1>3. \A k \in DOMAIN taps : NoneIn(dbq', Writing)
  BY <1>1 DEF TapOwnsDay
<1>4. \A k \in DOMAIN taps : OwnsDay(page'[taps[k].page], table)
  BY DEF TapOwnsDay
<1>5. \A k \in DOMAIN taps : \A j \in DOMAIN results : results[j].rows = table
  BY DEF TapOwnsDay
<1>6. \A k, l \in DOMAIN taps : k = l
  BY DEF TapOwnsDay
<1> QED
  BY <1>2, <1>3, <1>4, <1>5, <1>6 DEF TapOwnsDay

(* Without a tap under way there is nothing to show. *)
LEMMA NoTapOwns ==
  ASSUME taps' = <<>>
  PROVE  TapOwnsDay'
<1>1. DOMAIN taps' = {}
  OBVIOUS
<1> QED
  BY <1>1 DEF TapOwnsDay

(* Fields a day is owned by. *)
LEMMA OwnsFields ==
  ASSUME NEW s, NEW u, NEW t, u.id = s.id, u.ymdWork = s.ymdWork,
         u.nowWorkenter = s.nowWorkenter, OwnsDay(s, t)
  PROVE  OwnsDay(u, t)
BY DEF OwnsDay

(* A frame of the tapped page moves it to today.  No row is of a later day *)
(* than the page was, so the rows of today are those it owned.             *)
LEMMA BuiltOwns ==
  ASSUME IInv, NEW p \in Page, Mounted(p), OwnsDay(page[p], table)
  PROVE  OwnsDay(Built(page[p]), table)
<1> DEFINE b == Built(page[p])
<1>1. page[p] \in PageState /\ clock \in Nat
  BY DEF IInv, TypeInv, TypeOK
<1>2. b.id = page[p].id /\ b.ymdWork = Today /\ b.nowWorkenter = page[p].nowWorkenter
  BY <1>1, PageFields
<1>3. page[p].ymdWork <= Today /\ page[p].ymdWork \in Nat /\ Today \in Nat
  BY <1>1, CalendarTypes DEF IInv, StampInv, PagesStamped, StampedPage, PageState
<1>4. ASSUME NEW i \in DOMAIN table, table[i].ymdWork = Today
      PROVE  table[i].ymdWork = page[p].ymdWork
  <2>1. table[i].ymdWork <= page[p].ymdWork
    BY DEF IInv, DayInv, MountedIsLatest
  <2> QED
    BY <1>3, <1>4, <2>1
<1> HIDE DEF b
<1>5. OwnsDay(b, table)
  BY <1>2, <1>4 DEF OwnsDay
<1> QED
  BY <1>5 DEF b

(* A read under way is no write. *)
LEMMA ReadIsNoWrite ==
  ASSUME TypeOK, NEW p \in Page, dbq' = Append(dbq, [op |-> "query", page |-> p])
  PROVE  NoneIn(dbq, Writing) => NoneIn(dbq', Writing)
<1> DEFINE r == [op |-> "query", page |-> p]
<1>1. r \in Request /\ r \notin Writing /\ dbq \in Seq(Request) /\ dbq' = Append(dbq, r)
  BY RequestKinds DEF TypeOK
<1> HIDE DEF r
<1> QED
  BY <1>1, AppendLast

(* The one tap under way has its page own its day. *)
LEMMA TapOwnsStep ==
  ASSUME IInv, WatchInv, PatientUser, Distinct(table), TapOwnsDay, [Next]_vars
  PROVE  TapOwnsDay'
<1>0. /\ TypeInv /\ TypeOK /\ clock \in Nat /\ page \in [Page -> PageState]
      /\ \A k \in DOMAIN taps : taps[k].page \in Page /\ Mounted(taps[k].page)
  BY TapElements DEF IInv, TypeInv, TypeOK, WatchInv, TapsAreMounted
<1>1. ASSUME NEW p \in Page, Open(p) PROVE TapOwnsDay'
  <2>1. DOMAIN taps = {} /\ taps' = taps
    BY <1>0, <1>1 DEF Open
  <2> QED
    BY <2>1 DEF TapOwnsDay
<1>2. ASSUME NEW p \in Page, Close(p) PROVE TapOwnsDay'
  BY <1>2, NoTapOwns DEF Close, Settled
<1>3. ASSUME NEW p \in Page, Build(p) PROVE TapOwnsDay'
  <2>1. /\ page'[p] = Built(page[p]) /\ \A q \in Page : q # p => page'[q] = page[q]
        /\ Mounted(p) /\ UNCHANGED <<taps, table, results>>
    BY <1>0, <1>3, Slots DEF Build
  <2>2. \A k \in DOMAIN taps : OwnsDay(page[taps[k].page], table) =>
                                 OwnsDay(page'[taps[k].page], table)
    BY <1>0, <2>1, BuiltOwns
  <2>3. NoneIn(dbq, Writing) => NoneIn(dbq', Writing)
    BY <1>0, <1>3, ReadIsNoWrite DEF Build
  <2> QED
    BY <2>1, <2>2, <2>3, TapOwnsFrame
<1>4. ASSUME NEW p \in Page, NEW s, page' = [page EXCEPT ![p] = s],
             s.id = page[p].id, s.ymdWork = page[p].ymdWork,
             s.nowWorkenter = page[p].nowWorkenter, UNCHANGED <<taps, table, results, dbq>>
      PROVE  TapOwnsDay'
  <2>1. page'[p] = s /\ \A q \in Page : q # p => page'[q] = page[q]
    BY <1>0, <1>4, Slots
  <2>2. \A k \in DOMAIN taps : OwnsDay(page[taps[k].page], table) =>
                                 OwnsDay(page'[taps[k].page], table)
    BY <1>0, <1>4, <2>1, OwnsFields
  <2> QED
    BY <1>4, <2>2, TapOwnsFrame
<1>5. ASSUME NEW p \in Page, DialogClose(p) PROVE TapOwnsDay'
  <2> DEFINE s == [page[p] EXCEPT !.dialogs = @ - 1]
  <2>1. page' = [page EXCEPT ![p] = s] /\ UNCHANGED <<taps, table, results, dbq>>
    BY <1>5 DEF DialogClose
  <2>2. /\ s.id = page[p].id /\ s.ymdWork = page[p].ymdWork
        /\ s.nowWorkenter = page[p].nowWorkenter
    BY <1>0 DEF PageState
  <2> HIDE DEF s
  <2> QED
    BY <1>4, <2>1, <2>2
<1>6. ASSUME NEW p \in Page, NEW on \in BOOLEAN, Connectivity(p, on) PROVE TapOwnsDay'
  <2> DEFINE s == [page[p] EXCEPT !.online = on, !.dirty = TRUE]
  <2>1. page' = [page EXCEPT ![p] = s] /\ UNCHANGED <<taps, table, results, dbq>>
    BY <1>6 DEF Connectivity
  <2>2. /\ s.id = page[p].id /\ s.ymdWork = page[p].ymdWork
        /\ s.nowWorkenter = page[p].nowWorkenter
    BY <1>0 DEF PageState
  <2> HIDE DEF s
  <2> QED
    BY <1>4, <2>1, <2>2
<1>7. ASSUME NEW p \in Page, NEW b \in Button, Tap(p, b) PROVE TapOwnsDay'
  BY <1>0, <1>7, TapOwns
<1>8. CASE FireEnter \/ FireOut \/ FireOutLost \/ FireDropped
  <2>1. taps # <<>> /\ taps' = Tail(taps)
    BY <1>0, <1>8, FirePage
  <2>2. DOMAIN taps' = {}
    <3>1. ASSUME NEW k \in DOMAIN taps' PROVE FALSE
      <4>1. k + 1 \in DOMAIN taps /\ 1 \in DOMAIN taps /\ k \in Nat \ {0}
        <5>1. k + 1 \in DOMAIN taps /\ 1 \in DOMAIN taps
          BY <1>0, <2>1, TapElements
        <5>2. taps' \in Seq([page : Page, button : Button])
          BY <1>0, <2>1 DEF TypeOK
        <5>3. k \in Nat \ {0}
          BY <5>2
        <5> QED
          BY <5>1, <5>3
      <4>2. k + 1 = 1
        BY <4>1 DEF TapOwnsDay
      <4> QED
        BY <4>1, <4>2
    <3> QED
      BY <3>1
  <2> QED
    BY <2>2 DEF TapOwnsDay
<1>9. CASE DbWrite
  <2>1. dbq # <<>> /\ dbq \in Seq(Request) /\ Head(dbq) \in Writing /\ taps' = taps
    BY <1>0, <1>9, RequestKinds DEF DbWrite, TypeOK
  <2>2. ~NoneIn(dbq, Writing)
    BY <2>1, TailLast
  <2>3. DOMAIN taps = {}
    BY <2>2 DEF TapOwnsDay
  <2> QED
    BY <2>1, <2>3 DEF TapOwnsDay
<1>10. CASE DbQuery
  <2> DEFINE a == [page |-> Head(dbq).page, rows |-> table]
  <2>1. /\ dbq # <<>> /\ dbq \in Seq(Request) /\ dbq' = Tail(dbq) /\ Head(dbq) \in Request
        /\ Head(dbq).op = "query" /\ results' = Append(results, a)
        /\ results \in Seq(Answers) /\ table \in Seq(Row) /\ UNCHANGED <<taps, table, page>>
    BY <1>0, <1>10, RequestKinds DEF DbQuery, TypeOK, Answers
  <2>2. a \in Answers /\ a.rows = table
    <3>1. Head(dbq).page \in Page
      BY <2>1 DEF Request
    <3> QED
      BY <2>1, <3>1 DEF Answers
  <2> HIDE DEF a
  <2>3. NoneIn(dbq, Writing) => NoneIn(dbq', Writing)
    BY <2>1, TailLast
  <2>4. (\A j \in DOMAIN results : results[j].rows = table) =>
          \A j \in DOMAIN results' : results'[j].rows = table
    BY <2>1, <2>2, AppendElements
  <2> QED
    BY <2>1, <2>3, <2>4 DEF TapOwnsDay
<1>11. CASE Deliver
  <2> DEFINE h == Head(results)
  <2>1. /\ results # <<>> /\ results' = Tail(results) /\ results \in Seq(Answers)
        /\ UNCHANGED <<table, dbq, taps>>
        /\ \A q \in Page : q # h.page => page'[q] = page[q]
        /\ \A q \in Page : q = h.page =>
             \/ \E i \in DOMAIN h.rows : /\ IsLastOf(h.rows, page[q].ymdWork, i)
                                         /\ page'[q] = Loaded(page[q], h.rows, i)
             \/ page'[q] = page[q]
    BY <1>0, <1>11, DeliverPage
  <2>2. /\ 1 \in DOMAIN results /\ h = results[1]
        /\ \A j \in DOMAIN Tail(results) :
             j + 1 \in DOMAIN results /\ Tail(results)[j] = results[j + 1]
    BY <2>1, HeadElement, TailElements
  <2> HIDE DEF h
  <2>3. ASSUME NEW k \in DOMAIN taps
        PROVE  /\ NoneIn(dbq', Writing)
               /\ \A j \in DOMAIN results' : results'[j].rows = table
               /\ OwnsDay(page'[taps[k].page], table)
    <3> DEFINE q == taps[k].page
    <3>1. /\ NoneIn(dbq, Writing) /\ \A j \in DOMAIN results : results[j].rows = table
          /\ OwnsDay(page[q], table) /\ q \in Page /\ page[q] \in PageState
          /\ table \in Seq(Row)
      BY <1>0 DEF TapOwnsDay, TypeOK
    <3> HIDE DEF q
    <3>2. h.rows = table
      BY <2>2, <3>1
    <3>3. OwnsDay(page'[q], table)
      <4>1. ASSUME NEW i \in DOMAIN table, IsLastOf(table, page[q].ymdWork, i),
                   page'[q] = Loaded(page[q], table, i)
            PROVE  OwnsDay(page'[q], table)
        BY <3>1, <4>1, LoadedOwns
      <4> QED
        BY <2>1, <3>1, <3>2, <4>1
    <3>4. \A j \in DOMAIN results' : results'[j].rows = table
      BY <2>1, <2>2, <3>1
    <3> QED
      BY <2>1, <3>1, <3>3, <3>4 DEF q
  <2> QED
    BY <2>1, <2>3 DEF TapOwnsDay
<1>12. CASE Tick \/ UNCHANGED vars
  BY <1>12 DEF Tick, vars, TapOwnsDay
<1>13. CASE AppKill
  BY <1>13, NoTapOwns DEF AppKill
<1> QED
  BY <1>1, <1>2, <1>3, <1>5, <1>6, <1>7, <1>8, <1>9, <1>10, <1>11, <1>12, <1>13 DEF Next

(* Requests to come after one that is no write, and a write that is alone. *)
LEMMA AddedWrite ==
  ASSUME TypeOK, WriteIsHarmless, UNCHANGED table, NEW r \in Request,
         dbq' = Append(dbq, r),
         r \in Writing => NoneIn(dbq, Writing) /\ Harmless(r, table)
  PROVE  WriteIsHarmless'
<1>1. /\ dbq \in Seq(Request) /\ DOMAIN dbq' = 1 .. (Len(dbq) + 1) /\ Len(dbq) \in Nat
      /\ DOMAIN dbq = 1 .. Len(dbq) /\ \A k \in DOMAIN dbq : dbq'[k] = dbq[k]
      /\ dbq'[Len(dbq) + 1] = r
  BY AppendPlaces DEF TypeOK
<1> DEFINE n == Len(dbq)
<1> HIDE DEF n
<1>2. \A k \in DOMAIN dbq' : k \in DOMAIN dbq \/ k = n + 1
  BY <1>1 DEF n
<1>3. ASSUME NEW k \in DOMAIN dbq', NEW l \in DOMAIN dbq', dbq'[k] \in Writing, dbq'[l] \in Writing
      PROVE  k = l
  <2>1. CASE r \in Writing
    <3>1. \A j \in DOMAIN dbq : dbq[j] \notin Writing
      BY <2>1 DEF NoneIn
    <3>2. k = n + 1 /\ l = n + 1
      BY <1>1, <1>2, <1>3, <3>1
    <3> QED
      BY <3>2
  <2>2. CASE r \notin Writing
    <3>1. k \in DOMAIN dbq /\ l \in DOMAIN dbq /\ dbq[k] \in Writing /\ dbq[l] \in Writing
      BY <1>1, <1>2, <1>3, <2>2 DEF n
    <3> QED
      BY <3>1 DEF WriteIsHarmless
  <2> QED
    BY <2>1, <2>2
<1>4. ASSUME NEW k \in DOMAIN dbq', dbq'[k] \in Writing PROVE Harmless(dbq'[k], table')
  <2>1. CASE k \in DOMAIN dbq
    <3>1. dbq'[k] = dbq[k] /\ table' = table
      BY <1>1, <2>1
    <3> QED
      BY <1>4, <2>1, <3>1 DEF WriteIsHarmless
  <2>2. CASE k = n + 1
    <3>1. dbq'[k] = r /\ table' = table
      BY <1>1, <2>2 DEF n
    <3> QED
      BY <1>4, <3>1
  <2> QED
    BY <1>2, <2>1, <2>2
<1> QED
  BY <1>3, <1>4 DEF WriteIsHarmless

(* The head is served: a write was the only one. *)
LEMMA ServedWrite ==
  ASSUME TypeOK, WriteIsHarmless, dbq # <<>>, dbq' = Tail(dbq),
         UNCHANGED table \/ Head(dbq) \in Writing
  PROVE  WriteIsHarmless'
<1>1. /\ 1 \in DOMAIN dbq /\ Head(dbq) = dbq[1]
      /\ \A k \in DOMAIN dbq' : k + 1 \in DOMAIN dbq /\ dbq'[k] = dbq[k + 1]
  BY HeadElement, TailElements DEF TypeOK
<1>2. \A k \in DOMAIN dbq' : k \in Nat \ {0}
  BY DEF TypeOK
<1>3. ASSUME NEW k \in DOMAIN dbq', NEW l \in DOMAIN dbq', dbq'[k] \in Writing, dbq'[l] \in Writing
      PROVE  k = l
  <2>1. k + 1 = l + 1
    BY <1>1, <1>3 DEF WriteIsHarmless
  <2> QED
    BY <1>2, <2>1
<1>4. ASSUME NEW k \in DOMAIN dbq', dbq'[k] \in Writing PROVE Harmless(dbq'[k], table')
  <2>1. dbq[k + 1] \in Writing /\ k + 1 \in DOMAIN dbq /\ k + 1 # 1
    BY <1>1, <1>2, <1>4
  <2>2. Harmless(dbq[k + 1], table) /\ Head(dbq) \notin Writing
    BY <1>1, <2>1 DEF WriteIsHarmless
  <2> QED
    BY <1>1, <2>2
<1> QED
  BY <1>3, <1>4 DEF WriteIsHarmless

(* A delay expires: the write it makes is the only one, and does no harm. *)
LEMMA FireIsHarmless ==
  ASSUME TypeInv, PatientUser, TapsAreMounted, TapOwnsDay, WriteIsHarmless,
         FireEnter \/ FireOut \/ FireOutLost \/ FireDropped
  PROVE  WriteIsHarmless'
<1> DEFINE p == Head(taps).page
           e == Entered(page[p])
           l == Left(page[p])
           i == [op |-> "insert", id |-> e.id, row |-> RowOf(e)]
           u == [op |-> "update", id |-> l.id, row |-> RowOf(l)]
<1>0. TypeOK /\ clock \in Nat
  BY DEF TypeInv, TypeOK
<1>1. taps # <<>> /\ p \in Page /\ UNCHANGED table
  BY <1>0, FirePage
<1>2. 1 \in DOMAIN taps /\ p = taps[1].page /\ page[p] \in PageState
  BY <1>0, <1>1, TapElements DEF TypeOK
<1>3. Mounted(p) /\ NoneIn(dbq, Writing) /\ OwnsDay(page[p], table)
  BY <1>2 DEF TapsAreMounted, TapOwnsDay
<1> HIDE DEF p
<1>4. e \in PageState /\ l \in PageState
  BY <1>0, <1>2, PageStateTypes
<1>5. /\ e.id = page[p].id /\ e.ymdWork = page[p].ymdWork
      /\ l.id = page[p].id /\ l.ymdWork = page[p].ymdWork
      /\ l.nowWorkenter = page[p].nowWorkenter
  BY <1>2, PageFields
<1> HIDE DEF e, l
<1>6. /\ RowOf(e) \in Row /\ RowOf(l) \in Row /\ e.id \in Id /\ l.id \in Id
  <2>1. RowOf(e) \in Row /\ RowOf(l) \in Row
    BY <1>0, <1>4, PageStateTypes
  <2> QED
    BY <1>4, <2>1 DEF PageState
<1>7. /\ RowOf(e).ymdWork = e.ymdWork /\ RowOf(l).ymdWork = l.ymdWork
      /\ RowOf(l).nowWorkenter = l.nowWorkenter
  BY DEF RowOf
<1>8. i \in Request /\ u \in Request
  BY <1>6 DEF Request
<1>9. Harmless(i, table)
  <2>1. i.id = e.id /\ i.row = RowOf(e) /\ i.op = "insert"
    OBVIOUS
  <2> HIDE DEF i
  <2> QED
    BY <1>3, <1>5, <1>7, <2>1 DEF OwnsDay, Harmless
<1>10. Harmless(u, table)
  <2>1. u.id = l.id /\ u.row = RowOf(l) /\ u.op = "update"
    OBVIOUS
  <2> HIDE DEF u
  <2> QED
    BY <1>3, <1>5, <1>7, <2>1 DEF OwnsDay, Harmless
<1>11. dbq' = Append(dbq, i) \/ dbq' = Append(dbq, u)
  BY <1>3 DEF FireEnter, FireOut, FireOutLost, FireDropped, p, e, l
<1> HIDE DEF i, u
<1> QED
  BY <1>0, <1>1, <1>3, <1>8, <1>9, <1>10, <1>11, AddedWrite

LEMMA WriteIsHarmlessStep ==
  ASSUME TypeInv, PatientUser, TapsAreMounted, TapOwnsDay, WriteIsHarmless, [Next]_vars
  PROVE  WriteIsHarmless'
<1>0. TypeOK
  BY DEF TypeInv
<1>1. ASSUME UNCHANGED <<dbq, table>> PROVE WriteIsHarmless'
  BY <1>1 DEF WriteIsHarmless
<1>2. ASSUME NEW p \in Page, dbq' = Append(dbq, [op |-> "query", page |-> p]), UNCHANGED table
      PROVE  WriteIsHarmless'
  <2> DEFINE r == [op |-> "query", page |-> p]
  <2>1. r \in Request /\ r \notin Writing
    BY <1>0, RequestKinds
  <2> HIDE DEF r
  <2>2. dbq' = Append(dbq, r) /\ UNCHANGED table
    BY <1>2 DEF r
  <2> QED
    BY <1>0, <2>1, <2>2, AddedWrite
<1>3. ASSUME NEW p \in Page, Open(p) \/ Build(p) PROVE WriteIsHarmless'
  BY <1>1, <1>2, <1>3 DEF Open, Build
<1>4. CASE FireEnter \/ FireOut \/ FireOutLost \/ FireDropped
  BY <1>4, FireIsHarmless
<1>5. CASE DbWrite
  <2>1. dbq # <<>> /\ dbq' = Tail(dbq) /\ Head(dbq) \in Writing
    BY <1>0, <1>5, RequestKinds DEF DbWrite
  <2> QED
    BY <1>0, <2>1, ServedWrite
<1>6. CASE DbQuery
  BY <1>0, <1>6, ServedWrite DEF DbQuery
<1>7. CASE AppKill
  <2>1. DOMAIN dbq' = {}
    BY <1>7 DEF AppKill
  <2> QED
    BY <2>1 DEF WriteIsHarmless
<1>8. CASE \/ \E p \in Page : \/ Close(p) \/ DialogClose(p)
                              \/ \E on \in BOOLEAN : Connectivity(p, on)
                              \/ \E b \in Button : Tap(p, b)
           \/ Deliver \/ Tick \/ UNCHANGED vars
  BY <1>1, <1>8 DEF Close, DialogClose, Connectivity, Tap, Deliver, Tick, vars
<1> QED
  BY <1>3, <1>4, <1>5, <1>6, <1>7, <1>8 DEF Next

-----------------------------------------------------------------------------
(* Only the SQLite plugin changes the table, and for a user who waits it   *)
(* serves writes that do no harm.                                          *)
LEMMA TableStep ==
  ASSUME TypeInv, PatientUser, Distinct(table), WriteIsHarmless, [Next]_vars
  PROVE  /\ Distinct(table')
         /\ \A i \in DOMAIN table : table'[i].ymdWork = table[i].ymdWork =>
              table'[i].nowWorkenter = table[i].nowWorkenter
<1>0. TypeOK /\ KnownId
  BY DEF TypeInv
<1>1. CASE DbWrite
  <2>1. dbq # <<>> /\ Head(dbq) \in Writing
    BY <1>0, <1>1, RequestKinds DEF DbWrite
  <2>2. Harmless(Head(dbq), table)
    BY <1>0, <2>1, HeadElement DEF WriteIsHarmless, TypeOK
  <2> QED
    BY <1>0, <1>1, <2>2, HarmlessWrite
<1>2. CASE table' = table
  BY <1>2
<1>3. DbWrite \/ table' = table
  BY DEF Next, vars, Open, Close, Build, DialogClose, Connectivity, Tap, FireEnter, FireOut,
         FireOutLost, FireDropped, DbQuery, Deliver, Tick, AppKill
<1> QED
  BY <1>1, <1>2, <1>3

LEMMA PatientInvStep ==
  ASSUME IInv, WatchInv, PatientInv, [Next]_vars
  PROVE  PatientInv'
<1> SUFFICES ASSUME PatientUser
             PROVE  Distinct(table)' /\ TapOwnsDay' /\ WriteIsHarmless'
  BY DEF PatientInv
<1>1. TypeInv /\ TapsAreMounted /\ Distinct(table) /\ TapOwnsDay /\ WriteIsHarmless
  BY DEF IInv, WatchInv, PatientInv
<1>2. Distinct(table')
  BY <1>1, TableStep
<1> QED
  BY <1>1, <1>2, TapOwnsStep, WriteIsHarmlessStep

(* For a user who waits: no day has two rows; the page of the one tap      *)
(* under way owns its day, with no write in the way; and the one write     *)
(* under way finds no row of its day but its own.                          *)
THEOREM PatientInvariant == Spec => [](IInv /\ WatchInv /\ PatientInv)
<1>1. Init => PatientInv
  BY DEF Init, PatientInv, Distinct, TapOwnsDay, WriteIsHarmless
<1>2. IInv /\ WatchInv /\ PatientInv /\ [Next]_vars => PatientInv'
  BY PatientInvStep
<1> QED
  BY <1>1, <1>2, PagesCatchUp, PTL DEF Spec

(* OneRowPerDay for every number of pages, rows and requests: a user who   *)
(* taps and leaves only when nothing is under way never has two rows for   *)
(* one day, whatever midnights and crashes come in between.                *)
THEOREM NoDayTwice == Spec => []OneRowPerDay
<1>1. PatientInv => OneRowPerDay
  BY DEF PatientInv, OneRowPerDay, Distinct
<1> QED
  BY <1>1, PatientInvariant, PTL

(* ClockInKept for every number of pages, rows and requests: for such a    *)
(* user a row that keeps its day keeps its clock-in time.                  *)
THEOREM ClockInIsFinal == Spec => ClockInKept
<1> DEFINE Kept == PatientUser =>
             \A i \in DOMAIN table :
               table'[i].ymdWork = table[i].ymdWork =>
                 table'[i].nowWorkenter = table[i].nowWorkenter
<1>1. IInv /\ WatchInv /\ PatientInv /\ [Next]_vars => [Kept]_table
  BY TableStep DEF IInv, PatientInv
<1>2. Spec => [][Kept]_table
  BY <1>1, PatientInvariant, PTL DEF Spec
<1> QED
  BY <1>2 DEF ClockInKept
=============================================================================
