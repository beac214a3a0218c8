----------------------------- MODULE Attendance -----------------------------
(***************************************************************************)
(* The attendance page (lib/ui/manageEmp.dart) over the local SQLite table *)
(* (lib/sqllite/database_helper.dart, lib/sqllite/model/fetchdata.dart).   *)
(*                                                                         *)
(* One Dart isolate runs everything, so a synchronous run of Dart code is  *)
(* one action; what interleaves is what an await, a timer or a platform    *)
(* channel separates: the one-second delay between a tap and its effect,   *)
(* the queue of requests to the SQLite plugin, the answers on their way    *)
(* back, the frames, midnight, leaving the page and the death of the       *)
(* process.                                                                *)
(***************************************************************************)
EXTENDS Integers, Sequences

CONSTANTS Page,          \* slots for manageEmpState objects
          NoId,          \* a null id: the page has not loaded a row
          NoTime,        \* the empty string of nowWorkenter and nowWorkout
          ReleaseBuild,  \* asserts are compiled out
          PatientUser,   \* taps and leaves only when nothing is under way
          TicksPerDay,   \* clock ticks from midnight to midnight
          MaxClock,      \* bound: the last instant
          MaxRow,        \* bound: no 出勤 tap at this many rows, taps,
                         \* requests and answers
          MaxTap,        \* the same bound for a 退勤 tap
          MaxRead        \* bound: a frame waits while this many requests and
                         \* answers are under way

ASSUME ConstantsAssumption ==
  /\ NoId \notin Nat
  /\ NoTime \notin Nat
  /\ ReleaseBuild \in BOOLEAN
  /\ PatientUser \in BOOLEAN
  /\ TicksPerDay \in Nat \ {0}
  /\ MaxClock \in Nat
  /\ MaxRow \in Nat
  /\ MaxTap \in Nat
  /\ MaxRead \in Nat

VARIABLES clock,         \* DateTime.now()
          table,         \* the table manageremps: the row with id i is table[i]
          dbq,           \* requests handed to the SQLite plugin, in order
          results,       \* answers to queries the isolate has not run yet
          taps,          \* taps whose one-second delay has not expired
          page           \* the state objects of the page

vars == <<clock, table, dbq, results, taps, page>>

-----------------------------------------------------------------------------
(* Data.  A day stands for its yyyymmdd text, and a time for its HH時MM分   *)
(* text, which says nothing of the day.                                    *)

Today == clock \div TicksPerDay
TimeNow_WithDay == clock

TimeNow == clock % TicksPerDay

Time == 0 .. (TicksPerDay - 1)
Stamp == Time \cup {NoTime}
Id == (Nat \ {0}) \cup {NoId}
Button == {"enter", "out"}

(* A row of manageremps: SQLite has no Booleans, the flags are 1 and 0.    *)
Row == [ymdWork : Nat, enterbutton : {0, 1}, outbutton : {0, 1},
        nowWorkenter : Stamp, nowWorkout : Stamp]

Request == [op : {"query"}, page : Page]
             \cup [op : {"insert", "update"}, id : Id, row : Row]

(* The fields of a manageEmpState.  online: idwifi is not                  *)
(* 'ConnectivityResult.none'.  dirty: a build is due.  shown: the buttons  *)
(* the last build enabled.  dialogs: success dialogs covering the page.    *)
PageState == [life : {"mounted", "disposed"}, id : Id, ymdWork : Nat,
              enterbutton : BOOLEAN, outbutton : BOOLEAN,
              nowWorkenter : Stamp, nowWorkout : Stamp,
              online : BOOLEAN, dirty : BOOLEAN, shown : SUBSET Button,
              dialogs : Nat]

Mounted(p) == page[p].life = "mounted"

(* Nothing under way: every queue is empty and every frame drawn. *)
Settled == /\ taps = <<>> /\ dbq = <<>> /\ results = <<>>
           /\ \A p \in Page : Mounted(p) => ~page[p].dirty

(* toMap: the plugin stores true as 1 and false as 0. *)
Bit(b) == IF b THEN 1 ELSE 0

RowOf(s) == [ymdWork |-> s.ymdWork,
             enterbutton |-> Bit(s.enterbutton), outbutton |-> Bit(s.outbutton),
             nowWorkenter |-> s.nowWorkenter, nowWorkout |-> s.nowWorkout]

SqlInsert_Replace(t, id, r) ==
  IF id = NoId THEN Append(t, r)
  ELSE [i \in DOMAIN t \cup {id} |-> IF i = id THEN r ELSE t[i]]

SqlInsert_IdRequired(t, id, r) ==
  IF id = NoId THEN t
  ELSE [i \in DOMAIN t \cup {id} |-> IF i \in DOMAIN t THEN t[i] ELSE r]

(* INSERT: a null id takes the next rowid; a taken id violates PRIMARY KEY *)
(* and the statement fails, which nobody catches.                          *)
SqlInsert(t, id, r) ==
  IF id = NoId THEN Append(t, r)
  ELSE [i \in DOMAIN t \cup {id} |-> IF i \in DOMAIN t THEN t[i] ELSE r]

SqlUpdate_Upsert(t, id, r) ==
  IF id \in DOMAIN t THEN [t EXCEPT ![id] = r] ELSE Append(t, r)

(* UPDATE ... WHERE id = ?: no row has a null id. *)
SqlUpdate(t, id, r) == IF id \in DOMAIN t THEN [t EXCEPT ![id] = r] ELSE t

(* i is the last row of the day: the one the loop of _workingcheck leaves  *)
(* in the fields.                                                          *)
IsLastOf(rows, day, i) ==
  /\ i \in DOMAIN rows
  /\ rows[i].ymdWork = day
  /\ \A j \in DOMAIN rows : rows[j].ymdWork = day => j <= i

Loaded_NoId(s, rows, i) ==
  [s EXCEPT !.enterbutton = (rows[i].enterbutton = 1),
            !.outbutton = (rows[i].outbutton = 1),
            !.nowWorkenter = rows[i].nowWorkenter,
            !.nowWorkout = rows[i].nowWorkout]

(* _workingcheck: the fields copied from row i, by getManager's == 1. *)
Loaded(s, rows, i) ==
  [s EXCEPT !.id = i,
            !.enterbutton = (rows[i].enterbutton = 1),
            !.outbutton = (rows[i].outbutton = 1),
            !.nowWorkenter = rows[i].nowWorkenter,
            !.nowWorkout = rows[i].nowWorkout]

(* The fields a state object is created with; idwifi is '', not none. *)
Fresh == [life |-> "mounted", id |-> NoId, ymdWork |-> 0,
          enterbutton |-> FALSE, outbutton |-> FALSE,
          nowWorkenter |-> NoTime, nowWorkout |-> NoTime,
          online |-> TRUE, dirty |-> TRUE, shown |-> {}, dialogs |-> 0]

(* build and _goingtoWork: today's date and the buttons; ymdWork is        *)
(* recomputed at every build, id and the flags of the day are not.         *)
Built(s) ==
  [s EXCEPT !.ymdWork = Today, !.dirty = FALSE,
            !.shown = {b \in Button : /\ s.online
                                      /\ b = "enter" => ~s.enterbutton
                                      /\ b = "out" => ~s.outbutton}]

(* A state object after dispose. *)
Gone(s) == [s EXCEPT !.life = "disposed", !.dirty = FALSE, !.shown = {},
                     !.dialogs = 0]

Entered_GuessId(s) ==
  [s EXCEPT !.enterbutton = ~s.enterbutton, !.nowWorkenter = TimeNow,
            !.id = IF s.id = NoId THEN Len(table) + 1 ELSE s.id]

(* The setState of the 出勤 button, up to the request it makes. *)
Entered(s) == [s EXCEPT !.enterbutton = ~s.enterbutton,
                        !.nowWorkenter = TimeNow]

(* The setState of the 退勤 button. *)
Left(s) == [s EXCEPT !.outbutton = ~s.outbutton, !.nowWorkout = TimeNow]

(* What a completed setState adds: a dialog on top and a frame to draw. *)
Announced(s) == [s EXCEPT !.dialogs = s.dialogs + 1, !.dirty = TRUE]

Referenced(p) ==
  \/ \E k \in DOMAIN taps : taps[k].page = p
  \/ \E k \in DOMAIN dbq : dbq[k].op = "query" /\ dbq[k].page = p
  \/ \E k \in DOMAIN results : results[k].page = p

-----------------------------------------------------------------------------
Init ==
  /\ clock = 0
  /\ table = <<>> /\ dbq = <<>> /\ results = <<>> /\ taps = <<>>
  /\ page = [p \in Page |-> Gone(Fresh)]

(* The page is pushed: createState, initState and the first build, which   *)
(* asks for the table.  Limit: one page at most is mounted.  The home page *)
(* is under it, and only a second home page, which a login answered twice  *)
(* pushes on top (Session), could open another.                            *)
Open(p) ==
  /\ \A q \in Page : ~Mounted(q)
  /\ ~Referenced(p)
  /\ Len(dbq) + Len(results) < MaxRead
  /\ page' = [page EXCEPT ![p] = Built(Fresh)]
  /\ dbq' = Append(dbq, [op |-> "query", page |-> p])
  /\ UNCHANGED <<clock, table, results, taps>>

(* The page is popped.  Timers and requests it started go on. *)
Close(p) ==
  /\ Mounted(p)
  /\ PatientUser => Settled /\ page[p].dialogs = 0
  /\ page' = [page EXCEPT ![p] = Gone(page[p])]
  /\ UNCHANGED <<clock, table, dbq, results, taps>>

(* A connectivity report ends in setState; so does anything else that      *)
(* makes the framework rebuild the page.                                   *)
Connectivity(p, on) ==
  /\ Mounted(p)
  /\ page' = [page EXCEPT ![p] = [page[p] EXCEPT !.online = on, !.dirty = TRUE]]
  /\ UNCHANGED <<clock, table, dbq, results, taps>>

Build_NoReload(p) ==
  /\ Mounted(p)
  /\ page[p].dirty
  /\ page' = [page EXCEPT ![p] = Built(page[p])]
  /\ UNCHANGED <<clock, table, dbq, results, taps>>

(* A frame: the body is rebuilt and, unless offline, the table read. *)
Build(p) ==
  /\ Mounted(p)
  /\ page[p].dirty
  /\ page' = [page EXCEPT ![p] = Built(page[p])]
  /\ IF page[p].online
     THEN /\ Len(dbq) + Len(results) < MaxRead
          /\ dbq' = Append(dbq, [op |-> "query", page |-> p])
     ELSE UNCHANGED dbq
  /\ UNCHANGED <<clock, table, results, taps>>

(* A tap on an enabled button starts its one-second delay.  The bound for  *)
(* 退勤, which makes no row, is a separate one: it must leave room for a    *)
(* tap on a loaded row while the insert of a second one is under way.      *)
Tap(p, b) ==
  /\ Mounted(p)
  /\ b \in page[p].shown
  /\ page[p].dialogs = 0
  /\ PatientUser => Settled
  /\ Len(table) + Len(taps) + Len(dbq) + Len(results) <
       IF b = "enter" THEN MaxRow ELSE MaxTap
  /\ taps' = Append(taps, [page |-> p, button |-> b])
  /\ UNCHANGED <<clock, table, dbq, results, page>>

(* The delay of a 出勤 tap expires: the flag is toggled, the time stamped   *)
(* and the row inserted before the dialog opens.  On a disposed page a     *)
(* release build gets as far as the insert, a debug build fails setState's *)
(* assertion first.                                                        *)
FireEnter ==
  /\ taps # <<>>
  /\ LET p == Head(taps).page
         s == Entered(page[p])
     IN  /\ Head(taps).button = "enter"
         /\ Mounted(p) \/ ReleaseBuild
         /\ page' = [page EXCEPT ![p] = IF Mounted(p) THEN Announced(s) ELSE s]
         /\ dbq' = Append(dbq, [op |-> "insert", id |-> s.id, row |-> RowOf(s)])
  /\ taps' = Tail(taps)
  /\ UNCHANGED <<clock, table, results>>

FireOut_NullId ==
  /\ taps # <<>>
  /\ LET p == Head(taps).page
         s == Left(page[p])
     IN  /\ Head(taps).button = "out"
         /\ Mounted(p)
         /\ page' = [page EXCEPT ![p] = Announced(s)]
         /\ dbq' = Append(dbq, [op |-> "update", id |-> NoId, row |-> RowOf(s)])
  /\ taps' = Tail(taps)
  /\ UNCHANGED <<clock, table, results>>

(* The delay of a 退勤 tap expires while the page is there. *)
FireOut ==
  /\ taps # <<>>
  /\ LET p == Head(taps).page
         s == Left(page[p])
     IN  /\ Head(taps).button = "out"
         /\ Mounted(p)
         /\ page' = [page EXCEPT ![p] = Announced(s)]
         /\ dbq' = Append(dbq, [op |-> "update", id |-> s.id, row |-> RowOf(s)])
  /\ taps' = Tail(taps)
  /\ UNCHANGED <<clock, table, results>>

(* The delay of a 退勤 tap expires after the page is gone: in a release     *)
(* build the dialog, which comes first, throws, and the update is lost.    *)
FireOutLost ==
  /\ ReleaseBuild
  /\ taps # <<>>
  /\ LET p == Head(taps).page
     IN  /\ Head(taps).button = "out"
         /\ ~Mounted(p)
         /\ page' = [page EXCEPT ![p] = Left(page[p])]
  /\ taps' = Tail(taps)
  /\ UNCHANGED <<clock, table, dbq, results>>

(* Either delay expires after the page is gone, in a debug build. *)
FireDropped ==
  /\ ~ReleaseBuild
  /\ taps # <<>>
  /\ ~Mounted(Head(taps).page)
  /\ taps' = Tail(taps)
  /\ UNCHANGED <<clock, table, dbq, results, page>>

(* The dialog goes away: three seconds are over, or the user dismissed it. *)
DialogClose(p) ==
  /\ Mounted(p)
  /\ page[p].dialogs > 0
  /\ page' = [page EXCEPT ![p] = [page[p] EXCEPT !.dialogs = @ - 1]]
  /\ UNCHANGED <<clock, table, dbq, results, taps>>

(* The SQLite plugin serves its requests one at a time, in order. *)
DbWrite ==
  /\ dbq # <<>>
  /\ LET r == Head(dbq)
     IN  \/ /\ r.op = "insert"
            /\ table' = SqlInsert(table, r.id, r.row)
         \/ /\ r.op = "update"
            /\ table' = SqlUpdate(table, r.id, r.row)
  /\ dbq' = Tail(dbq)
  /\ UNCHANGED <<clock, results, taps, page>>

DbQuery ==
  /\ dbq # <<>>
  /\ Head(dbq).op = "query"
  /\ results' = Append(results, [page |-> Head(dbq).page, rows |-> table])
  /\ dbq' = Tail(dbq)
  /\ UNCHANGED <<clock, table, taps, page>>

(* The continuation of getManager: the fields are overwritten by the last  *)
(* row of the page's day; without one nothing changes, and without a       *)
(* setState the buttons stay as they were drawn.                           *)
Deliver ==
  /\ results # <<>>
  /\ LET p == Head(results).page
         rows == Head(results).rows
     IN  \/ \E i \in DOMAIN rows :
              /\ IsLastOf(rows, page[p].ymdWork, i)
              /\ page' = [page EXCEPT ![p] = Loaded(page[p], rows, i)]
         \/ /\ \A i \in DOMAIN rows : rows[i].ymdWork # page[p].ymdWork
            /\ UNCHANGED page
  /\ results' = Tail(results)
  /\ UNCHANGED <<clock, table, dbq, taps>>

Tick ==
  /\ clock < MaxClock
  /\ clock' = clock + 1
  /\ UNCHANGED <<table, dbq, results, taps, page>>

(* The process dies: only the table survives. *)
AppKill ==
  /\ page' = [p \in Page |-> Gone(Fresh)]
  /\ taps' = <<>> /\ dbq' = <<>> /\ results' = <<>>
  /\ UNCHANGED <<clock, table>>

Next ==
  \/ \E p \in Page : \/ Open(p) \/ Close(p) \/ Build(p) \/ DialogClose(p)
                     \/ \E on \in BOOLEAN : Connectivity(p, on)
                     \/ \E b \in Button : Tap(p, b)
  \/ FireEnter \/ FireOut \/ FireOutLost \/ FireDropped
  \/ DbWrite \/ DbQuery \/ Deliver
  \/ Tick \/ AppKill

Spec == Init /\ [][Next]_vars

(* Timers expire, the plugin answers, the isolate runs what is due and     *)
(* draws the frames; nobody has to tap, and the clock may stand still.     *)
Fairness ==
  /\ WF_vars(FireEnter \/ FireOut \/ FireOutLost \/ FireDropped)
  /\ WF_vars(DbWrite \/ DbQuery)
  /\ WF_vars(Deliver)
  /\ \A p \in Page : WF_vars(Build(p))

FairSpec == Spec /\ Fairness

-----------------------------------------------------------------------------
(* Every variable has its type. *)
TypeOK ==
  /\ clock \in Nat
  /\ table \in Seq(Row)
  /\ dbq \in Seq(Request)
  /\ results \in Seq([page : Page, rows : Seq(Row)])
  /\ taps \in Seq([page : Page, button : Button])
  /\ page \in [Page -> PageState]

(* A row the list page and the export can use: whatever the order of taps, *)
(* page changes and crashes, no row is stored without a clock-in time, a   *)
(* row whose out flag is set has a clock-out time, and no row is dated     *)
(* after today.                                                            *)
StampedRow(r) ==
  /\ r.nowWorkenter # NoTime
  /\ r.outbutton = 1 => r.nowWorkout # NoTime
  /\ r.ymdWork <= Today

RowsStamped == \A i \in DOMAIN table : StampedRow(table[i])

(* Every id a page holds, and every id in a request under way, is the id   *)
(* of a row of the table: a row is never addressed before it exists, so    *)
(* the UPDATE of a loaded page never misses.                               *)
KnownId ==
  /\ \A p \in Page : page[p].id \in DOMAIN table \cup {NoId}
  /\ \A k \in DOMAIN dbq :
       dbq[k].op # "query" => dbq[k].id \in DOMAIN table \cup {NoId}

(* The table, read as a book of working days, is an implementation of      *)
(* Register: rows are only added or completed, never lost, emptied, or     *)
(* dated back, by any interleaving of taps, loads, midnights and crashes.  *)
Book == [i \in DOMAIN table |->
           [day |-> table[i].ymdWork,
            in  |-> table[i].nowWorkenter,
            out |-> table[i].nowWorkout]]

R == INSTANCE Register WITH today <- Today, book <- Book

RegisterSpec == R!Spec

(* When everything under way has ended, a page that is online shows in its *)
(* fields the last row stored for the day it was built for, if there is    *)
(* one.  It holds as long as no timer of an abandoned page writes behind   *)
(* the back of its successor: in a debug build, or for a user who waits.   *)
CaughtUp ==
  (PatientUser \/ ~ReleaseBuild) =>
    (Settled =>
       \A p \in Page : Mounted(p) /\ page[p].online =>
         \A i \in DOMAIN table :
           IsLastOf(table, page[p].ymdWork, i) =>
             page[p] = Loaded(page[p], table, i))

(* A user who taps and leaves only when nothing is under way never gets    *)
(* two rows for one day, in spite of buttons drawn from stale flags, of a  *)
(* midnight between the tap and its effect, and of crashes.                *)
OneRowPerDay ==
  PatientUser =>
    \A i, j \in DOMAIN table : table[i].ymdWork = table[j].ymdWork => i = j

(* For such a user a stored clock-in time is final as long as the row      *)
(* keeps its day, even when the 出勤 button is drawn enabled although the   *)
(* row exists.  (A page left open over midnight can take a row, and the    *)
(* time of a failed insert, to the next day.)                              *)
ClockInKept ==
  [][PatientUser =>
       \A i \in DOMAIN table :
         table'[i].ymdWork = table[i].ymdWork =>
           table'[i].nowWorkenter = table[i].nowWorkenter]_table

(* A 出勤 tap on a page that knows no row is answered by a row of its day   *)
(* or a later one, unless the page goes away first.                        *)
ClockInIsRecorded ==
  \A p \in Page, d \in 0 .. (MaxClock \div TicksPerDay) :
    (/\ Mounted(p) /\ page[p].id = NoId /\ page[p].ymdWork = d
     /\ taps # <<>> /\ Head(taps) = [page |-> p, button |-> "enter"])
      ~> (~Mounted(p) \/ \E i \in DOMAIN table : table[i].ymdWork >= d)

(* A 退勤 tap on a page that has loaded a row puts a clock-out time into    *)
(* that row, unless the page goes away first.  When 出勤 was tapped twice a *)
(* load between the tap and its effect can move the page on to the second  *)
(* row, and the time goes to that one: to the row loaded or a later one.   *)
ClockOutIsRecorded ==
  \A p \in Page, i \in 1 .. MaxRow :
    (/\ Mounted(p) /\ page[p].id = i
     /\ taps # <<>> /\ Head(taps) = [page |-> p, button |-> "out"])
      ~> (~Mounted(p) \/ \E j \in DOMAIN table :
                            j >= i /\ table[j].nowWorkout # NoTime)

(* A page that has asked for the table while a row of its day is stored    *)
(* gets to know a row, unless it goes away or its day passes first.        *)
RowIsLoaded ==
  \A p \in Page :
    (/\ Mounted(p)
     /\ \E i \in DOMAIN table : table[i].ymdWork = page[p].ymdWork
     /\ \E k \in DOMAIN dbq : dbq[k] = [op |-> "query", page |-> p])
      ~> (\/ ~Mounted(p) \/ page[p].id # NoId
          \/ \A i \in DOMAIN table : table[i].ymdWork < page[p].ymdWork)
=============================================================================
