------------------------------- MODULE Export -------------------------------
(***************************************************************************)
(* The attendance list (lib/ui/listtaikin.dart): month sections built from *)
(* the local table, and the EXCEL提出 button of a section, which uploads    *)
(* the month's rows to the Realtime Database under the account signed in.  *)
(*                                                                         *)
(* The attendance page below the list goes on writing to the table (see    *)
(* Attendance: rows are added at the end, or completed, perhaps under a    *)
(* later day, and no row lacks a clock-in time).  Each stage of an upload  *)
(* is asynchronous and nobody awaits it: the SQLite query, the question    *)
(* for the current user for every row, and the writes to the server.  All  *)
(* three are served in order; the account may change in between.           *)
(***************************************************************************)
EXTENDS Integers, Sequences, SequencesExt, Lists

CONSTANTS User,          \* accounts
          Watched,       \* the accounts whose data at the server are followed
          NoUser,        \* a null current user
          None,          \* nothing there yet
          DaysPerMonth,  \* days are numbered over months and years
          MonthsPerYear, \* months with a text of their own
          LastDay,       \* bound: the last day
          MaxRow,        \* bound: rows in the table
          MaxOut,        \* bound: clock-out times told apart
          MaxPress,      \* bound: presses whose query is under way
          MaxBacklog     \* bound: rows and writes under way at a press

ASSUME ExportAssumption ==
  /\ NoUser \notin User /\ Watched \subseteq User
  /\ None \notin Nat /\ None \notin [id : Nat, out : Nat]
  /\ DaysPerMonth \in Nat \ {0} /\ MonthsPerYear \in Nat \ {0}
  /\ LastDay \in Nat /\ MaxRow \in Nat /\ MaxOut \in Nat /\ MaxPress \in Nat
  /\ MaxBacklog \in Nat

VARIABLES table,         \* the rows of manageremps, by id
          user,          \* FirebaseAuth.instance.currentUser()
          datas,         \* the rows the list shows; None while there is no list
          loading,       \* the query of a rebuilt list is under way
          monthwork,     \* the field of the page that survives rebuilds
          sections,      \* rows at whose place the last build put a section
          queries,       \* months whose press waits for getManager
          sending,       \* rows waiting for the current user
          outbox,        \* writes on their way to the server
          remote,        \* what the server has of the accounts followed
          asked          \* history: what the account asked to be stored

list == <<datas, loading, monthwork, sections>>
vars == <<table, user, list, queries, sending, outbox, remote, asked>>

Day == 0 .. LastDay
Month == 0 .. (LastDay \div DaysPerMonth)

(* A row; out = 0 is the empty nowWorkout, other values are times. *)
Row == [day : Day, out : 0 .. MaxOut]

(* A row on its way to the server, and what the server is told of it. *)
Sent == [id : Nat, day : Day, out : 0 .. MaxOut, month : Month]
Write == [to : User, day : Day, row : [id : Nat, out : 0 .. MaxOut]]
           \cup [to : User, flag : Month]

(* What is stored at users/uid/timework: a child per day and the flag. *)
Book == [rows : [Day -> [id : Nat, out : 0 .. MaxOut] \cup {None}],
         flag : Month \cup {None}]
Empty == [rows |-> [d \in Day |-> None], flag |-> None]

(* substring(0, 6) and substring(4, 6) of ymdWork: the second says nothing *)
(* of the year.                                                            *)
YearMonth(r) == r.day \div DaysPerMonth
MonthText(r) == YearMonth(r) % MonthsPerYear

(* Both times are there; the clock-in time always is. *)
Complete(r) == r.out # 0

CompleteBefore(rows, i) == {j \in 1 .. (i - 1) : Complete(rows[j])}

(* The value monthwork has when the builder comes to row i: the month of   *)
(* the last complete row before it.                                        *)
MonthworkAt(rows, mw, i) ==
  LET js == CompleteBefore(rows, i)
  IN  IF js = {} THEN mw ELSE MonthText(rows[Max(js)])

(* The rows at whose place a build puts a section with its button. *)
Sections(rows, mw) ==
  {i \in DOMAIN rows : /\ Complete(rows[i])
                       /\ MonthText(rows[i]) # MonthworkAt(rows, mw, i)}

(* The rows as sendtimeworkDatabase gets them, with the month pressed on. *)
Numbered(rows, m) ==
  [i \in DOMAIN rows |->
     [id |-> i, day |-> rows[i].day, out |-> rows[i].out, month |-> m]]

InMonth_Reversed(rows, m) ==
  Reverse(Only(Numbered(rows, m), {r \in Sent : YearMonth(r) = m}))

(* The loop of onPressed: the rows of the month, in the order of their ids. *)
InMonth(rows, m) == Only(Numbered(rows, m), {r \in Sent : YearMonth(r) = m})

(* The row the attendance page itself would load for the day. *)
LastOf(rows, d) ==
  LET is == {i \in DOMAIN rows : rows[i].day = d}
  IN  IF is = {} THEN None ELSE [id |-> Max(is), out |-> rows[Max(is)].out]

(* The book b after the rows of month m have been put into it. *)
WithMonth(b, rows, m) ==
  LET new == {d \in Day : d \div DaysPerMonth = m /\ LastOf(rows, d) # None}
  IN  IF new = {} THEN b
      ELSE [rows |-> [d \in Day |-> IF d \in new THEN LastOf(rows, d) ELSE b.rows[d]],
            flag |-> m]

AtRest == queries = <<>> /\ sending = <<>> /\ outbox = <<>>

-----------------------------------------------------------------------------
Init ==
  /\ table = <<>> /\ user = NoUser
  /\ datas = None /\ loading = FALSE /\ monthwork = None /\ sections = {}
  /\ queries = <<>> /\ sending = <<>> /\ outbox = <<>>
  /\ remote = [u \in Watched |-> Empty] /\ asked = Empty

(* The attendance page inserts a row, one that is gone perhaps of a day    *)
(* before the last row's; one inserted with a clock-out time (退勤 before   *)
(* 出勤) is this followed by ClockOut ...                                   *)
ClockIn(d) ==
  /\ Len(table) < MaxRow
  /\ table' = Append(table, [day |-> d, out |-> 0])
  /\ UNCHANGED <<user, list, queries, sending, outbox, remote, asked>>

(* ... or updates one. *)
ClockOut(i, d) ==
  /\ table[i].out < MaxOut
  /\ table[i].day <= d
  /\ table' = [table EXCEPT ![i] = [day |-> d, out |-> table[i].out + 1]]
  /\ UNCHANGED <<user, list, queries, sending, outbox, remote, asked>>

(* 勤怠一覧: the page is pushed and its first query answered. *)
OpenList ==
  /\ user # NoUser
  /\ datas = None
  /\ datas' = table
  /\ sections' = Sections(table, None)
  /\ monthwork' = MonthworkAt(table, None, Len(table) + 1)
  /\ UNCHANGED <<table, user, loading, queries, sending, outbox, remote, asked>>

(* The list is rebuilt, as when the device is turned: at once with the     *)
(* rows at hand, while a new query is under way.  monthwork starts where   *)
(* the last build left it.                                                 *)
Rebuild ==
  /\ datas # None
  /\ loading' = TRUE
  /\ sections' = Sections(datas, monthwork)
  /\ monthwork' = MonthworkAt(datas, monthwork, Len(datas) + 1)
  /\ UNCHANGED <<table, user, datas, queries, sending, outbox, remote, asked>>

(* The new query is answered, and the list built again. *)
Reload ==
  /\ loading
  /\ loading' = FALSE
  /\ datas' = table
  /\ sections' = Sections(table, monthwork)
  /\ monthwork' = MonthworkAt(table, monthwork, Len(table) + 1)
  /\ UNCHANGED <<table, user, queries, sending, outbox, remote, asked>>

NoList == datas' = None /\ loading' = FALSE /\ sections' = {} /\ monthwork' = None

(* The page is popped; presses under way go on. *)
CloseList ==
  /\ datas # None
  /\ NoList
  /\ UNCHANGED <<table, user, queries, sending, outbox, remote, asked>>

(* EXCEL提出 in the section at row i. *)
Press(i) ==
  /\ i \in sections
  /\ Len(queries) < MaxPress
  /\ Len(sending) + Len(outbox) <= MaxBacklog
  /\ queries' = Append(queries, YearMonth(datas[i]))
  /\ UNCHANGED <<table, user, list, sending, outbox, remote, asked>>

(* The rows arrive, and every row of the month is handed to                *)
(* sendtimeworkDatabase, which asks for the current user.                  *)
Answer ==
  /\ queries # <<>>
  /\ LET m == Head(queries)
     IN  /\ sending' = sending \o InMonth(table, m)
         /\ asked' = IF user = NoUser THEN asked ELSE WithMonth(asked, table, m)
  /\ queries' = Tail(queries)
  /\ UNCHANGED <<table, user, list, outbox, remote>>

SendRow_FlagIsDay ==
  /\ sending # <<>>
  /\ LET r == Head(sending)
     IN  outbox' = IF user = NoUser THEN outbox
                   ELSE outbox \o
                          << [to |-> user, day |-> r.day,
                              row |-> [id |-> r.id, out |-> r.out]],
                             [to |-> user, flag |-> r.day] >>
  /\ sending' = Tail(sending)
  /\ UNCHANGED <<table, user, list, queries, remote, asked>>

SendRow_NoFlag ==
  /\ sending # <<>>
  /\ LET r == Head(sending)
     IN  outbox' = IF user = NoUser THEN outbox
                   ELSE Append(outbox, [to |-> user, day |-> r.day,
                                        row |-> [id |-> r.id, out |-> r.out]])
  /\ sending' = Tail(sending)
  /\ UNCHANGED <<table, user, list, queries, remote, asked>>

(* The current user arrives: the row is written, then the flag; without a  *)
(* user the handler fails on the null and the row is dropped.              *)
SendRow ==
  /\ sending # <<>>
  /\ LET r == Head(sending)
     IN  outbox' = IF user = NoUser THEN outbox
                   ELSE outbox \o
                          << [to |-> user, day |-> r.day,
                              row |-> [id |-> r.id, out |-> r.out]],
                             [to |-> user, flag |-> r.month] >>
  /\ sending' = Tail(sending)
  /\ UNCHANGED <<table, user, list, queries, remote, asked>>

(* The server applies the next write. *)
Commit ==
  /\ outbox # <<>>
  /\ LET w == Head(outbox)
     IN  remote' = IF w.to \notin Watched THEN remote
                   ELSE IF "flag" \in DOMAIN w
                   THEN [remote EXCEPT ![w.to].flag = w.flag]
                   ELSE [remote EXCEPT ![w.to].rows[w.day] = w.row]
  /\ outbox' = Tail(outbox)
  /\ UNCHANGED <<table, user, list, queries, sending, asked>>

(* A login is answered: possible without a logout before, and, as nobody   *)
(* keeps the user from pressing on meanwhile (see Session), with the list  *)
(* already open.                                                           *)
SignIn(u) ==
  /\ user # u
  /\ user' = u /\ asked' = Empty
  /\ UNCHANGED <<table, list, queries, sending, outbox, remote>>

(* The close button of the chat page, which pops every other. *)
SignOut ==
  /\ datas = None
  /\ user # NoUser
  /\ user' = NoUser /\ asked' = Empty
  /\ UNCHANGED <<table, list, queries, sending, outbox, remote>>

(* The process dies.  The table, the account and the server remain. *)
AppKill ==
  /\ NoList
  /\ queries' = <<>> /\ sending' = <<>> /\ outbox' = <<>>
  /\ asked' = Empty
  /\ UNCHANGED <<table, user, remote>>

Next ==
  \/ \E d \in Day : ClockIn(d)
  \/ \E d \in Day, i \in DOMAIN table : ClockOut(i, d)
  \/ OpenList \/ Rebuild \/ Reload \/ CloseList
  \/ \E i \in sections : Press(i)
  \/ Answer \/ SendRow \/ Commit
  \/ \E u \in User : SignIn(u)
  \/ SignOut \/ AppKill

Spec == Init /\ [][Next]_vars

(* The plugins answer and the server is reached in the end; users do as    *)
(* they please.                                                            *)
FairSpec == Spec /\ WF_vars(Answer) /\ WF_vars(SendRow) /\ WF_vars(Commit)

-----------------------------------------------------------------------------
(* Every variable has its type. *)
TypeOK ==
  /\ table \in Seq(Row) /\ user \in User \cup {NoUser}
  /\ datas \in Seq(Row) \cup {None} /\ loading \in BOOLEAN
  /\ monthwork \in 0 .. (MonthsPerYear - 1) \cup {None}
  /\ sections \subseteq Nat
  /\ queries \in Seq(Month) /\ sending \in Seq(Sent) /\ outbox \in Seq(Write)
  /\ remote \in [Watched -> Book] /\ asked \in Book

(* When no upload is under way, every day whose month the signed-in        *)
(* account has exported is stored at the server as the last row of that    *)
(* day at the time of the export: the one row, among the rows a day can    *)
(* have, that the attendance page would load.  This is so however presses, *)
(* edits of the table and writes to the server overlapped.                 *)
UploadedIsLast ==
  AtRest /\ user \in Watched =>
    \A d \in Day : asked.rows[d] # None => remote[user].rows[d] = asked.rows[d]

(* Then the flag names the month exported last. *)
FlagIsLast ==
  AtRest /\ user \in Watched /\ asked.flag # None => remote[user].flag = asked.flag

(* A press on a list that stays open is answered by the flag of its month, *)
(* unless the account changes, by a login answered late, or every row of   *)
(* the month has been moved on to another.                                 *)
PressIsUploaded ==
  \A u \in Watched, m \in Month :
    (user = u /\ datas # None /\ \E k \in DOMAIN queries : queries[k] = m)
      ~> (\/ datas = None \/ user # u \/ remote[u].flag = m
          \/ \A i \in DOMAIN table : YearMonth(table[i]) # m)

(* The README's fifth function: attendance can be handed in as an Excel    *)
(* file.  After a rebuild monthwork still names the month built last, and  *)
(* a list of one month loses its section, its rows and its button.         *)
EveryMonthIsOffered ==
  datas # None =>
    \A i \in DOMAIN datas :
      Complete(datas[i]) => \E j \in sections : YearMonth(datas[j]) = YearMonth(datas[i])
=============================================================================
