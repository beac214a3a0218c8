# Verification of 社内管理 (shainManager)

TLA+ models of the company application in `src/lib/` (Flutter/Dart), model-checked with TLC, with
theorems checked by TLAPS. Paths below are relative to `src/`.

## 1. The system

One Dart isolate runs all the code, so a synchronous stretch of Dart is atomic. What interleaves is
what an `await`, a timer, a platform channel, a frame or another process separates. Nothing in the
application waits for its own asynchronous work: no button is disabled while its effect is under
way, no handler asks whether its page is still there, no result carries the question it answers.
Errors of asynchronous handlers are not caught. That is where the hazards are.

| Part | Source | State | Operations | Interacts with |
|---|---|---|---|---|
| Attendance page | `lib/ui/manageEmp.dart` | the day's row in fields (`id`, `ymdWork`, flags, times), buttons drawn, dialogs | open, close, build, 出勤, 退勤, load of the day's row | table (requests in order), Wi-Fi gate (`idwifi`), task board (same page) |
| Local table | `lib/sqllite/database_helper.dart`, `lib/sqllite/model/fetchdata.dart` | table `manageremps` | insert, update, select; `deleteManager` has no caller | attendance page, list page |
| Wi-Fi gate | `manageEmp.dart` 90-102, 163-239, 295 | `idwifi`, handlers under way | check at start, report of a change, three look-ups | platform; rebuilds the page |
| Task board | `manageEmp.dart` 104-119, 524-859 | cards, `clickicondeleteTask`, `cardIndex`, `appColors` | create, delete, swipe | Firestore collection `stack`, shared by all users |
| List and export | `lib/ui/listtaikin.dart` | rows shown, `monthwork`, uploads under way | build, rebuild, EXCEL提出 | table, account, Realtime Database |
| Login, session | `lib/ui/login_page.dart`, `lib/services/authentication.dart` | account, form | login, registration, verification mail | every page that reads `currentUser()` |
| Home page | `lib/ui/homepage.dart` | nickname, photo | read of the profile, ways to the other pages | account, Realtime Database |
| List of people | `lib/ui/choicechat.dart` | `listdata`, `listdataback`, search text | load, search, choose a person | Realtime Database, chat |
| Chat | `lib/ui/chat.dart` | text field, messages | type, send, sign out | Firestore collection `messages`, shared by all users |
| Receipt | `lib/ui/receiptphoto.dart` | image chosen | take, upload | Storage, account, Realtime Database |
| Styles, shells, `build/`, `ios/`, `android/` | | | | presentation, generated or third-party code |

What makes each part correct:

* attendance: no day's work is lost or corrupted by the order of taps, loads, midnights, page
  changes and crashes; a tap has its effect in the end; a page shows what is stored;
* gate: a connected user is never locked out, the address held is of the current network;
* tasks: the card tapped is the task deleted; tasks created and deleted arrive;
* export: the server ends with what the table said at the export, however exports overlap;
* session: a home page is about the account that is signed in; a new account gets its profile and
  its verification mail;
* people: a search shows exactly the people it matches, and everybody listed has an account;
* chat: no message lost, sent twice, out of order or shown in another conversation, and a text
  leaves the field only once it is stored;
* receipt: the last photo wins, and no profile refers to an image that is not there.

`PROJECT.json` lists the hazards behind these, each at its line, with the properties that cover it.

## 2. Modules

| Module | Models | Used by |
|---|---|---|
| `Lists` | the elements of a list that belong to a set, in place of a filter | `TaskBoard`, `Export`, `Chat` |
| `Register` | abstract specification: a book of working days | `Attendance` (refinement) |
| `Attendance` | attendance page and table | `MCAttendance`, `AttendanceProofs` |
| `WifiGate` | Wi-Fi gate | `MCWifiGate`, `WifiGateProofs` |
| `TaskBoard` | task cards over Firestore | `MCTaskBoard`, `TaskBoardProofs` |
| `Export` | attendance list and upload | `MCExport`, `ExportProofs` |
| `Chat` | the chats of several devices over one collection | `MCChat`, `ChatProofs` |
| `Phone` | what the pages of a device share: account, routes, Realtime Database | `Session`, `Receipt`, `People` |
| `Session` | login, registration, home page, sign-out | `Shell` |
| `Receipt` | receipt page and its uploads | `Shell` |
| `People` | list of people and its search | `Shell` |
| `Shell` | `Session`, `Receipt` and `People` on one device | `MCShell`, `ShellProofs` |

Theorems are in modules of their own:

| Module | Theorems about | Rests on |
|---|---|---|
| `ListFacts` | numbers, sequences and `Lists` (lemmas only) | |
| `AttendanceProofs` | `Attendance`, every user and every build; refinement of `Register` | |
| `PatientProofs` | `Attendance`, a user who waits or a debug build | `AttendanceProofs`, `ListFacts` |
| `WifiGateProofs`, `TaskBoardProofs`, `ExportProofs`, `ChatProofs`, `ShellProofs` | the module of that name | `ListFacts` |

How they fit together: `Attendance` contains the gate as its field `online`, which any report may
set (`Connectivity`); `WifiGate` says which reports can. `Export` contains the attendance page as
the two changes it makes to the table: rows are added at the end (`ClockIn`) or completed
(`ClockOut`), in any order of days, and always have a clock-in time, which is what
`StoredRowsAreStamped` proves of `Attendance`. `Shell` composes its three components over the
variables of `Phone`: each step is one component's and leaves the other components' own variables
alone, except that a change of account ends what is expected of its photo, and the death of the
process ends everything. `Chat` starts where `Shell`'s list of people leads; `Shell` contains the
chat as its sign-out (`CloseChat`).

### Attendance

State: the clock, the table (row `i` has id `i`: nothing is ever deleted), the queue of requests to
the SQLite plugin, answers the isolate has not run yet, taps whose one-second delay has not expired,
and the page objects. There may be several page objects, since a disposed one lives on as long as a
timer or request refers to it; one at most is mounted. This is a limit of the model: a login
answered late (`Session` has it) pushes a second home page over a mounted attendance page, and from
there another can be opened over the first. Dates and times are numbers; a time says nothing of its
day (`clock % TicksPerDay`), a date is the day (`clock \div TicksPerDay`).

| Action | Code |
|---|---|
| `Open`, `Close` | `initState` and first build; `dispose` |
| `Build` | `build`/`_goingtoWork`: date, buttons, and the request for the table unless offline |
| `Tap` | `onPressed` of 出勤 or 退勤 up to the delay |
| `FireEnter` | 出勤 after its delay: flag, time, `insertManager`, dialog |
| `FireOut`, `FireOutLost` | 退勤 after its delay: flag, time, dialog, `updateManager`; on a disposed page the dialog throws before the update |
| `FireDropped` | either, on a disposed page of a debug build (assertion of `setState`) |
| `DialogClose` | `_dialogCall`'s three seconds, or a dismissal |
| `DbWrite`, `DbQuery` | the plugin serves the next request |
| `Deliver` | continuation of `getManager` with `_workingcheck`: last row of the day wins, no `setState` |
| `Connectivity` | `setState` of a connectivity report |
| `Tick`, `AppKill` | time; death of the process (only the table survives) |

`ReleaseBuild` selects what `setState` does on a disposed page. `PatientUser` restricts taps and
leaving to moments when nothing is under way and no dialog is open; the properties that need it say
so in their antecedent. Taps are bounded by what the table, the delays, the requests and the answers
already hold: `MaxRow` for 出勤, which adds to the table, and `MaxTap` for 退勤, so that there is room
for a 退勤 on a loaded row while a second insert is still under way. Frames are bounded by `MaxRead`.

### WifiGate

Reports arrive in order. Mobile and none are applied at once; Wi-Fi goes through `naming`, `bssid`,
`asking` and `ips`, one per await. The handlers are the same code and hold nothing before the
address, so counters stand for them; the address is looked up on the network of that moment.
Failing calls put a text in place of the answer (`failed`), a failing check is a null result.

### TaskBoard

`cache` is Firestore's local result of the query (newest first, pending documents included),
`snapshot` what the cards were last built from, `outbox` this user's writes. A pending document has
a null timestamp, on which the card's builder fails, so it has no card. `TapDelete(pos)` deletes
the document at `pos` of the snapshot. A card also needs a colour to be drawn (`Drawn`): `appColors`
grows with each build and is followed up to `MaxColors`, and cards beyond it can be neither seen nor
tapped. `last` is a history variable for the last deletion.

### Export

`Sections` is the outer `itemBuilder` in closed form: going through the rows, `monthwork` is the
month of the last complete row, so a complete row starts a section if its month differs from that.
A press goes through `queries` (the SQLite query), `sending` (each row waits for `currentUser()`)
and `outbox` (row, then flag). `asked` is a history variable: what the account has asked for since
it signed in. Signing out leads through the first page and so closes the list; an account signs in
there, or by a login still under way that is answered while the list is open (`SignIn` has no
condition on the list). The attendance page's insert of a row that already has a clock-out time is
`ClockIn` followed by `ClockOut`. The list is assumed short enough to be laid out at once. The rows are the device's,
so every account that signs in exports the same ones; the server is followed for the accounts in
`Watched`, and an account outside it signs in, presses and is read by uploads under way all the same.

### Chat

Each device in `Device` belongs to one account. A message is a record of its sender, its key (`to`:
two addresses, sequences of parts, put together as the code does), and its text, a number; `for`,
the person its page was about, is history. `pending` is Firestore's queue of the account's writes,
which survives the page, the process and the sign-out, and goes out only while the application is
`running` with that account signed in; `log` is the collection in the order of its
dates, `seen` how much of it the device has. `waits` and `acks` are the handlers of the open page
that await the server, and those whose answer is due.

| Action | Code |
|---|---|
| `SignIn`, `Open`, `Leave`, `SignOut` | login; a person chosen; back; the close button |
| `Kill`, `Start` | the process dies, page and handlers with it; the user starts the application again |
| `Type` | the text field |
| `Press` | `callback` up to its await: nothing for an empty text |
| `Commit` | the server stores the next message and answers |
| `Resume` | `callback` after its await: the field is cleared whatever it holds |
| `Sync` | a snapshot of the collection |

`Patient` are the users who type and press only when none of their handlers is under way.

### Phone, Session, Receipt, People, Shell

`stack` is the navigator above the login page: home pages, the dialog of a registration, receipt
pages, lists of people, each with its own state. `outbox` are writes to `users/` under way. `set`
replaces a node and so empties its photo, `update` sets the photo only; reads see the device's own
writes.

| Action | Code |
|---|---|
| `Login`, `Register` | the buttons up to their await; the form is not validated |
| `RequestFails`, `SignInAnswer`, `SignUpAnswer` | the answer, in any order: nothing (no such account, address taken, wrong password, no network); home page pushed; account, profile, dialog, mail |
| `SendMail` | `sendEmailVerification` once it has the current user |
| `OpenHome`, `AskUser`, `ReadProfile` | home page, `fetchnickname` before and after its awaits |
| `CloseChat`, `Back` | `signOut` and back to the first route; a pop |
| `OpenReceipt`, `CaptureImage`, `Submit` | receipt page, camera or album, upload started |
| `UploadDone`, `SendImage` | `onComplete`; `sendimageDatabase` for the account of that moment |
| `OpenPeople`, `Load`, `Fillout` | `initState`, its answer, `onChanged` of the search field |
| `CommitWrite`, `AppKill` (`Kill`) | the server; death of the process: a registration under way may still succeed, and a request may have signed its account in |

History variables: `calm` (the last press of a login or registration came with nothing under way),
`lost` (accounts whose profile died with the process), `expected` (the image last submitted, if the
earlier ones had been sent by then), and a list's `grown` (its search text has only been extended
since the list was whole). They are the conditions under which the properties hold.

## 3. Runs

| Run | Instance | Shows |
|---|---|---|
| `attendance_release` | 2 pages, release, impatient, 2 days, 2 rows, a third write by 退勤 | `TypeOK`, `RowsStamped`, `KnownId`, and the table implements `Register` |
| `attendance_patient` | 2 pages, release, patient, 5 instants over 3 days, 3 rows | `OneRowPerDay`, `CaughtUp`, `ClockInKept` |
| `attendance_debug` | 1 page, debug, impatient, 2 days, 2 rows, a third write by 退勤, fairness | `CaughtUp` and the three liveness properties |
| `wifi_gate` | office and home, 2 reports, 3 handlers, fairness | `ConnectedIsShown`, `IpIsCurrent`, `EventuallyShown` |
| `wifi_gate_readme` | same | violated: contents on any network (finding) |
| `wifi_gate_offline` | same | violated: a late Wi-Fi handler undoes the report of no network (finding) |
| `task_board` | 3 tasks, 2 writes under way, fairness | `StoredDeleteIsExact`, `CreatedIsShown`, `DeletedIsGone` |
| `task_board_readme` | same | violated: with a pending task the icon deletes another task (finding) |
| `export` | 2 accounts, 1 of them watched, 3 days in 2 months, 2 rows, 2 presses, fairness | `UploadedIsLast`, `FlagIsLast`, `PressIsUploaded` |
| `export_readme` | 1 account | violated: a rebuilt list loses a month (finding) |
| `chat` | 2 devices, 3 accounts, a patient user with 1 text, an impatient one with 2 texts and 2 presses, restarts, fairness | `NoLeak`, `ConversationIsExact`, `SentOnce`, `ClearedIsStored`, `FieldIsFreed`, `Delivered` |
| `shell` | 2 accounts, 1 of them new, 2 requests, 2 routes, 2 images of one name, 2 uploads, 2 search texts, fairness | `HomeIsCurrent`, `HomeNeedsUser`, `MailIsForNew`, `NoDangling`, `PhotoIsLast`, `SearchIsExact`, `ListedHaveAccounts`, `ProfileArrives`, `PhotoArrives` |

Why the bounds are enough for the cases of interest: two taps under way give the double tap and
出勤 overtaken by 退勤; a 退勤 that may come while two rows are stored or under way gives the clock-out
between the two inserts of a double 出勤; two pages give a timer of an abandoned page writing behind its successor; two
rows give duplicates of a day, a taken id and a second day; one midnight gives every stale date, and
the patient run has two, with two times in a day so that a changed time is visible. Three Wi-Fi
handlers overlap with two reports still to come. Three tasks give a pending one, a tapped one and a
bystander. In `export`, two presses are under way together, or one is while the account
changes: the table may change between their queries, and the rows and writes of both overlap
(`MaxBacklog` keeps further presses back until those have gone out). In `chat`, the third account's address is the other two put together, and it need
not act: its page can be opened, and what would leak into it is in the collection. Two texts
and two presses of the impatient user give the text sent twice, the text typed and cleared while
another is under way, and writes left over from an earlier session or from before a restart. In `shell`, two requests give every overlap of login and registration;
`MaxPages` bounds only what the user opens, answers push further pages on top; two images of one
name give the overwritten object and the uploads that end in the wrong order.

`attendance_release` and `attendance_patient` use symmetry of the page slots and a VIEW that drops
the fields of a disposed page object that nothing refers to: no action reads them and `Open`
overwrites them all. Neither is used with liveness.

What the properties say, where it is not obvious:

* `RowsStamped`, `KnownId`, `RegisterSpec` hold for a user who taps and leaves at any moment.
  Duplicated rows, rows with the flag off and rows moved to the next day do occur; lost rows, rows
  without a clock-in time, rows dated back or in the future do not.
* `CaughtUp` needs a debug build or a patient user: in a release build the insert of an abandoned
  page is not noticed by the page opened after it.
* `ClockOutIsRecorded` says that a 退勤 on a loaded row ends in that row or in a later one. After a
  double 出勤 the second insert can come between the tap and its effect; the page then loads the
  second row, as it does for every day with several, and it is that one that gets the time.
  A page that has gone by then is excepted: a debug build drops the tap, a release build loses it.
* `ClockInKept` is about rows that keep their day. Even a patient user's page, left open over
  midnight, can carry the time of a failed insert into the row as it moves it to the next day.
* `CreatedIsShown` excepts a task deleted meanwhile, and a board with more cards than colours.
* `PressIsUploaded` and `UploadedIsLast` are about an account that stays signed in. Rows pressed under
  one account and read for under the next one go to that one; rows read for with nobody signed in
  are dropped.
* `ConversationIsExact` and `NoLeak` need addresses that can be told apart once put together
  (`Unambiguous`), which `chat.dart` takes for granted: with addresses `a`, `ab`, `bc`, `c` the
  conversations a-bc and ab-c are one. The run's addresses are unambiguous although one is the
  others put together.
* `SentOnce`, `ClearedIsStored` and `FieldIsFreed` are about patient users. Who presses twice sends
  twice; who types while a message is under way has the new text cleared unsent.
* `Delivered` is about a sender who stays signed in with the application running; what is left over
  from before is delivered once both are so again, which no user is assumed to bring about.
* `HomeIsCurrent`, `HomeNeedsUser` and `MailIsForNew` need `calm`. Without it a registration
  answered after a login leaves a home page of one account with another signed in, and the second
  of two logins brings the account back after a sign-out. All accounts' home pages look the same,
  and receipts and messages go to the account that is signed in.
* `PhotoIsLast` needs the earlier uploads to have ended: overlapping ones may leave the older image.
  It covers one device; names are shared by all accounts, so an upload of the same name by another
  account replaces the image (the URL stays).
* `SearchIsExact` needs a text that grows on a list that has arrived: the code narrows the list it
  shows, so a shortened text keeps the people left out before, and an answer that arrives after the
  text was typed shows everybody. A node without a name stops the search.
* `ProfileArrives` excepts accounts whose process died before the profile arrived: nothing writes it
  later.
* `EventuallyShown` assumes that from some time on the page stays open and the device connected.

Fairness. Weak fairness of what the platform and the isolate do by themselves: timers expire,
plugins answer, due continuations run, frames are drawn, writes reach their server. None of the
user, the clock, other clients, or crashes. The frame's fairness is per page. `FireEnter`,
`FireOut`, `FireOutLost` and `FireDropped` are one timer queue, as are `DbWrite` and `DbQuery`. In
`Chat`, `Commit`, `Resume` and `Sync` are fair for each device; in `Shell`, that some upload ends,
some URL is sent and the next write arrives. `Commit` is enabled only while the application runs with
its account signed in, so `Delivered` allows for a sender who signs out or whose process dies; nobody
has to sign in or start the application again.

## 4. Proofs

Every safety property that a run checks is also a theorem, for every value of the constants that the
named assumption of its module allows: invariants as `Spec => []P`, the action properties
`ClockInKept` and `ClearedIsStored` and the refinement `RegisterSpec` as `Spec => P`. The assumptions
say that nulls differ from values, that bounds are natural numbers and that functions given as
constants have their types. Only `PeopleAssumption` says more: a text that extends another matches
no one the other does not (`contains` in the code), and the empty text matches everybody.

| Theorem | States | Theorem | States |
|---|---|---|---|
| `TypeCorrect` | `TypeOK` (attendance) | `ChatTypeCorrect` | `TypeOK` (chat) |
| `IdsAreKnown` | `KnownId` | `NoMessageLeaks` | `NoLeak` |
| `StoredRowsAreStamped` | `RowsStamped` | `ConversationsAreExact` | `ConversationIsExact` |
| `ImplementsRegister` | `RegisterSpec` | `NoTextTwice` | `SentOnce` |
| `SettledPagesAreCaughtUp` | `CaughtUp` | `EmptiedIsStored` | `ClearedIsStored` |
| `NoDayTwice` | `OneRowPerDay` | `ShellTypeCorrect` | `TypeOK` (shell) |
| `ClockInIsFinal` | `ClockInKept` | `HomeIsOfTheUser` | `HomeIsCurrent` |
| `GateTypeCorrect` | `TypeOK` (gate) | `NoHomeOfNobody` | `HomeNeedsUser` |
| `GateOpens` | `ConnectedIsShown` | `MailReachesTheNew` | `MailIsForNew` |
| `AddressIsCurrent` | `IpIsCurrent` | `PhotosAreThere` | `NoDangling` |
| `BoardTypeCorrect` | `TypeOK` (tasks) | `LastPhotoIsShown` | `PhotoIsLast` |
| `DeletionIsExact` | `StoredDeleteIsExact` | `GrowingSearchIsExact` | `SearchIsExact` |
| `ExportTypeCorrect` | `TypeOK` (export) | `EverybodyListedExists` | `ListedHaveAccounts` |
| `ExportedAsAsked`, `FlagAsAsked` | `UploadedIsLast`, `FlagIsLast` | | |

Most of these properties speak of a moment at which nothing is under way, so they say nothing of the
steps in between and are not inductive. The inductive invariants all have the same idea: say what
*will* be true once the queues have run empty, and show that every step keeps that promise or hands
it on. TLC has checked each of them on the instances of the runs as well.

### Attendance, every user (`AttendanceProofs`)

The invariant (`InductiveInvariant`: `Spec => []IInv`) is built in three layers, each with its own
initial and step lemma:

1. `TypeInv`: types, `KnownId`, and the same for answers under way, whose rows a page will take its
   id from (an answer is a table of the past, and the table only grows).
2. `StampInv`: a row may only be stored stamped if whatever it comes from is: rows in answers, rows
   in requests, and the fields of a page that holds an id. A page without an id may have a
   clock-out time and no clock-in time; its update then addresses no row, which is why 退勤 before
   出勤 does no harm.
3. `DayInv`: rows are never dated back because at most one page is mounted (the limit of section 2), its day is not earlier
   than that of any row or insert under way, and updates under way are in an order that keeps it so.
   Only a mounted page issues updates, since on a disposed one the dialog throws first.

Each layer's step lemma has one step per action; `StampInv` and `DayInv` are relative to the layers
before them. The refinement uses all three: an insert is `Add`, or nothing if the id is taken; an
update is `Amend`, or nothing if the id is null; everything else leaves the table unchanged.

### Attendance, a user who waits or a debug build (`PatientProofs`)

`WatchInv` is what stands behind `CaughtUp`. A mounted page that is online has a frame due; or a read
is under way with no write behind it; or nothing is left to be written and the last answer on its
way to the page is the table as it is; or nothing is on its way at all and its fields are those of
the last row of its day (`WillKnow`). A write breaks the last two, but only a mounted page writes, and
with the write it asks for a frame. The timer of an abandoned page in a release build would be the
exception; a debug build does not get to the write, and a user who waits has no tap under way on a page
that is gone (`TapsAreMounted`).

`PatientInv` follows the one tap such a user has under way. When it starts nothing else is, so the
page knows the table, and as no day has two rows, it *owns its day*: the only row of that day, if there
is one, is the one whose id and clock-in time the page holds. Until the delay expires that survives
further reads, and a frame that moves the page over midnight, because no row is of a later day than
the page was (`DayInv`). So the write the tap leads to is *harmless*: an insert without an id finds no row
of its day, one with an id fails on the key, and an update finds its own row with the same clock-in
time. `OneRowPerDay` and `ClockInKept` are what a harmless write does to the table. The enabled but
stale 出勤 button the code draws is therefore saved by the primary key alone.

### Wi-Fi gate (`WifiGateProofs`)

`GateInv`: on a connected device a field that says "none", or a report under way that will set it to
that, is followed by a report or a handler that overwrites it; on Wi-Fi, an address of another network,
held or on its way, is followed by a later look-up. Look-ups run in order and the device reports every
change, which is why the last one is of the current network.

### Task board (`TaskBoardProofs`)

A deletion goes by position. That it hits the tapped card rests on the cards of a snapshot without
pending documents being the snapshot itself, position by position (`OnlyAll`).

### Export (`ExportProofs`)

`ExportInv` follows each day, for the account signed in, from the rows that wait for the current user
over the writes under way to what the server has: the first of the three that knows the day knows it
last as it was asked for. A further press adds its rows at the end, where they settle the days they
have and leave the others alone; sending and writing take from the head of one queue and add to the
end of the next. The flag is followed the same way.

### Chat (`ChatProofs`)

`ChatInv` has three parts beside the types. Every message, stored or under way, carries the key made of
its sender and the person it is for (`KeyInv`); a filter that accepts it has then put the same
addresses together, and `Unambiguous` gives the same two people. An account's stored messages followed
by those under way are, one by one, what it pressed for (`AllIsPosted`), so an up-to-date page with
nothing under way shows all of it. And a user who waits has not sent the text in the field, or is
waiting for exactly that text (`TextsAreNew`, `FieldIsAwaited`).

### Pages of a device (`ShellProofs`)

`ShellInv`: whatever names an account names one that exists, in a list too; a list is part of what it
was read from; a URL, stored or under way, is that of an object that is there (objects are replaced, never
removed). While `calm` holds there is one request on the login page, or one mail, of the account
signed in, with only the dialog open, or home pages of the account signed in (`OneAtATime`). The
expected image is in one place: being stored, its URL waiting for the account, its URL the last write
under way, or in the profile (`OnItsWay`).

### Lists (`ListFacts`)

The library's induction theorems take an operator as a parameter, which the provers cannot
instantiate. `ListFacts` states induction with a *set* in its place (a set of numbers that has 0 and
successors, a set of sequences closed under `Append`) and proves it from the least number outside the
set. For the same reason the models filter with `Only(s, A)`, whose test is membership in a set, instead
of `SelectSeq`, whose test is an operator: facts such as `OnlyAppend`, `OnlyConcat` and `OnlyOnly` are
proved once for every set. `LastIn` and `NoneIn`, the vocabulary of `ExportInv` and `WatchInv`, have their
lemmas there too.

### Only model-checked

The properties under fairness: `ClockInIsRecorded`, `ClockOutIsRecorded`, `RowIsLoaded`,
`EventuallyShown`, `CreatedIsShown`, `DeletedIsGone`, `PressIsUploaded`, `FieldIsFreed`, `Delivered`,
`ProfileArrives`, `PhotoArrives`. Liveness needs `ENABLED`, which is out of the prover's reach. The four
properties that are violated are findings, with TLC's counterexamples.

## 5. Not modelled

Of the application: texts, layout and images; the fields `imgdirenter` and `imgdirout`; opening the
database file; `deleteManager` and `lib/sqllite/fetchdata.dart` (never called); security rules and
failures of the servers, failing uploads among them; Firestore across restarts, except in `Chat`;
the lazy building of list items off the screen; which route the timer of the success dialog pops;
a second attendance page mounted over the first, which a login answered late makes possible (with it
a page left at an earlier day could write after one of a later day);
a registration whose answer is an error although the account was made, except at a crash;
the attendance and list pages as routes of `Shell`; two chat pages at once (two home pages can lead
to them) and two devices of one account; the tokens in the URLs of stored images; the field
`avatar`, which the list of people and the chat read and no code writes (in a debug build the tiles
of such accounts fail on the null; the models take the release build).

The rest of the repository is not this program's. `ios/Pods` holds the C, C++ and Objective-C
sources of Firebase, LevelDB, nanopb, gRPC and others as CocoaPods installed them, and `build/`,
`android/` and the remainder of `ios/` are generated or platform shells. The application never calls
those sources directly: Flutter plugins do, and what it sees of them (order of writes, local
results, answers) is modelled as external behaviour at the place where the Dart code uses it. A
model of LevelDB or nanopb would verify those libraries and nothing of this application.

External behaviour (SQLite plugin, connectivity plugin,
Firestore, Realtime Database, Firebase Auth) is modelled from the way the code uses it.

## 6. Plan

All parts that carry logic of the application have a model, and every safety property the runs check
is proved. What is left:

1. A composition of `Export` with `Register` in place of its two table actions, so that what the
   export assumes of the table is what `ImplementsRegister` proves.
2. The safety half of the liveness properties, as action properties that can be proved: a tap, a
   press or a write under way is never dropped by anything but its own step, the page's end or a crash.
3. The attendance and list pages as routes of `Shell`, and with them two mounted attendance pages: which
   of `RowsStamped`, `KnownId` and `Register` is left when both write.
