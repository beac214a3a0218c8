-------------------------------- MODULE Chat --------------------------------
(***************************************************************************)
(* The chat (lib/ui/chat.dart) over the Firestore collection 'messages'.   *)
(*                                                                         *)
(* There is one collection for everybody.  A message carries its           *)
(* conversation in the field 'to': the sender's address followed by the    *)
(* address of the person the page is about, with nothing in between.  A    *)
(* page shows the messages whose 'to' is its two addresses in either       *)
(* order.                                                                  *)
(*                                                                         *)
(* Sending awaits the server before it clears the text field, and the user *)
(* may type, press again, leave, sign out or lose the process meanwhile.   *)
(* Firestore keeps the writes of an account across restarts and sends them *)
(* in order while the application runs and that account is signed in.      *)
(***************************************************************************)
EXTENDS Integers, Sequences, SequencesExt, Lists

CONSTANTS User,       \* accounts
          Device,     \* the accounts whose devices are followed
          Patient,    \* those of them that wait until a message is sent
          Part,       \* what addresses are made of
          Email,      \* the address of each account, a sequence of parts
          None,       \* no page
          MaxText,    \* bound: texts each account writes
          MaxPress,   \* bound: messages an account sends
          MaxPending  \* bound: messages of an account under way at a press

ASSUME ChatAssumption ==
  /\ Device \subseteq User /\ Patient \subseteq Device
  /\ None \notin User
  /\ Email \in [User -> Seq(Part)]
  /\ MaxText \in [Device -> Nat] /\ MaxPress \in Nat /\ MaxPending \in Nat

VARIABLES running,    \* whether the application of the device is running
          signed,     \* which account is signed in on its device
          page,       \* the person the open chat page is about
          field,      \* messageController.text; texts are numbered, 0 is empty
          pending,    \* writes of the account that have not reached the server
          waits,      \* how many of the last of them the open page awaits
          acks,       \* answers the open page has not run on with yet
          log,        \* the collection, ordered by 'date'
          seen,       \* how much of it has reached the device
          written,    \* history: texts the account has written
          pressed     \* history: what the account pressed 送信 on, and for whom

here == <<page, field, waits, acks>>
vars == <<running, signed, here, pending, log, seen, written, pressed>>

Key_PeerOnly(u, v) == Email[v]

(* widget.user.email.toString() + widget.data *)
Key(u, v) == Email[u] \o Email[v]

Filter_OwnOnly(u, v, m) == m.to = Key(u, v)

(* userto or touser. *)
Filter(u, v, m) == m.to = Key(u, v) \/ m.to = Key(v, u)

(* A document; 'for' is history: the person its page was about. *)
Message == [from : User, to : {Key(u, v) : u \in User, v \in User},
            text : Nat \ {0}, for : User]

(* What a press leaves in the history. *)
Sent == [text : Nat \ {0}, for : User]

MessagesOf(u) == {m \in Message : m.from = u}

(* What a query on device u finds: the documents that have arrived, then   *)
(* the account's own whose date is not known there yet.                    *)
Known(u) ==
  SubSeq(log, 1, seen[u])
    \o Only(SubSeq(log, seen[u] + 1, Len(log)), MessagesOf(u))
    \o pending[u]

(* The list the page of u shows. *)
Shown(u) == Only(Known(u), {m \in Message : Filter(u, page[u], m)})

(* Two addresses put together can be told apart again. *)
Unambiguous ==
  \A u, v, x, y \in User : Email[u] \o Email[v] = Email[x] \o Email[y] => u = x /\ v = y

Ready(u) == u \in Patient => waits[u] + acks[u] = 0

-----------------------------------------------------------------------------
Init ==
  /\ running = [u \in Device |-> TRUE]
  /\ signed = [u \in Device |-> FALSE]
  /\ page = [u \in Device |-> None] /\ field = [u \in Device |-> 0]
  /\ pending = [u \in Device |-> <<>>]
  /\ waits = [u \in Device |-> 0] /\ acks = [u \in Device |-> 0]
  /\ log = <<>> /\ seen = [u \in Device |-> 0]
  /\ written = [u \in Device |-> 0] /\ pressed = [u \in Device |-> <<>>]

(* Login; messages left over from an earlier session may go out again. *)
SignIn(u) ==
  /\ running[u] /\ ~signed[u]
  /\ signed' = [signed EXCEPT ![u] = TRUE]
  /\ UNCHANGED <<running, here, pending, log, seen, written, pressed>>

(* A person, perhaps oneself, is chosen from the list. *)
Open(u, v) ==
  /\ running[u] /\ signed[u] /\ page[u] = None
  /\ page' = [page EXCEPT ![u] = v]
  /\ UNCHANGED <<running, signed, field, waits, acks, pending, log, seen, written, pressed>>

(* The page object goes, and with it the text field and all its            *)
(* continuations can still touch.                                          *)
Gone(u) ==
  /\ page' = [page EXCEPT ![u] = None] /\ field' = [field EXCEPT ![u] = 0]
  /\ waits' = [waits EXCEPT ![u] = 0] /\ acks' = [acks EXCEPT ![u] = 0]

(* Back to the list of people. *)
Leave(u) ==
  /\ page[u] # None
  /\ Gone(u)
  /\ UNCHANGED <<running, signed, pending, log, seen, written, pressed>>

(* The close button: signOut, and back to the first page. *)
SignOut(u) ==
  /\ page[u] # None
  /\ Gone(u)
  /\ signed' = [signed EXCEPT ![u] = FALSE]
  /\ UNCHANGED <<running, pending, log, seen, written, pressed>>

(* The process dies: the account stays signed in and its writes are kept   *)
(* (with nobody signed in, it takes nothing along that is followed here),  *)
Kill(u) ==
  /\ running[u] /\ signed[u]
  /\ running' = [running EXCEPT ![u] = FALSE]
  /\ Gone(u)
  /\ UNCHANGED <<signed, pending, log, seen, written, pressed>>

(* until the user starts the application again. *)
Start(u) ==
  /\ ~running[u]
  /\ running' = [running EXCEPT ![u] = TRUE]
  /\ UNCHANGED <<signed, here, pending, log, seen, written, pressed>>

(* The user replaces what is in the text field. *)
Type(u) ==
  /\ page[u] # None /\ written[u] < MaxText[u] /\ Ready(u)
  /\ written' = [written EXCEPT ![u] = @ + 1]
  /\ field' = [field EXCEPT ![u] = written'[u]]
  /\ UNCHANGED <<running, signed, page, waits, acks, pending, log, seen, pressed>>

Press_ClearFirst(u) ==
  /\ page[u] # None /\ field[u] # 0 /\ Ready(u)
  /\ Len(pressed[u]) < MaxPress /\ Len(pending[u]) < MaxPending
  /\ pending' = [pending EXCEPT ![u] =
       Append(@, [from |-> u, to |-> Key(u, page[u]), text |-> field[u], for |-> page[u]])]
  /\ pressed' = [pressed EXCEPT ![u] = Append(@, [text |-> field[u], for |-> page[u]])]
  /\ field' = [field EXCEPT ![u] = 0]
  /\ waits' = [waits EXCEPT ![u] = @ + 1]
  /\ UNCHANGED <<running, signed, page, acks, log, seen, written>>

Press_AllowsEmpty(u) ==
  /\ page[u] # None /\ Ready(u)
  /\ Len(pressed[u]) < MaxPress /\ Len(pending[u]) < MaxPending
  /\ pending' = [pending EXCEPT ![u] =
       Append(@, [from |-> u, to |-> Key(u, page[u]), text |-> field[u], for |-> page[u]])]
  /\ pressed' = [pressed EXCEPT ![u] = Append(@, [text |-> field[u], for |-> page[u]])]
  /\ waits' = [waits EXCEPT ![u] = @ + 1]
  /\ UNCHANGED <<running, signed, page, field, acks, log, seen, written>>

(* 送信, or the keyboard's return: an empty text does nothing, otherwise    *)
(* the message is added and the handler waits.                             *)
Press(u) ==
  /\ page[u] # None /\ field[u] # 0 /\ Ready(u)
  /\ Len(pressed[u]) < MaxPress /\ Len(pending[u]) < MaxPending
  /\ pending' = [pending EXCEPT ![u] =
       Append(@, [from |-> u, to |-> Key(u, page[u]), text |-> field[u], for |-> page[u]])]
  /\ pressed' = [pressed EXCEPT ![u] = Append(@, [text |-> field[u], for |-> page[u]])]
  /\ waits' = [waits EXCEPT ![u] = @ + 1]
  /\ UNCHANGED <<running, signed, page, field, acks, log, seen, written>>

(* The running application hands over the next message; the server stores  *)
(* it and gives it its date.                                               *)
Commit(u) ==
  /\ running[u] /\ signed[u] /\ pending[u] # <<>>
  /\ log' = Append(log, Head(pending[u]))
  /\ pending' = [pending EXCEPT ![u] = Tail(@)]
  /\ IF waits[u] = Len(pending[u])
     THEN waits' = [waits EXCEPT ![u] = @ - 1] /\ acks' = [acks EXCEPT ![u] = @ + 1]
     ELSE UNCHANGED <<waits, acks>>
  /\ UNCHANGED <<running, signed, page, field, seen, written, pressed>>

Resume_NoClear(u) ==
  /\ acks[u] > 0
  /\ acks' = [acks EXCEPT ![u] = @ - 1]
  /\ UNCHANGED <<running, signed, page, field, waits, pending, log, seen, written, pressed>>

(* The handler runs on and clears the field, whatever it holds by now. *)
Resume(u) ==
  /\ acks[u] > 0
  /\ acks' = [acks EXCEPT ![u] = @ - 1]
  /\ field' = [field EXCEPT ![u] = 0]
  /\ UNCHANGED <<running, signed, page, waits, pending, log, seen, written, pressed>>

(* The listener of an open page gets a new snapshot. *)
Sync(u) ==
  /\ page[u] # None /\ seen[u] < Len(log)
  /\ seen' = [seen EXCEPT ![u] = Len(log)]
  /\ UNCHANGED <<running, signed, here, pending, log, written, pressed>>

Next ==
  \E u \in Device :
    \/ SignIn(u) \/ (\E v \in User : Open(u, v))
    \/ Leave(u) \/ SignOut(u) \/ Kill(u) \/ Start(u)
    \/ Type(u) \/ Press(u)
    \/ Commit(u) \/ Resume(u) \/ Sync(u)

Spec == Init /\ [][Next]_vars

(* As long as the application runs, the server is reached in the end and   *)
(* answers, and due continuations run; the users do as they please, and    *)
(* nobody has to start an application again.                               *)
FairSpec ==
  /\ Spec
  /\ \A u \in Device : WF_vars(Commit(u)) /\ WF_vars(Resume(u)) /\ WF_vars(Sync(u))

-----------------------------------------------------------------------------
(* Every variable has its type, and no page awaits more than is under way. *)
TypeOK ==
  /\ running \in [Device -> BOOLEAN] /\ signed \in [Device -> BOOLEAN]
  /\ page \in [Device -> User \cup {None}]
  /\ field \in [Device -> Nat] /\ written \in [Device -> Nat]
  /\ pending \in [Device -> Seq(Message)] /\ log \in Seq(Message)
  /\ waits \in [Device -> Nat] /\ acks \in [Device -> Nat]
  /\ seen \in [Device -> Nat]
  /\ pressed \in [Device -> Seq(Sent)]
  /\ \A u \in Device : seen[u] <= Len(log) /\ waits[u] <= Len(pending[u])

(* A chat page shows no message of another conversation, whoever writes to *)
(* whom in the one collection, as long as addresses can be told apart once *)
(* they have been put together.                                            *)
NoLeak ==
  Unambiguous =>
    \A u \in Device :
      page[u] # None =>
        \A m \in Range(log) \cup Range(pending[u]) :
          Filter(u, page[u], m) =>
            \/ m.from = u /\ m.for = page[u]
            \/ m.from = page[u] /\ m.for = u

Texts(s) == [i \in DOMAIN s |-> s[i].text]
From(s, w) == Only(s, MessagesOf(w))
PressedFor(w, x) == Only(pressed[w], {p \in Sent : p.for = x})

(* A page that is up to date, about a person who has nothing under way,    *)
(* shows of each of the two exactly what that one pressed 送信 on in this   *)
(* conversation, in that order, over all sessions, crashes and sign-outs.  *)
ConversationIsExact ==
  Unambiguous =>
    \A u, v \in Device :
      page[u] = v /\ seen[u] = Len(log) /\ pending[v] = <<>> =>
        /\ Texts(From(Shown(u), u)) = Texts(PressedFor(u, v))
        /\ Texts(From(Shown(u), v)) = Texts(PressedFor(v, u))

(* A user who waits for the field to be cleared sends no text twice. *)
SentOnce ==
  \A u \in Patient :
    LET own == From(log, u) \o pending[u]
    IN  \A i, j \in DOMAIN own : own[i].text = own[j].text => i = j

(* For such a user an emptied field means a stored message: a text leaves  *)
(* the field of a page that stays open only once the server has it.        *)
ClearedIsStored ==
  [][\A u \in Patient :
       page[u] # None /\ page'[u] = page[u] /\ field[u] # 0 /\ field'[u] = 0 =>
         \E m \in Range(log) : m.from = u /\ m.text = field[u]]_vars

(* And the field is cleared in the end, so that the next text can follow. *)
FieldIsFreed ==
  \A u \in Patient : waits[u] + acks[u] > 0 ~> field[u] = 0

(* A message under way reaches the open page of the person it is for,      *)
(* unless that page is left, or the sender signs out or loses the process  *)
(* first; one left over from before is delivered all the same once the     *)
(* sender is signed in and running again.                                  *)
Delivered ==
  \A u \in Device : \A v \in Device \ {u} : \A t \in 1 .. MaxText[u] :
    (page[v] = u /\ \E m \in Range(pending[u]) : m.for = v /\ m.text = t)
      ~> (\/ page[v] # u \/ ~signed[u] \/ ~running[u]
          \/ \E m \in Range(Shown(v)) : m.from = u /\ m.text = t)
=============================================================================
