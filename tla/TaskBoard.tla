------------------------------ MODULE TaskBoard -----------------------------
(***************************************************************************)
(* The task cards below the attendance buttons: createtask, bottomlistTask *)
(* and _showdialogTask of lib/ui/manageEmp.dart, over the Firestore        *)
(* collection 'stack' shared by all users.                                 *)
(*                                                                         *)
(* Firestore is external.  As the code uses it: a local write shows in the *)
(* next snapshot at once, before the server has it; until then its server  *)
(* timestamp reads as null and sorts as the newest; writes reach the       *)
(* server in order.  The query sorts by timecreate, newest first, so a     *)
(* task keeps its place when the server stores it, and a task of somebody  *)
(* else appears behind this user's tasks that are still pending.           *)
(***************************************************************************)
EXTENDS Integers, Sequences, Lists

CONSTANTS Task,          \* document ids
          MaxOutbox,     \* bound: writes under way
          MaxColors      \* bound: length of appColors that is told apart

ASSUME BoardAssumption == MaxOutbox \in Nat /\ MaxColors \in Nat

VARIABLES fresh,         \* ids not given out yet
          stored,        \* ids of the documents the server has
          outbox,        \* this user's writes on their way to the server
          cache,         \* the local result of the query, newest first
          snapshot,      \* snapshot.data.documents the cards were built from
          dialog,        \* the チケット作成 dialog is open
          armed,         \* clickicondeleteTask
          cardIndex,     \* the card scrolled to
          appColors,     \* length of appColors
          last           \* history: the last deletion (see TapDelete)

vars == <<fresh, stored, outbox, cache, snapshot, dialog, armed, cardIndex,
          appColors, last>>

Doc == [id : Task, pending : BOOLEAN]
NoDeletion == [card |-> "none", doc |-> "none", pending |-> FALSE]

StoredDoc == {d \in Doc : ~d.pending}
PendingDoc == {d \in Doc : d.pending}
Ids(docs) == {docs[k].id : k \in DOMAIN docs}
HasPending(docs) == \E k \in DOMAIN docs : docs[k].pending
Without(docs, id) == Only(docs, {d \in Doc : d.id # id})

Cards_OneShort ==
  LET all == Only(snapshot, StoredDoc) IN SubSeq(all, 1, Len(all) - 1)

(* listtextField: the builder fails on the null timecreate of a pending    *)
(* document, after which its card is simply not added.                     *)
Cards == Only(snapshot, StoredDoc)

(* The card at pos is built: it needs a colour of its own, and one that    *)
(* does not get it is replaced by an error.                                *)
Drawn(pos) == pos \in DOMAIN Cards /\ pos <= appColors

(* Each build of the page adds a colour. *)
Grown == IF appColors < MaxColors THEN appColors + 1 ELSE appColors

Init ==
  /\ fresh = Task /\ stored = {}
  /\ outbox = <<>> /\ cache = <<>> /\ snapshot = <<>>
  /\ dialog = FALSE /\ armed = FALSE /\ cardIndex = 0
  /\ appColors = 1
  /\ last = NoDeletion

(* The stream delivers the query's result; the cards are rebuilt. *)
Snapshot ==
  /\ snapshot # cache
  /\ snapshot' = cache
  /\ UNCHANGED <<fresh, stored, outbox, cache, dialog, armed, cardIndex,
                 appColors, last>>

(* The page is rebuilt for another reason, such as a connectivity report   *)
(* or a frame of the colour animation.                                     *)
PageBuild ==
  /\ appColors' = Grown
  /\ UNCHANGED <<fresh, stored, outbox, cache, snapshot, dialog, armed,
                 cardIndex, last>>

(* The floating button: the text fields are cleared, the dialog opens. *)
OpenDialog ==
  /\ ~dialog
  /\ dialog' = TRUE
  /\ UNCHANGED <<fresh, stored, outbox, cache, snapshot, armed, cardIndex,
                 appColors, last>>

(* 作成: createtask adds the document and the dialog closes. *)
Create ==
  /\ dialog
  /\ Len(outbox) < MaxOutbox
  /\ \E id \in fresh :
       /\ fresh' = fresh \ {id}
       /\ outbox' = Append(outbox, [op |-> "add", id |-> id])
       /\ cache' = <<[id |-> id, pending |-> TRUE]>> \o cache
  /\ dialog' = FALSE
  /\ appColors' = Grown
  /\ UNCHANGED <<stored, snapshot, armed, cardIndex, last>>

(* キャンセル, or a tap outside the dialog, which rebuilds nothing. *)
Cancel ==
  /\ dialog
  /\ dialog' = FALSE
  /\ appColors' \in {Grown, appColors}
  /\ UNCHANGED <<fresh, stored, outbox, cache, snapshot, armed, cardIndex,
                 last>>

TapDelete_FromCache(pos) ==
  /\ ~dialog
  /\ Drawn(pos) /\ pos \in DOMAIN cache
  /\ IF armed
     THEN LET doc == cache[pos].id
          IN  /\ Len(outbox) < MaxOutbox
              /\ outbox' = Append(outbox, [op |-> "delete", id |-> doc])
              /\ cache' = Without(cache, doc)
              /\ last' = [card |-> Cards[pos].id, doc |-> doc,
                          pending |-> HasPending(snapshot)]
     ELSE UNCHANGED <<outbox, cache, last>>
  /\ armed' = TRUE
  /\ appColors' = Grown
  /\ UNCHANGED <<fresh, stored, snapshot, dialog, cardIndex>>

TapDelete_NotSent(pos) ==
  /\ ~dialog
  /\ Drawn(pos)
  /\ IF armed
     THEN /\ cache' = Without(cache, snapshot[pos].id)
          /\ last' = [card |-> Cards[pos].id, doc |-> snapshot[pos].id,
                      pending |-> HasPending(snapshot)]
     ELSE UNCHANGED <<cache, last>>
  /\ armed' = TRUE
  /\ appColors' = Grown
  /\ UNCHANGED <<fresh, stored, outbox, snapshot, dialog, cardIndex>>

(* The icon of the card at pos: the first tap arms, later ones delete.     *)
(* The card is the one at pos among the cards, the document deleted the    *)
(* one at pos among all documents of the snapshot.                         *)
TapDelete(pos) ==
  /\ ~dialog
  /\ Drawn(pos)
  /\ IF armed
     THEN LET doc == snapshot[pos].id
          IN  /\ Len(outbox) < MaxOutbox
              /\ outbox' = Append(outbox, [op |-> "delete", id |-> doc])
              /\ cache' = Without(cache, doc)
              /\ last' = [card |-> Cards[pos].id, doc |-> doc,
                          pending |-> HasPending(snapshot)]
     ELSE UNCHANGED <<outbox, cache, last>>
  /\ armed' = TRUE
  /\ appColors' = Grown
  /\ UNCHANGED <<fresh, stored, snapshot, dialog, cardIndex>>

Swipe_NoLowerBound(step) ==
  /\ ~dialog
  /\ Cards # <<>>
  /\ step = 1 => cardIndex < Len(Cards)
  /\ cardIndex' = cardIndex + step
  /\ appColors' = IF cardIndex' < appColors THEN Grown ELSE appColors
  /\ UNCHANGED <<fresh, stored, outbox, cache, snapshot, dialog, armed, last>>

(* A swipe over a card.  A colour is fetched for the new index before the  *)
(* scroll, and a missing one ends the handler there, with the index moved; *)
(* otherwise the page is rebuilt by the setState after it.  A swipe beyond *)
(* either end is only a PageBuild.                                         *)
Swipe(step) ==
  /\ ~dialog
  /\ Cards # <<>>
  /\ IF step = -1 THEN cardIndex > 0 ELSE cardIndex < Len(Cards)
  /\ cardIndex' = cardIndex + step
  /\ appColors' = IF cardIndex' < appColors THEN Grown ELSE appColors
  /\ UNCHANGED <<fresh, stored, outbox, cache, snapshot, dialog, armed, last>>

(* A drag that ends without velocity disarms the icons. *)
Disarm ==
  /\ ~dialog
  /\ Cards # <<>>
  /\ armed' = FALSE
  /\ appColors' = Grown
  /\ UNCHANGED <<fresh, stored, outbox, cache, snapshot, dialog, cardIndex,
                 last>>

(* The server stores or deletes a document of this user. *)
Commit ==
  /\ outbox # <<>>
  /\ LET w == Head(outbox)
     IN  /\ stored' = IF w.op = "add" THEN stored \cup {w.id} ELSE stored \ {w.id}
         /\ cache' = IF w.op = "add"
                     THEN [k \in DOMAIN cache |->
                             IF cache[k].id = w.id
                             THEN [id |-> w.id, pending |-> FALSE] ELSE cache[k]]
                     ELSE cache
  /\ outbox' = Tail(outbox)
  /\ UNCHANGED <<fresh, snapshot, dialog, armed, cardIndex, appColors, last>>

(* Somebody else creates a task ... *)
OtherCreates ==
  /\ \E id \in fresh :
       /\ fresh' = fresh \ {id}
       /\ stored' = stored \cup {id}
       /\ cache' = Only(cache, PendingDoc)
                     \o <<[id |-> id, pending |-> FALSE]>>
                     \o Only(cache, StoredDoc)
  /\ UNCHANGED <<outbox, snapshot, dialog, armed, cardIndex, appColors, last>>

(* ... or deletes one. *)
OtherDeletes ==
  /\ \E id \in stored :
       /\ stored' = stored \ {id}
       /\ cache' = Without(cache, id)
  /\ UNCHANGED <<fresh, outbox, snapshot, dialog, armed, cardIndex, appColors,
                 last>>

Next ==
  \/ Snapshot \/ PageBuild
  \/ OpenDialog \/ Create \/ Cancel
  \/ \E pos \in 1 .. Len(snapshot) : TapDelete(pos)
  \/ \E step \in {-1, 1} : Swipe(step)
  \/ Disarm
  \/ Commit \/ OtherCreates \/ OtherDeletes

Spec == Init /\ [][Next]_vars

(* Writes reach the server and results reach the page; users do as they    *)
(* please.                                                                 *)
FairSpec == Spec /\ WF_vars(Commit) /\ WF_vars(Snapshot)

-----------------------------------------------------------------------------
(* Every variable has its type. *)
TypeOK ==
  /\ fresh \subseteq Task /\ stored \subseteq Task
  /\ outbox \in Seq([op : {"add", "delete"}, id : Task])
  /\ cache \in Seq(Doc) /\ snapshot \in Seq(Doc)
  /\ dialog \in BOOLEAN /\ armed \in BOOLEAN
  /\ cardIndex \in Nat /\ appColors \in 1 .. MaxColors \cup {1}
  /\ last \in [card : Task, doc : Task, pending : BOOLEAN] \cup {NoDeletion}

(* As long as no task of the snapshot waits for its timestamp, the document *)
(* deleted is the one on the card that was tapped, even when the           *)
(* collection has changed since the cards were built.                      *)
StoredDeleteIsExact == ~last.pending => last.card = last.doc

(* A task under way to the server gets a card that can be built, unless    *)
(* somebody deletes it or there are more tasks than colours: the page adds *)
(* one whenever it is built, and nothing makes it build for a task of      *)
(* somebody else.                                                          *)
CreatedIsShown ==
  \A id \in Task :
    (\E k \in DOMAIN outbox : outbox[k] = [op |-> "add", id |-> id])
      ~> (\/ \E pos \in DOMAIN Cards : Drawn(pos) /\ Cards[pos].id = id
          \/ id \notin Ids(cache) \/ Len(Cards) > appColors)

(* A deletion reaches the server. *)
DeletedIsGone ==
  \A id \in Task : last.doc = id ~> id \notin stored

(* The README's fourth function: tasks can be deleted, as in Redmine or    *)
(* Backlog, by the icon on their card.  With a task of this user pending,  *)
(* position and document no longer match, and another task goes.           *)
DeleteHitsTappedCard == last.card = last.doc
=============================================================================
