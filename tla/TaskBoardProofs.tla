--------------------------- MODULE TaskBoardProofs ---------------------------
(***************************************************************************)
(* Theorems about TaskBoard, for any tasks and bounds.  A deletion goes by *)
(* position: that it hits the tapped card rests on the cards of a snapshot *)
(* without pending documents being the snapshot itself.                    *)
(***************************************************************************)
EXTENDS TaskBoard, ListFacts

(* A list of documents stays one when some are left out. *)
LEMMA OnlyDocs ==
  ASSUME NEW docs \in Seq(Doc), NEW A
  PROVE  Only(docs, A) \in Seq(Doc)
<1>1. Only(docs, A) \in Seq(Doc \cap A)
  BY OnlyType
<1> QED
  BY <1>1

(* The builder of the cards drops nothing when nothing is pending. *)
LEMMA AllAreCards ==
  ASSUME TypeOK, ~HasPending(snapshot)
  PROVE  Cards = snapshot
<1>1. snapshot \in Seq(Doc) /\ \A k \in DOMAIN snapshot : ~snapshot[k].pending
  BY DEF TypeOK, HasPending
<1>2. snapshot \in Seq(StoredDoc)
  BY <1>1 DEF StoredDoc
<1> QED
  BY <1>2, OnlyAll DEF Cards

(* Each build of the page keeps the number of colours in bounds. *)
LEMMA GrownType ==
  ASSUME TypeOK
  PROVE  Grown \in 1 .. MaxColors \cup {1}
BY BoardAssumption DEF TypeOK, Grown

(* What a tap on an icon does. *)
LEMMA TapType ==
  ASSUME TypeOK, StoredDeleteIsExact, NEW pos \in 1 .. Len(snapshot), TapDelete(pos)
  PROVE  TypeOK' /\ StoredDeleteIsExact'
<1>1. snapshot \in Seq(Doc) /\ snapshot[pos] \in Doc /\ pos \in DOMAIN Cards
  BY DEF TypeOK, TapDelete, Drawn
<1>2. Cards \in Seq(Doc) /\ Cards[pos] \in Doc
  <2>1. Cards \in Seq(Doc)
    BY <1>1, OnlyDocs DEF Cards
  <2> QED
    BY <1>1, <2>1
<1>3. snapshot[pos].id \in Task /\ Cards[pos].id \in Task
  BY <1>1, <1>2 DEF Doc
<1>4. /\ Grown \in 1 .. MaxColors \cup {1} /\ appColors' = Grown /\ armed' = TRUE
      /\ UNCHANGED <<fresh, stored, snapshot, dialog, cardIndex>>
  BY GrownType DEF TapDelete
<1>5. CASE ~armed
  BY <1>4, <1>5 DEF TapDelete, TypeOK, StoredDeleteIsExact
<1>6. CASE armed
  <2> DEFINE d == snapshot[pos].id
             c == Cards[pos].id
             p == HasPending(snapshot)
  <2>1. /\ outbox' = Append(outbox, [op |-> "delete", id |-> d])
        /\ cache' = Without(cache, d) /\ last' = [card |-> c, doc |-> d, pending |-> p]
    BY <1>6 DEF TapDelete
  <2>2. cache' \in Seq(Doc)
    BY <2>1, OnlyDocs DEF Without, TypeOK
  <2>3. p \in BOOLEAN
    BY DEF HasPending
  <2>4. ~p => c = d
    BY AllAreCards
  <2>5. d \in Task /\ c \in Task
    BY <1>3
  <2> HIDE DEF d, c, p
  <2>6. outbox' \in Seq([op : {"add", "delete"}, id : Task])
    BY <2>1, <2>5 DEF TypeOK
  <2>7. last' \in [card : Task, doc : Task, pending : BOOLEAN]
    BY <2>1, <2>3, <2>5
  <2>8. ~last'.pending => last'.card = last'.doc
    BY <2>1, <2>4
  <2> QED
    BY <1>4, <2>2, <2>6, <2>7, <2>8 DEF TypeOK, StoredDeleteIsExact
<1> QED
  BY <1>5, <1>6 DEF TypeOK

(* Every step keeps the types and the last deletion exact. *)
LEMMA NextBoard ==
  TypeOK /\ StoredDeleteIsExact /\ [Next]_vars => TypeOK' /\ StoredDeleteIsExact'
<1> SUFFICES ASSUME TypeOK, StoredDeleteIsExact, [Next]_vars
             PROVE  TypeOK' /\ StoredDeleteIsExact'
  OBVIOUS
<1>0. Grown \in 1 .. MaxColors \cup {1}
  BY GrownType
<1>1. CASE UNCHANGED vars
  BY <1>1 DEF vars, TypeOK, StoredDeleteIsExact
<1>2. CASE Snapshot \/ PageBuild \/ OpenDialog \/ Cancel \/ Disarm
  <2>1. TypeOK'
    BY <1>0, <1>2 DEF Snapshot, PageBuild, OpenDialog, Cancel, Disarm, TypeOK
  <2>2. last' = last
    BY <1>2 DEF Snapshot, PageBuild, OpenDialog, Cancel, Disarm
  <2> QED
    BY <2>1, <2>2 DEF StoredDeleteIsExact
<1>3. CASE Create
  <2> PICK id \in fresh :
        /\ fresh' = fresh \ {id}
        /\ outbox' = Append(outbox, [op |-> "add", id |-> id])
        /\ cache' = <<[id |-> id, pending |-> TRUE]>> \o cache
    BY <1>3 DEF Create
  <2>1. id \in Task /\ [id |-> id, pending |-> TRUE] \in Doc
    BY DEF TypeOK, Doc
  <2>2. cache' \in Seq(Doc) /\ outbox' \in Seq([op : {"add", "delete"}, id : Task])
    BY <2>1 DEF TypeOK
  <2> QED
    BY <1>0, <1>3, <2>2 DEF Create, TypeOK, StoredDeleteIsExact
<1>4. ASSUME NEW step \in {-1, 1}, Swipe(step) PROVE TypeOK' /\ StoredDeleteIsExact'
  <2>1. cardIndex' \in Nat
    BY <1>4 DEF Swipe, TypeOK
  <2>2. appColors' \in 1 .. MaxColors \cup {1}
    BY <1>0, <1>4 DEF Swipe, TypeOK
  <2> QED
    BY <1>4, <2>1, <2>2 DEF Swipe, TypeOK, StoredDeleteIsExact
<1>5. CASE Commit
  <2> DEFINE w == Head(outbox)
  <2>1. w \in [op : {"add", "delete"}, id : Task] /\ outbox' = Tail(outbox)
    <3>1. /\ outbox \in Seq([op : {"add", "delete"}, id : Task]) /\ outbox # <<>>
          /\ outbox' = Tail(outbox)
      BY <1>5 DEF Commit, TypeOK
    <3> QED
      BY <3>1, TailPlaces
  <2>2. outbox' \in Seq([op : {"add", "delete"}, id : Task])
    BY <1>5, <2>1 DEF Commit, TypeOK
  <2>3. w.id \in Task /\ [id |-> w.id, pending |-> FALSE] \in Doc
    BY <2>1 DEF Doc
  <2>4. cache \in Seq(Doc) /\ cache' \in Seq(Doc)
    <3>1. CASE w.op = "add"
      <4>1. cache' = [k \in 1 .. Len(cache) |-> IF cache[k].id = w.id
                        THEN [id |-> w.id, pending |-> FALSE] ELSE cache[k]]
        BY <1>5, <3>1 DEF Commit, TypeOK
      <4> HIDE DEF w
      <4> QED
        BY <2>3, <4>1 DEF TypeOK
    <3>2. CASE w.op # "add"
      BY <1>5, <3>2 DEF Commit, TypeOK
    <3> QED
      BY <3>1, <3>2
  <2>5. stored' \subseteq Task
    BY <1>5, <2>3 DEF Commit, TypeOK
  <2> QED
    BY <1>5, <2>2, <2>4, <2>5 DEF Commit, TypeOK, StoredDeleteIsExact
<1>6. CASE OtherCreates
  <2> PICK id \in fresh :
        /\ fresh' = fresh \ {id} /\ stored' = stored \cup {id}
        /\ cache' = Only(cache, PendingDoc) \o <<[id |-> id, pending |-> FALSE]>>
                      \o Only(cache, StoredDoc)
    BY <1>6 DEF OtherCreates
  <2>1. id \in Task /\ [id |-> id, pending |-> FALSE] \in Doc
    BY DEF TypeOK, Doc
  <2>2. Only(cache, PendingDoc) \in Seq(Doc) /\ Only(cache, StoredDoc) \in Seq(Doc)
    BY OnlyDocs DEF TypeOK
  <2>3. cache' \in Seq(Doc)
    BY <2>1, <2>2
  <2> QED
    BY <1>6, <2>1, <2>3 DEF OtherCreates, TypeOK, StoredDeleteIsExact
<1>7. CASE OtherDeletes
  <2>1. PICK id \in stored : stored' = stored \ {id} /\ cache' = Without(cache, id)
    BY <1>7 DEF OtherDeletes
  <2>2. cache' \in Seq(Doc)
    BY <2>1, OnlyDocs DEF Without, TypeOK
  <2> QED
    BY <1>7, <2>1, <2>2 DEF OtherDeletes, TypeOK, StoredDeleteIsExact
<1> QED
  BY <1>1, <1>2, <1>3, <1>4, <1>5, <1>6, <1>7, TapType DEF Next

(* The types and the exactness of the last deletion hold at the start. *)
LEMMA InitBoard == Init => TypeOK /\ StoredDeleteIsExact
<1>1. ASSUME Init PROVE TypeOK
  <2>1. /\ fresh \subseteq Task /\ stored \subseteq Task /\ cardIndex \in Nat
        /\ appColors \in 1 .. MaxColors \cup {1}
    BY <1>1 DEF Init
  <2>2. dialog \in BOOLEAN /\ armed \in BOOLEAN
    BY <1>1 DEF Init
  <2>3. /\ outbox \in Seq([op : {"add", "delete"}, id : Task])
        /\ cache \in Seq(Doc) /\ snapshot \in Seq(Doc)
    BY <1>1 DEF Init
  <2> QED
    BY <1>1, <2>1, <2>2, <2>3 DEF Init, TypeOK
<1>2. Init => StoredDeleteIsExact
  BY DEF Init, StoredDeleteIsExact, NoDeletion
<1> QED
  BY <1>1, <1>2

(* Every variable of the task board has its type; above all the index of   *)
(* the card scrolled to, which the swipes move both ways, is a number.     *)
THEOREM BoardTypeCorrect == Spec => []TypeOK
<1>1. TypeOK /\ StoredDeleteIsExact /\ [Next]_vars => (TypeOK /\ StoredDeleteIsExact)'
  BY NextBoard
<1> QED
  BY InitBoard, <1>1, PTL DEF Spec

(* With no task pending, the icon of a card deletes the task on it,        *)
(* however many tasks there are and whoever else creates and deletes.      *)
THEOREM DeletionIsExact == Spec => []StoredDeleteIsExact
<1>1. TypeOK /\ StoredDeleteIsExact /\ [Next]_vars => (TypeOK /\ StoredDeleteIsExact)'
  BY NextBoard
<1> QED
  BY InitBoard, <1>1, PTL DEF Spec
=============================================================================
