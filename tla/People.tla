------------------------------- MODULE People -------------------------------
(***************************************************************************)
(* The list of people (lib/ui/choicechat.dart): the nodes under users/,    *)
(* read once when the page opens, and the search field, which narrows the  *)
(* list as it stands and takes it back to the whole only when emptied.     *)
(***************************************************************************)
EXTENDS Phone

CONSTANTS NoText,    \* the empty text
          Query,     \* texts of the search field, NoText among them
          Matches,   \* the accounts whose name contains each text
          Extends    \* pairs of texts the second of which contains the first

ASSUME PeopleAssumption ==
  /\ NoText \in Query
  /\ Matches \in [Query -> SUBSET User] /\ Matches[NoText] = User
  /\ Extends \subseteq Query \X Query
  /\ \A e \in Extends : Matches[e[2]] \subseteq Matches[e[1]]

(* loaded: the answer has come.  back and list: listdataback, listdata.    *)
(* grown is history: since the list was whole the query has only grown.    *)
People == [kind |-> "people", loaded |-> FALSE, back |-> {}, list |-> {},
           query |-> NoText, grown |-> TRUE]

Lists == {k \in DOMAIN stack : stack[k].kind = "people"}

OpenPeople ==
  /\ OnHome
  /\ Push(People)
  /\ UNCHANGED <<user, outbox, server>>

(* once() on users/ answers: everybody, whatever is in the search field;   *)
(* with no node at all the null fails.                                     *)
Load(k) ==
  /\ ~stack[k].loaded
  /\ LET all == {u \in User : HasNode(u)}
     IN  stack' = [stack EXCEPT ![k].loaded = TRUE, ![k].back = all, ![k].list = all,
                                ![k].grown = stack[k].query = NoText]
  /\ UNCHANGED <<user, outbox, server>>

Filtered_NoRestore(p, q) == p.list \cap Matches[q]

(* fillout: the list after the search text has become q.  A node without a *)
(* name makes the loop fail.                                               *)
Filtered(p, q) ==
  IF q = NoText THEN p.back
  ELSE IF \E u \in p.list : ~Named(u) THEN p.list
  ELSE p.list \cap Matches[q]

Fillout(q) ==
  /\ OnTop("people")
  /\ LET p == Last(stack)
     IN  /\ q # p.query
         /\ stack' = Append(Front(stack),
              [p EXCEPT !.query = q, !.list = Filtered(p, q),
                        !.grown = \/ q = NoText
                                  \/ @ /\ p.loaded /\ <<p.query, q>> \in Extends
                                       /\ \A u \in p.list : Named(u)])
  /\ UNCHANGED <<user, outbox, server>>

PeopleNext ==
  \/ OpenPeople
  \/ \E k \in Lists : Load(k)
  \/ \E q \in Query : Fillout(q)

-----------------------------------------------------------------------------
PeopleTypeOK ==
  \A k \in Lists : /\ stack[k].loaded \in BOOLEAN /\ stack[k].grown \in BOOLEAN
                   /\ stack[k].back \subseteq User /\ stack[k].list \subseteq stack[k].back
                   /\ stack[k].query \in Query

(* A search that has only been extended since the list was whole shows     *)
(* exactly the people whose name contains its text, and an emptied one     *)
(* shows everybody again.  A shortened text, or one typed before the list  *)
(* arrives, does not.                                                      *)
SearchIsExact ==
  \A k \in Lists :
    stack[k].grown => stack[k].list = stack[k].back \cap Matches[stack[k].query]
=============================================================================
