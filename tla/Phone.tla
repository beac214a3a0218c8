-------------------------------- MODULE Phone --------------------------------
(***************************************************************************)
(* What the pages of one device share: the account Firebase Auth holds,    *)
(* the routes above the login page (the first route, which never goes),    *)
(* and the Realtime Database with the writes on their way to it.  Writes   *)
(* arrive in order; they are kept in memory only, as the application never *)
(* turns persistence on.                                                   *)
(***************************************************************************)
EXTENDS Integers, Sequences, SequencesExt

CONSTANTS User,      \* accounts
          NoUser,    \* a null current user
          Name,      \* names of stored images
          None,      \* nothing there
          MaxPages   \* bound: routes above which the user opens no more

ASSUME PhoneAssumption ==
  NoUser \notin User /\ None \notin Name /\ MaxPages \in Nat

VARIABLES user,      \* FirebaseAuth.instance.currentUser()
          stack,     \* the routes above the login page, the last one on top
          outbox,    \* writes to users/... on their way
          server     \* users/uid of each account, as the server has it

phone == <<user, stack, outbox, server>>

(* A node users/uid: the profile signUp writes, and the field 'photo'. *)
Node == [named : BOOLEAN, photo : Name \cup {None}]
NoNode == [named |-> FALSE, photo |-> None]

(* set replaces the node, with an empty photo; update sets the photo. *)
Write == [to : User, set : BOOLEAN, photo : Name \cup {None}]
SetProfile(u) == [to |-> u, set |-> TRUE, photo |-> None]
SetPhoto(u, n) == [to |-> u, set |-> FALSE, photo |-> n]

Written(node, w) ==
  IF w.set THEN [named |-> TRUE, photo |-> None] ELSE [node EXCEPT !.photo = w.photo]

(* A read on the device sees its own writes before the server does. *)
Named(u) == server[u].named \/ \E w \in Range(outbox) : w.to = u /\ w.set
HasNode(u) == server[u] # NoNode \/ \E w \in Range(outbox) : w.to = u

OnLogin == stack = <<>>
OnTop(kind) == stack # <<>> /\ Last(stack).kind = kind
OnHome == OnTop("home") /\ Len(stack) < MaxPages

Push(p) == stack' = Append(stack, p)

(* The back button, or 完了 of the dialog, which is then on top.  What the  *)
(* page waits for goes with it: its setState finds no page.                *)
Back ==
  /\ stack # <<>>
  /\ stack' = Front(stack)
  /\ UNCHANGED <<user, outbox, server>>

(* The server applies the next write. *)
CommitWrite ==
  /\ outbox # <<>>
  /\ LET w == Head(outbox)
     IN  server' = [server EXCEPT ![w.to] = Written(@, w)]
  /\ outbox' = Tail(outbox)
  /\ UNCHANGED <<user, stack>>
=============================================================================
