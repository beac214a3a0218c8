-------------------------------- MODULE Shell --------------------------------
(***************************************************************************)
(* The pages around the attendance pages put together on one device: login *)
(* and home page, receipts, and the list of people.  They share the        *)
(* account, the routes and the database; uploads go on across logins.      *)
(***************************************************************************)
EXTENDS Session, Receipt, People

vars == <<phone, session, receipt>>

Init == SessionInit /\ ReceiptInit

(* A step of the session leaves uploads alone; what is expected of the     *)
(* account's photo ends with the account.                                  *)
SessionStep ==
  /\ SessionNext
  /\ expected' = IF user' = user THEN expected ELSE None
  /\ UNCHANGED <<uploads, urls, objects>>

ReceiptStep == ReceiptNext /\ UNCHANGED session

PeopleStep == PeopleNext /\ UNCHANGED <<session, receipt>>

(* Uploads under way die with the process. *)
Kill ==
  /\ AppKill
  /\ uploads' = <<>> /\ urls' = <<>> /\ expected' = None
  /\ UNCHANGED objects

Next == SessionStep \/ ReceiptStep \/ PeopleStep \/ Kill

Spec == Init /\ [][Next]_vars

Uploading == \E i \in DOMAIN uploads : UploadDone(i) /\ UNCHANGED session
Sending == \E i \in DOMAIN urls : SendImage(i) /\ UNCHANGED session
Committing == CommitWrite /\ UNCHANGED <<session, receipt>>

(* Uploads end, the plugin answers and the server is reached in the end;   *)
(* the user does as he pleases.                                            *)
FairSpec ==
  Spec /\ WF_vars(Uploading) /\ WF_vars(Sending) /\ WF_vars(Committing)

-----------------------------------------------------------------------------
(* Every variable has its type. *)
TypeOK == SessionTypeOK /\ ReceiptTypeOK /\ PeopleTypeOK

(* Everybody on the list of people, with a profile or only a photo at the  *)
(* server, has an account that can log in.                                 *)
ListedHaveAccounts ==
  /\ \A u \in User : HasNode(u) => u \in accounts
  /\ \A k \in Lists : stack[k].back \subseteq accounts
=============================================================================
