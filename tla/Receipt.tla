------------------------------- MODULE Receipt -------------------------------
(***************************************************************************)
(* The receipt page (lib/ui/receiptphoto.dart).  An image is chosen,       *)
(* stored under the last part of its path in one folder for everybody, and *)
(* its URL written to the account that is signed in once the upload has    *)
(* ended.  Uploads overlap and end in any order, with or without the page. *)
(***************************************************************************)
EXTENDS Phone

CONSTANTS File,        \* images that can be chosen
          BaseName,    \* the last part of the path of each
          MaxUpload    \* bound: uploads and writes under way at a submit

ASSUME ReceiptAssumption ==
  None \notin File /\ BaseName \in [File -> Name] /\ MaxUpload \in Nat

VARIABLES uploads,     \* images being stored
          urls,        \* URLs waiting for the current user
          objects,     \* what the storage has, by name
          expected     \* history: the image the account has last submitted,
                       \* if its earlier ones had been sent by then

receipt == <<uploads, urls, objects, expected>>

Receipt(f) == [kind |-> "receipt", image |-> f]

ReceiptInit ==
  /\ uploads = <<>> /\ urls = <<>>
  /\ objects = [n \in Name |-> None] /\ expected = None

OpenReceipt ==
  /\ OnHome
  /\ Push(Receipt(None))
  /\ UNCHANGED <<user, outbox, server, receipt>>

(* Photos or Camera; None when the user cancels. *)
CaptureImage(f) ==
  /\ OnTop("receipt")
  /\ stack' = Append(Front(stack), Receipt(f))
  /\ UNCHANGED <<user, outbox, server, receipt>>

Submit_SendFirst ==
  /\ OnTop("receipt") /\ Len(uploads \o urls \o outbox) < MaxUpload
  /\ LET f == Last(stack).image
     IN  /\ f # None
         /\ uploads' = Append(uploads, f)
         /\ urls' = Append(urls, BaseName[f])
         /\ expected' = IF uploads = <<>> /\ urls = <<>> /\ user # NoUser THEN f ELSE None
  /\ UNCHANGED <<phone, objects>>

Submit_NullImage ==
  /\ OnTop("receipt") /\ Len(uploads \o urls \o outbox) < MaxUpload
  /\ uploads' = Append(uploads, Last(stack).image)
  /\ expected' = IF uploads = <<>> /\ urls = <<>> /\ user # NoUser
                 THEN Last(stack).image ELSE None
  /\ UNCHANGED <<phone, urls, objects>>

(* Submit: without an image the handler fails on the null. *)
Submit ==
  /\ OnTop("receipt") /\ Len(uploads \o urls \o outbox) < MaxUpload
  /\ LET f == Last(stack).image
     IN  /\ f # None
         /\ uploads' = Append(uploads, f)
         /\ expected' = IF uploads = <<>> /\ urls = <<>> /\ user # NoUser THEN f ELSE None
  /\ UNCHANGED <<phone, urls, objects>>

UploadDone_KeepsFirst(i) ==
  /\ objects' = [objects EXCEPT ![BaseName[uploads[i]]] = IF @ = None THEN uploads[i] ELSE @]
  /\ urls' = Append(urls, BaseName[uploads[i]])
  /\ uploads' = RemoveAt(uploads, i)
  /\ UNCHANGED <<phone, expected>>

(* onComplete, and the object's URL is asked for. *)
UploadDone(i) ==
  /\ objects' = [objects EXCEPT ![BaseName[uploads[i]]] = uploads[i]]
  /\ urls' = Append(urls, BaseName[uploads[i]])
  /\ uploads' = RemoveAt(uploads, i)
  /\ UNCHANGED <<phone, expected>>

SendImage_IfOpen(i) ==
  /\ outbox' = IF user = NoUser \/ ~OnTop("receipt") THEN outbox
               ELSE Append(outbox, SetPhoto(user, urls[i]))
  /\ urls' = RemoveAt(urls, i)
  /\ UNCHANGED <<user, stack, server, uploads, objects, expected>>

(* sendimageDatabase: the photo of the current user; a null one fails. *)
SendImage(i) ==
  /\ outbox' = IF user = NoUser THEN outbox ELSE Append(outbox, SetPhoto(user, urls[i]))
  /\ urls' = RemoveAt(urls, i)
  /\ UNCHANGED <<user, stack, server, uploads, objects, expected>>

ReceiptNext ==
  \/ OpenReceipt \/ Submit
  \/ \E f \in File \cup {None} : CaptureImage(f)
  \/ \E i \in DOMAIN uploads : UploadDone(i)
  \/ \E i \in DOMAIN urls : SendImage(i)

-----------------------------------------------------------------------------
ReceiptTypeOK ==
  /\ uploads \in Seq(File) /\ urls \in Seq(Name)
  /\ objects \in [Name -> File \cup {None}] /\ expected \in File \cup {None}
  /\ \A k \in DOMAIN stack :
       stack[k].kind = "receipt" => stack[k].image \in File \cup {None}

(* No account's photo, stored or on its way, is the URL of an object that  *)
(* is not there.                                                           *)
NoDangling ==
  \A n \in Name :
    \/ \E u \in User : server[u].photo = n
    \/ \E w \in Range(outbox) : w.photo = n
    => objects[n] # None

PhotoIs(u, f) == server[u].photo # None /\ objects[server[u].photo] = f

(* When nothing is under way, the photo of an account that submitted one   *)
(* image after the other is the last of them, even if they have the same   *)
(* name or the page was left meanwhile.                                    *)
PhotoIsLast ==
  expected # None /\ uploads = <<>> /\ urls = <<>> /\ outbox = <<>> =>
    PhotoIs(user, expected)

(* And its URL gets there, whatever page the user is on by then. *)
PhotoArrives ==
  \A n \in Name :
    (expected # None /\ BaseName[expected] = n)
      ~> (expected = None \/ BaseName[expected] # n \/ server[user].photo = n)
=============================================================================
