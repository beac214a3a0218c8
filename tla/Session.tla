------------------------------- MODULE Session -------------------------------
(***************************************************************************)
(* Login and registration (lib/ui/login_page.dart,                         *)
(* lib/services/authentication.dart), the home page's read of the profile  *)
(* (lib/ui/homepage.dart) and the sign-out of the chat page.               *)
(*                                                                         *)
(* Neither button is disabled while its request is under way, and the      *)
(* requests of several presses are answered in any order.  A registration  *)
(* also signs the new account in.  Every page asks for the current user    *)
(* when it needs it, one message later.                                    *)
(***************************************************************************)
EXTENDS Phone

CONSTANTS Founder,     \* accounts that exist from the beginning
          MaxRequest   \* bound: requests under way

ASSUME SessionAssumption ==
  Founder \subseteq User /\ MaxRequest \in Nat

VARIABLES accounts,    \* accounts that exist at Firebase Auth
          requests,    \* how many of each login and registration are under way
          mailing,     \* new accounts whose verification mail is due
          lost,        \* history: accounts whose profile died with the process
          calm         \* history: the last press came with nothing under way

session == <<accounts, requests, mailing, lost, calm>>

Home == [kind |-> "home", at |-> "asking", who |-> NoUser]
Dialog == [kind |-> "dialog"]

(* A login or a registration, and the account it is for. *)
Request == [op : {"in", "up"}, who : User]

Pending(r) == requests[r] > 0
Made(r) == [requests EXCEPT ![r] = @ + 1]
Answered(r) == [requests EXCEPT ![r] = @ - 1]
Free == MapThenSumSet(LAMBDA r : requests[r], Request) < MaxRequest

Homes == {k \in DOMAIN stack : stack[k].kind = "home"}

UnderWay ==
  \/ \E r \in Request : Pending(r)
  \/ mailing # <<>>
  \/ \E k \in Homes : stack[k].at \in {"asking", "reading"}

-----------------------------------------------------------------------------
SessionInit ==
  /\ user = NoUser /\ stack = <<>> /\ outbox = <<>>
  /\ server = [u \in User |-> [named |-> u \in Founder, photo |-> None]]
  /\ accounts = Founder /\ requests = [r \in Request |-> 0] /\ mailing = <<>>
  /\ lost = {} /\ calm = TRUE

Login_NotAwaited(u) ==
  /\ OnLogin /\ Free
  /\ requests' = Made([op |-> "in", who |-> u])
  /\ Push(Home)
  /\ calm' = ~UnderWay
  /\ UNCHANGED <<user, outbox, server, accounts, mailing, lost>>

(* ログイン: the form is not validated; signIn is awaited. *)
Login(u) ==
  /\ OnLogin /\ Free
  /\ requests' = Made([op |-> "in", who |-> u])
  /\ calm' = ~UnderWay
  /\ UNCHANGED <<phone, accounts, mailing, lost>>

Register_WriteFirst(u) ==
  /\ OnLogin /\ Free
  /\ requests' = Made([op |-> "up", who |-> u])
  /\ outbox' = Append(outbox, SetProfile(u))
  /\ calm' = ~UnderWay
  /\ UNCHANGED <<user, stack, server, accounts, mailing, lost>>

(* 登録: the validators belong to the fields of the other form. *)
Register(u) ==
  /\ OnLogin /\ Free
  /\ requests' = Made([op |-> "up", who |-> u])
  /\ calm' = ~UnderWay
  /\ UNCHANGED <<phone, accounts, mailing, lost>>

(* No account, one that is there already, a wrong password or no network:  *)
(* the await throws, which nobody catches.                                 *)
RequestFails(r) ==
  /\ Pending(r)
  /\ requests' = Answered(r)
  /\ UNCHANGED <<phone, accounts, mailing, lost, calm>>

(* The account is signed in, and the home page pushed on whatever is there *)
(* by now; it asks for the current user.                                   *)
SignInAnswer(r) ==
  /\ Pending(r) /\ r.op = "in" /\ r.who \in accounts
  /\ user' = r.who
  /\ Push(Home)
  /\ requests' = Answered(r)
  /\ UNCHANGED <<outbox, server, accounts, mailing, lost, calm>>

SignUpAnswer_ProfileOfCaller(r) ==
  /\ Pending(r) /\ r.op = "up" /\ r.who \notin accounts
  /\ accounts' = accounts \cup {r.who}
  /\ user' = r.who
  /\ outbox' = IF user = NoUser THEN outbox ELSE Append(outbox, SetProfile(user))
  /\ Push(Dialog)
  /\ mailing' = Append(mailing, r.who)
  /\ requests' = Answered(r)
  /\ UNCHANGED <<server, lost, calm>>

SignUpAnswer_SignsOut(r) ==
  /\ Pending(r) /\ r.op = "up" /\ r.who \notin accounts
  /\ accounts' = accounts \cup {r.who}
  /\ user' = NoUser
  /\ outbox' = Append(outbox, SetProfile(r.who))
  /\ Push(Dialog)
  /\ mailing' = Append(mailing, r.who)
  /\ requests' = Answered(r)
  /\ UNCHANGED <<server, lost, calm>>

(* The account is created and signed in; its profile is written, awaited   *)
(* by nobody; the dialog is shown, and the mail asked for, which first     *)
(* asks for the current user.                                              *)
SignUpAnswer(r) ==
  /\ Pending(r) /\ r.op = "up" /\ r.who \notin accounts
  /\ accounts' = accounts \cup {r.who}
  /\ user' = r.who
  /\ outbox' = Append(outbox, SetProfile(r.who))
  /\ Push(Dialog)
  /\ mailing' = Append(mailing, r.who)
  /\ requests' = Answered(r)
  /\ UNCHANGED <<server, lost, calm>>

(* sendEmailVerification: the mail goes to the current user, if any. *)
SendMail ==
  /\ mailing # <<>>
  /\ mailing' = Tail(mailing)
  /\ UNCHANGED <<phone, accounts, requests, lost, calm>>

(* ホーム in the drawer: another home page. *)
OpenHome ==
  /\ OnHome
  /\ Push(Home)
  /\ UNCHANGED <<user, outbox, server, session>>

(* fetchnickname: the current user arrives; a null one fails. *)
AskUser(k) ==
  /\ stack[k].at = "asking"
  /\ stack' = [stack EXCEPT
       ![k].at = IF user = NoUser THEN "blank" ELSE "reading", ![k].who = user]
  /\ UNCHANGED <<user, outbox, server, session>>

(* The profile arrives; a missing node fails and the page stays as it is,  *)
(* one without a profile shows nulls.                                      *)
ReadProfile(k) ==
  /\ stack[k].at = "reading"
  /\ stack' = [stack EXCEPT ![k].at = IF Named(stack[k].who) THEN "shown" ELSE "blank"]
  /\ UNCHANGED <<user, outbox, server, session>>

CloseChat_OnePop ==
  /\ OnTop("people") /\ user # NoUser /\ \E u \in Last(stack).list : Named(u)
  /\ user' = NoUser /\ stack' = Front(stack)
  /\ UNCHANGED <<outbox, server, session>>

(* The close button of a chat with somebody on the list of people.  With   *)
(* no user, or no profile of that somebody, the chat fails to build.       *)
CloseChat ==
  /\ OnTop("people") /\ user # NoUser /\ \E u \in Last(stack).list : Named(u)
  /\ user' = NoUser /\ stack' = <<>>
  /\ UNCHANGED <<outbox, server, session>>

AskedFor(op) == {u \in User : Pending([op |-> op, who |-> u])}

(* The process dies: a registration under way may still create its         *)
(* account, and any request may already have signed its account in at the  *)
(* platform.  The application starts at the login page.                    *)
AppKill ==
  /\ \E made \in SUBSET AskedFor("up") :
       /\ accounts' = accounts \cup made
       /\ user' \in {user} \cup made \cup (AskedFor("in") \cap accounts)
  /\ lost' = {u \in accounts' : ~server[u].named}
  /\ stack' = <<>> /\ outbox' = <<>> /\ mailing' = <<>>
  /\ requests' = [r \in Request |-> 0]
  /\ calm' = TRUE
  /\ UNCHANGED server

SessionNext ==
  \/ \E u \in User : Login(u)
  \/ \E u \in User \ Founder : Register(u)
  \/ \E r \in Request : RequestFails(r) \/ SignInAnswer(r) \/ SignUpAnswer(r)
  \/ SendMail \/ OpenHome
  \/ \E k \in Homes : AskUser(k) \/ ReadProfile(k)
  \/ CloseChat
  \/ (Back \/ CommitWrite) /\ UNCHANGED session

-----------------------------------------------------------------------------
(* Only accounts that exist are signed in, asked about or mailed. *)
SessionTypeOK ==
  /\ accounts \subseteq User /\ user \in accounts \cup {NoUser}
  /\ requests \in [Request -> Nat] /\ mailing \in Seq(accounts)
  /\ lost \subseteq accounts /\ calm \in BOOLEAN
  /\ outbox \in Seq(Write) /\ server \in [User -> Node]
  /\ \A k \in Homes : /\ stack[k].at \in {"asking", "reading", "shown", "blank"}
                      /\ stack[k].who \in accounts \cup {NoUser}

(* If the last press came with nothing under way, every home page is about *)
(* the account that is signed in.  A registration answered while a login   *)
(* is under way, or the reverse, leaves a page of the other account.       *)
HomeIsCurrent ==
  calm => \A k \in Homes : stack[k].who # NoUser => stack[k].who = user

(* Then there is also no home page, and no page above one, of nobody.      *)
(* After two presses the second answer can come after a sign-out and bring *)
(* the account back.                                                       *)
HomeNeedsUser ==
  calm /\ Homes # {} => user # NoUser

(* Then the verification mail of a registration goes to the new account.   *)
MailIsForNew ==
  calm /\ mailing # <<>> => user = Head(mailing)

(* A new account gets its profile, unless the process dies first. *)
ProfileArrives ==
  \A u \in User \ Founder : u \in accounts ~> (server[u].named \/ u \in lost)
=============================================================================
