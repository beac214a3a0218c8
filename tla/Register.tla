------------------------------ MODULE Register ------------------------------
(***************************************************************************)
(* What the attendance half of the application promises to whoever reads   *)
(* the local table later (the list page and the monthly export): a book of *)
(* working days.  The book only grows, no entry is written without a       *)
(* clock-in time, and a later correction of an entry carries both times    *)
(* and never moves the entry to an earlier day or to a day that has not    *)
(* come yet.  Attendance implements this specification.                    *)
(***************************************************************************)
EXTENDS Integers, Sequences

CONSTANTS NoTime,        \* the empty string a time starts with
          Time           \* the texts a clock time can have

VARIABLES today,         \* the calendar day
          book           \* the entries, in the order of their ids

rvars == <<today, book>>

Entry == [day : Nat, in : Time, out : Time \cup {NoTime}]

Init == today \in Nat /\ book = <<>>

(* Time passes; several midnights may go by unnoticed. *)
NewDay == today' \in Nat /\ today' >= today /\ UNCHANGED book

(* A clock-in: a new entry at the end of the book, not dated in the future. *)
Add == /\ Len(book') = Len(book) + 1
       /\ LET e == book'[Len(book) + 1]
          IN  /\ e \in Entry
              /\ e.day <= today
              /\ book' = Append(book, e)
       /\ UNCHANGED today

(* A clock-out: one entry is overwritten, with both times. *)
Amend == \E i \in DOMAIN book :
           /\ DOMAIN book' = DOMAIN book
           /\ LET e == book'[i]
              IN  /\ e \in Entry
                  /\ e.out # NoTime
                  /\ book[i].day <= e.day
                  /\ e.day <= today
                  /\ book' = [book EXCEPT ![i] = e]
           /\ UNCHANGED today

Next == NewDay \/ Add \/ Amend

Spec == Init /\ [][Next]_rvars
=============================================================================
