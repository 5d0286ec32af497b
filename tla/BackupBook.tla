------------------------------ MODULE BackupBook ------------------------------
(***************************************************************************)
(* What the backup promises for one target, without processes, locks,      *)
(* requests or leases: copies of a day are put into the bucket until one   *)
(* is entered in the book, and that one stays.  The run of a date owes     *)
(* every day that has documents when it begins, may begin again until it   *)
(* succeeds, and succeeds only when all that it owes is in the book.       *)
(***************************************************************************)
EXTENDS Naturals

CONSTANT Dates

VARIABLES
    docs,      \* documents of a day
    copy,      \* documents in the newest copy of a day, 0 without one
    book,      \* documents of a day according to the book, 0 while not entered
    status,    \* of the run of a date
    owed       \* days that this run owes

bookVars == <<docs, copy, book, status, owed>>

BookInit ==
    /\ docs = [d \in Dates |-> 0]
    /\ copy = [d \in Dates |-> 0]
    /\ book = [d \in Dates |-> 0]
    /\ status = [t \in Dates |-> "none"]
    /\ owed = [t \in Dates |-> {}]

Arrive(d) ==
    /\ docs' = [docs EXCEPT ![d] = @ + 1]
    /\ UNCHANGED <<copy, book, status, owed>>

\* No copy holds more than there is, and none replaces the one in the book.
Put(d) ==
    /\ book[d] = 0
    /\ \E n \in 1..docs[d] : copy' = [copy EXCEPT ![d] = n]
    /\ UNCHANGED <<docs, book, status, owed>>

Enter(d) ==
    /\ book[d] = 0 /\ copy[d] > 0
    /\ book' = [book EXCEPT ![d] = copy[d]]
    /\ UNCHANGED <<docs, copy, status, owed>>

Begin(t) ==
    /\ status[t] # "success"
    /\ status' = [status EXCEPT ![t] = "running"]
    /\ owed' = [owed EXCEPT ![t] = {d \in 1..t : docs[d] > 0}]
    /\ UNCHANGED <<docs, copy, book>>

Fail(t) ==
    /\ status[t] = "running"
    /\ status' = [status EXCEPT ![t] = "failed"]
    /\ UNCHANGED <<docs, copy, book, owed>>

Succeed(t) ==
    /\ status[t] = "running"
    /\ \A d \in owed[t] : book[d] > 0
    /\ status' = [status EXCEPT ![t] = "success"]
    /\ UNCHANGED <<docs, copy, book, owed>>

BookNext ==
    \E d \in Dates : Arrive(d) \/ Put(d) \/ Enter(d) \/ Begin(d) \/ Fail(d) \/ Succeed(d)

BookSpec == BookInit /\ [][BookNext]_bookVars
=============================================================================
