------------------------------ MODULE Catalogue ------------------------------
(***************************************************************************)
(* The branches, a car kept at one of them, and the requests made for the  *)
(* car, which keep the branch it had.  A branch may be deleted as long as  *)
(* nothing refers to it: the handler counts and then deletes, while a car  *)
(* is saved, or a request made, after its branch was looked up.            *)
(*                                                                         *)
(* Who may do what, what a branch and a car are said to be, and the audit  *)
(* entries are left out.  No request is deleted.                           *)
(***************************************************************************)
EXTENDS Requests

CONSTANT Branches

VARIABLES
  branch,      \* status of each branch: NONE before it is made, then GONE
  car,         \* the branch of the car, None before it is made
  asked        \* the branches requests refer to

catalogueVars == <<branch, car, asked, request>>

Status == {"DRAFT", "ACTIVE", "INACTIVE"}

CatalogueInit ==
  /\ branch \in [Branches -> {"NONE", "ACTIVE"}]
  /\ car = None /\ asked = {}
  /\ RequestInit

Exists(b) == branch[b] \in Status

SetBranch(b, status) ==
  /\ branch' = [branch EXCEPT ![b] = status]
  /\ UNCHANGED <<car, asked, request>>

CreateBranch(b, status) == branch[b] = "NONE" /\ SetBranch(b, status)

\* The form holds a status too.
UpdateBranch(b, status) == Exists(b) /\ SetBranch(b, status)

DisableBranch(b) == Exists(b) /\ SetBranch(b, "INACTIVE")
-----------------------------------------------------------------------------
(* What the database itself refuses.                                       *)

ReferredTo(b) == car = b \/ b \in asked

\* A branch that is referred to stays.  (Slip: nothing is looked at.)
DeletableAlways(b) == TRUE

Deletable(b) == ~ReferredTo(b)

\* A row refers to a branch that is there.  (Slip: to whatever was read.)
ReferableAlways(b) == TRUE

Referable(b) == Exists(b)
-----------------------------------------------------------------------------
(* Handlers that read and then write.                                      *)

Read(h, op, b) ==
  /\ Begin(h, [op |-> op, branch |-> b])
  /\ UNCHANGED <<branch, car, asked>>

BeginDelete(h, b) ==
  /\ Exists(b) /\ ~ReferredTo(b)
  /\ Read(h, "DELETE", b)

CommitDelete(h) ==
  LET b == request[h].branch IN
  /\ request[h].op = "DELETE"
  /\ Exists(b) /\ Deletable(b)
  /\ branch' = [branch EXCEPT ![b] = "GONE"]
  /\ Finish(h)
  /\ UNCHANGED <<car, asked>>

\* The car is made, or moved to another branch.
BeginSaveCar(h, b) ==
  /\ branch[b] = "ACTIVE"
  /\ Read(h, "CAR", b)

CommitSaveCar(h) ==
  LET b == request[h].branch IN
  /\ request[h].op = "CAR" /\ Referable(b)
  /\ car' = b
  /\ Finish(h)
  /\ UNCHANGED <<branch, asked>>

\* A request is made for the car whatever became of its branch.
BeginRequest(h) ==
  /\ car # None
  /\ Read(h, "REQUEST", car)

CommitRequest(h) ==
  LET b == request[h].branch IN
  /\ request[h].op = "REQUEST" /\ Referable(b)
  /\ asked' = asked \cup {b}
  /\ Finish(h)
  /\ UNCHANGED <<branch, car>>

\* Refused by the database, or stopped.
WriteRefused(h) ==
  /\ request[h] # NoRequest /\ Finish(h)
  /\ UNCHANGED <<branch, car, asked>>

CatalogueNext ==
  \/ \E b \in Branches :
       \/ DisableBranch(b)
       \/ \E s \in Status : CreateBranch(b, s) \/ UpdateBranch(b, s)
       \/ \E h \in Handlers : BeginDelete(h, b) \/ BeginSaveCar(h, b)
  \/ \E h \in Handlers :
       \/ CommitDelete(h) \/ CommitSaveCar(h) \/ WriteRefused(h)
       \/ BeginRequest(h) \/ CommitRequest(h)

CatalogueSpec == CatalogueInit /\ [][CatalogueNext]_catalogueVars
-----------------------------------------------------------------------------
CatalogueTypeOK ==
  /\ branch \in [Branches -> Status \cup {"NONE", "GONE"}]
  /\ car \in Branches \cup {None}
  /\ asked \subseteq Branches

(***************************************************************************)
(* Whatever the deletion of a branch overlaps with, the branch of the car, *)
(* and that of every request, is there.                                    *)
(***************************************************************************)
CarsHaveBranches ==
  /\ car # None => Exists(car)
  /\ \A b \in asked : Exists(b)
=============================================================================
