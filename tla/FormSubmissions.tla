-------------------------- MODULE FormSubmissions --------------------------
(***************************************************************************)
(* The submissions of a school's public form: stored with their photograph *)
(* by anonymous visitors, approved into students or rejected by            *)
(* administrators (public_forms.py).                                       *)
(*                                                                         *)
(* A review locks the submission before it looks at its status; the        *)
(* student is inserted by a flush, which takes the student's unique key    *)
(* until the transaction ends; the bucket knows no transaction.            *)
(*                                                                         *)
(* Abstracted: Key stands for the two unique keys of a student, the        *)
(* admission number and the roll number in a section.  Which fields a form *)
(* asks for, and whether a submission satisfies them, is left open.  Later *)
(* changes of a student are left out: it keeps its key and its photograph. *)
(***************************************************************************)
EXTENDS Naturals

CONSTANTS
    Subs,           \* submission ids, uuid4
    Keys,
    None,           \* no submission, photograph, student or request
    Requests,
    MaxObjects,     \* bound: objects ever stored
    MaxWork         \* bound: requests ever begun

VARIABLES
    sub,        \* public_form_submissions
    student,    \* per key the student that has it
    claim,      \* per key the transaction that inserts a student with it
    lock,       \* per submission the transaction that holds its row
    store,      \* the objects in the bucket, numbered
    fresh,      \* number of the last object stored
    req,
    work,
    lost,       \* history: objects deleted after the commit that uses them
    faults      \* history: a failed deletion, a failed refresh, a crash

vars == <<sub, student, claim, lock, store, fresh, req, work, lost, faults>>

Objects == 1 .. MaxObjects
Photos == Objects \cup {None}
Pending == [status: {"pending"}, key: Keys, photo: Photos, student: {None}]
Approved == [status: {"approved"}, key: Keys, photo: {None}, student: Keys]
Rejected == [status: {"rejected"}, key: Keys, photo: {None}, student: {None}]
Sub == Pending \cup Approved \cup Rejected
\* from: the submission it was approved from, None for every other way.
Student == [from: Subs \cup {None}, photo: Photos]
\* photo: the object this request has stored; temp: the one to delete at its end.
Request == [pc: {"put", "save", "lock", "check", "flush", "promote", "commit", "refresh",
                 "reject", "clean"},
            sub: Subs, key: Keys, wants: BOOLEAN, approve: BOOLEAN,
            photo: Photos, temp: Photos]

FormsAssumption ==
    /\ None \notin Subs \cup Requests \cup Nat \cup Sub \cup Student \cup Request
    /\ MaxObjects \in Nat /\ MaxWork \in Nat

At(r, pc) == req[r] # None /\ req[r].pc = pc
To(r, pc) == req' = [req EXCEPT ![r].pc = pc]
\* The transaction ends: its locks and its key are free.
Release(r) ==
    /\ lock' = [s \in Subs |-> IF lock[s] = r THEN None ELSE lock[s]]
    /\ claim' = [k \in Keys |-> IF claim[k] = r THEN None ELSE claim[k]]
End(r) == req' = [req EXCEPT ![r] = None]
Begin(r) == req[r] = None /\ work < MaxWork /\ work' = work + 1

\* Deleting an object; a failure is logged.
Delete(o) ==
    \/ store' = store \ {o} /\ UNCHANGED faults
    \/ o # None /\ UNCHANGED store /\ faults' = faults \cup {"cleanup"}

(***************************************************************************)
(* submit_public_form.                                                     *)
(***************************************************************************)
Fresh(s) == sub[s] = None /\ \A r \in Requests : req[r] # None => req[r].sub # s

\* The form is open, and the submission valid for it.
SubmitLoad(r) ==
    /\ Begin(r)
    /\ \E s \in Subs, k \in Keys, photo \in BOOLEAN :
        /\ Fresh(s)
        /\ req' = [req EXCEPT ![r] = [pc |-> IF photo THEN "put" ELSE "save", sub |-> s,
               key |-> k, wants |-> photo, approve |-> FALSE, photo |-> None, temp |-> None]]
    /\ UNCHANGED <<sub, student, claim, lock, store, fresh, lost, faults>>

\* A new object under a name never used before, or a failure that leaves none.
Stored(r, next) ==
    /\ fresh < MaxObjects
    /\ fresh' = fresh + 1
    /\ store' = store \cup {fresh + 1}
    /\ req' = [req EXCEPT ![r].photo = fresh + 1, ![r].pc = next]

SubmitPut(r) ==
    /\ At(r, "put")
    /\ Stored(r, "save")
    /\ UNCHANGED <<sub, student, claim, lock, work, lost, faults>>

SubmitPutFails(r) ==
    /\ At(r, "put")
    /\ End(r)
    /\ UNCHANGED <<sub, student, claim, lock, store, fresh, work, lost, faults>>

SubmitCommit(r) ==
    /\ At(r, "save")
    /\ sub' = [sub EXCEPT ![req[r].sub] = [status |-> "pending", key |-> req[r].key,
                   photo |-> req[r].photo, student |-> None]]
    /\ End(r)
    /\ UNCHANGED <<student, claim, lock, store, fresh, work, lost, faults>>

\* Mutant: the photograph is kept.
SubmitFails_Kept(r) ==
    /\ At(r, "save")
    /\ End(r)
    /\ UNCHANGED <<sub, student, claim, lock, store, fresh, work, lost, faults>>
\* Rollback; the photograph is deleted.
SubmitFails(r) ==
    /\ At(r, "save")
    /\ Delete(req[r].photo)
    /\ End(r)
    /\ UNCHANGED <<sub, student, claim, lock, fresh, work, lost>>

(***************************************************************************)
(* approve_public_form_submission, reject_public_form_submission.          *)
(***************************************************************************)
ReviewBegin(r) ==
    /\ Begin(r)
    /\ \E s \in Subs, approve \in BOOLEAN :
        /\ sub[s] # None
        /\ req' = [req EXCEPT ![r] = [pc |-> "lock", sub |-> s, key |-> sub[s].key,
               wants |-> FALSE, approve |-> approve, photo |-> None, temp |-> None]]
    /\ UNCHANGED <<sub, student, claim, lock, store, fresh, lost, faults>>

\* Mutant: the row is read without FOR UPDATE.
ReviewLock_Unlocked(r) ==
    /\ At(r, "lock")
    /\ IF sub[req[r].sub].status = "pending"
       THEN req' = [req EXCEPT ![r].pc = IF req[r].approve THEN "check" ELSE "reject",
                               ![r].wants = sub[req[r].sub].photo # None,
                               ![r].temp = sub[req[r].sub].photo]
       ELSE End(r)
    /\ UNCHANGED <<sub, student, claim, lock, store, fresh, work, lost, faults>>
\* SELECT ... FOR UPDATE; 409 for a submission that was processed.
ReviewLock(r) ==
    LET s == req[r].sub IN
    /\ At(r, "lock")
    /\ lock[s] = None
    /\ IF sub[s].status = "pending"
       THEN /\ lock' = [lock EXCEPT ![s] = r]
            /\ req' = [req EXCEPT ![r].pc = IF req[r].approve THEN "check" ELSE "reject",
                                  ![r].wants = sub[s].photo # None,
                                  ![r].temp = sub[s].photo]
       ELSE End(r) /\ UNCHANGED lock
    /\ UNCHANGED <<sub, student, claim, store, fresh, work, lost, faults>>

\* The fields, the class and section, and the unlocked look at the unique keys.
ApproveCheck(r) ==
    /\ At(r, "check")
    /\ student[req[r].key] = None
    /\ To(r, "flush")
    /\ UNCHANGED <<sub, student, claim, lock, store, fresh, work, lost, faults>>

\* Refused by one of them: 409 or 422, nothing is changed.
ApproveRefused(r) ==
    /\ At(r, "check")
    /\ End(r)
    /\ Release(r)
    /\ UNCHANGED <<sub, student, store, fresh, work, lost, faults>>

\* The insert waits for a transaction that inserts the same key.
ApproveFlush(r) ==
    /\ At(r, "flush")
    /\ claim[req[r].key] = None
    /\ IF student[req[r].key] = None
       THEN /\ claim' = [claim EXCEPT ![req[r].key] = r]
            /\ To(r, IF req[r].wants THEN "promote" ELSE "commit")
            /\ UNCHANGED lock
       ELSE End(r) /\ Release(r)            \* IntegrityError: 409
    /\ UNCHANGED <<sub, student, store, fresh, work, lost, faults>>

\* The submitted photograph is downloaded and stored as the student's.
Promote(r) ==
    /\ At(r, "promote")
    /\ req[r].temp \in store
    /\ Stored(r, "commit")
    /\ UNCHANGED <<sub, student, claim, lock, work, lost, faults>>

PromoteFails(r) ==
    /\ At(r, "promote")
    /\ End(r)
    /\ Release(r)
    /\ UNCHANGED <<sub, student, store, fresh, work, lost, faults>>

\* What a review leaves of the submission.
Processed(row, status, key) == [row EXCEPT !.status = status, !.student = key, !.photo = None]

ApproveCommit(r) ==
    LET s == req[r].sub k == req[r].key IN
    /\ At(r, "commit")
    /\ student' = [student EXCEPT ![k] = [from |-> s, photo |-> req[r].photo]]
    /\ sub' = [sub EXCEPT ![s] = Processed(sub[s], "approved", k)]
    /\ To(r, "refresh")
    /\ Release(r)
    /\ UNCHANGED <<store, fresh, work, lost, faults>>

\* Mutant: the submitted photograph is deleted instead of the student's.
ApproveFails_Temp(r) ==
    /\ At(r, "commit")
    /\ Delete(req[r].temp)
    /\ End(r)
    /\ Release(r)
    /\ UNCHANGED <<sub, student, fresh, work, lost>>
\* Rollback; the student's photograph is deleted.
ApproveFails(r) ==
    /\ At(r, "commit")
    /\ Delete(req[r].photo)
    /\ End(r)
    /\ Release(r)
    /\ UNCHANGED <<sub, student, fresh, work, lost>>

Refreshed(r) ==
    /\ At(r, "refresh")
    /\ To(r, "clean")
    /\ UNCHANGED <<sub, student, claim, lock, store, fresh, work, lost, faults>>

\* The submitted photograph stays.  In the approval, db.refresh is within the try:
\* when it fails, after the commit, the handler deletes the photograph of the
\* student it has created.
RefreshFails(r) ==
    /\ At(r, "refresh")
    /\ \/ store' = store \ {req[r].photo} /\ lost' = lost \cup ({req[r].photo} \ {None})
       \/ UNCHANGED <<store, lost>>
    /\ faults' = faults \cup {"refresh"}
    /\ End(r)
    /\ UNCHANGED <<sub, student, claim, lock, fresh, work>>

Reject(r) ==
    /\ At(r, "reject")
    /\ sub' = [sub EXCEPT ![req[r].sub] = Processed(@, "rejected", None)]
    /\ To(r, "refresh")
    /\ Release(r)
    /\ UNCHANGED <<student, store, fresh, work, lost, faults>>

RejectFails(r) ==
    /\ At(r, "reject")
    /\ End(r)
    /\ Release(r)
    /\ UNCHANGED <<sub, student, store, fresh, work, lost, faults>>

\* After the commit the submitted photograph is deleted.
Clean(r) ==
    /\ At(r, "clean")
    /\ Delete(req[r].temp)
    /\ End(r)
    /\ UNCHANGED <<sub, student, claim, lock, fresh, work, lost>>

(***************************************************************************)
(* The rest of the system.                                                 *)
(***************************************************************************)
\* A student is created elsewhere, or given the key by an edit.
TakeKey(k) ==
    /\ work < MaxWork /\ work' = work + 1
    /\ student[k] = None /\ claim[k] = None
    /\ student' = [student EXCEPT ![k] = [from |-> None, photo |-> None]]
    /\ UNCHANGED <<sub, claim, lock, store, fresh, req, lost, faults>>

\* The process stops; transactions are rolled back, objects stay.
Crash ==
    /\ work < MaxWork /\ work' = work + 1
    /\ req' = [r \in Requests |-> None]
    /\ lock' = [s \in Subs |-> None]
    /\ claim' = [k \in Keys |-> None]
    /\ faults' = faults \cup {"crash"}
    /\ UNCHANGED <<sub, student, store, fresh, lost>>

Init ==
    /\ sub = [s \in Subs |-> None]
    /\ student = [k \in Keys |-> None]
    /\ claim = [k \in Keys |-> None]
    /\ lock = [s \in Subs |-> None]
    /\ store = {} /\ fresh = 0
    /\ req = [r \in Requests |-> None]
    /\ work = 0
    /\ lost = {} /\ faults = {}

Step(r) ==
    \/ SubmitLoad(r) \/ SubmitPut(r) \/ SubmitPutFails(r) \/ SubmitCommit(r) \/ SubmitFails(r)
    \/ ReviewBegin(r) \/ ReviewLock(r) \/ ApproveCheck(r) \/ ApproveRefused(r) \/ ApproveFlush(r)
    \/ Promote(r) \/ PromoteFails(r) \/ ApproveCommit(r) \/ ApproveFails(r)
    \/ Refreshed(r) \/ RefreshFails(r) \/ Reject(r) \/ RejectFails(r) \/ Clean(r)

Next ==
    \/ \E r \in Requests : Step(r)
    \/ \E k \in Keys : TakeKey(k)
    \/ Crash

Spec == Init /\ [][Next]_vars

-----------------------------------------------------------------------------
(***************************************************************************)
(* Properties.                                                             *)
(***************************************************************************)
\* Types of the tables, the bucket and the requests.
TypeOK ==
    /\ sub \in [Subs -> Sub \cup {None}]
    /\ student \in [Keys -> Student \cup {None}]
    /\ claim \in [Keys -> Requests \cup {None}]
    /\ lock \in [Subs -> Requests \cup {None}]
    /\ store \subseteq Objects /\ fresh \in 0 .. MaxObjects /\ lost \subseteq Objects
    /\ req \in [Requests -> Request \cup {None}]
    /\ work \in 0 .. MaxWork
    /\ faults \subseteq {"cleanup", "refresh", "crash"}

\* "Submission has already been processed" (public_forms.py:424 and :490): however
\* reviews and creations overlap and whatever fails, each submission is decided
\* once and for good, and approved in the very step that admits its one student,
\* under a key nobody has.
Decisions == INSTANCE SubmissionDecisions WITH
    decision <- [s \in Subs |-> IF sub[s] = None THEN "none" ELSE sub[s].status],
    admitted <- [k \in Keys |-> IF student[k] = None THEN "nobody"
                               ELSE IF student[k].from = None THEN "elsewhere"
                               ELSE student[k].from]
DecidedOnce == Decisions!Spec

\* A student keeps the photograph it was approved with, and a pending submission
\* the one it was sent with, until it is decided: nothing that a review, a failed
\* step or a crash deletes is still referred to.  The one exception is recorded in
\* lost: a refresh that fails after the commit.
PhotosHold ==
    /\ \A s \in Subs : sub[s] # None => sub[s].photo \in store \cup {None}
    /\ \A k \in Keys : student[k] # None => student[k].photo \in store \cup {None} \cup lost

\* As long as no deletion or refresh failed and the process never stopped, the
\* bucket at rest holds only photographs of pending submissions and of students,
\* whatever uploads, transactions and reviews failed or were refused.
NothingLeftBehind ==
    faults = {} /\ (\A r \in Requests : req[r] = None) =>
        store \subseteq {sub[s].photo : s \in {t \in Subs : sub[t] # None}}
                        \cup {student[k].photo : k \in {l \in Keys : student[l] # None}}
=============================================================================
