---------------------------- MODULE PhotoStorage ----------------------------
(***************************************************************************)
(* Photographs: rows that refer to objects in a bucket, and the handlers   *)
(* that keep the two together without a common transaction (students.py,   *)
(* personnel.py, bulk_student_photos.py, bulk_personnel_photos.py,         *)
(* file_storage.py).                                                       *)
(*                                                                         *)
(* A handler puts objects, commits rows and deletes objects in separate    *)
(* steps; any of them may fail (Faults) and the process may stop between   *)
(* two.  A bulk import stages temporary objects, records them in a         *)
(* manifest, is previewed and then confirmed.                              *)
(*                                                                         *)
(* The uploads are coroutines: once their body is read they run to the end *)
(* without giving up the event loop, so no two of them interleave there.   *)
(* Every other handler runs in a thread.  The confirmation of a student    *)
(* import locks all students of the school; nothing else locks first, but  *)
(* every UPDATE waits for a row that another transaction holds.            *)
(*                                                                         *)
(* Abstracted: an object is its number, numbers are never used again       *)
(* (uuid4 in the name); an import has only entries that match, any other   *)
(* entry makes the confirmation of a student import refuse at once and is  *)
(* skipped by that of a personnel import.                                  *)
(***************************************************************************)
EXTENDS Naturals, FiniteSets

CONSTANTS
    Students, Personnel,
    Imports,        \* manifests, each used once
    Requests, Idle,
    Faults,         \* subset of {"storage", "db", "cleanup", "crash", "edit"}
    MaxObjects,     \* bound: objects ever put
    MaxWork         \* bound: requests ever begun

ASSUME PhotosAssumption ==
    /\ Students \cap Personnel = {} /\ IsFiniteSet(Students) /\ IsFiniteSet(Personnel)
    /\ Idle \notin Requests \cup Imports
    /\ MaxObjects \in Nat /\ MaxWork \in Nat

VARIABLES
    path,       \* photo_path: an object, or 0 for none
    store,      \* the objects in the bucket
    fresh,      \* the number of the last object put
    manifest,   \* bulk_photo_imports
    temps,      \* per import, the people whose staged object is in the bucket
    lock,       \* per person, the request that holds the row, or Idle
    req,
    work,
    exposed,    \* history: objects deleted by a removal before its commit, and
                \* objects named again after they had been replaced
    serial      \* whether this behaviour has one request at a time, deletions that
                \* succeed, no edit of a reference and no stop of the process

vars == <<path, store, fresh, manifest, temps, lock, req, work, exposed, serial>>

People == Students \cup Personnel
Objects == 1 .. MaxObjects
None == 0
Statuses == {"absent", "uploaded", "previewed", "partial", "completed"}
Paths == [People -> Objects \cup {None}]

\* done: the people whose entry is "uploaded"; seen: the entries'
\* preview_photo_path.  A manifest without files is not in use yet.
Manifest == [status: Statuses, files: SUBSET People, seen: Paths,
             done: SUBSET People, expired: BOOLEAN]
Request == [op: {"upload", "remove", "import", "preview", "confirm"},
            pc: {"put", "commit", "clean", "remove", "removed", "sweep", "temps", "row",
                 "stage", "insert", "match", "update", "lock", "item"},
            im: Imports \cup {Idle},
            who: SUBSET People, prev: Paths, new: Paths,
            todo: SUBSET People, done: SUBSET People, back: SUBSET People,
            status: Statuses]
ASSUME IdleAssumption == Idle \notin Request

Nothing == [p \in People |-> None]
At(r, op, pc) == req[r] # Idle /\ req[r].op = op /\ req[r].pc = pc
To(r, pc) == req' = [req EXCEPT ![r].pc = pc]
Unlocked(who, r) == \A p \in who : lock[p] \in {Idle, r}
End(r) ==
    /\ req' = [req EXCEPT ![r] = Idle]
    /\ lock' = [p \in People |-> IF lock[p] = r THEN Idle ELSE lock[p]]

\* No coroutine is between its await and its end.
LoopFree == \A q \in Requests : ~ \E pc \in {"commit", "clean", "sweep", "temps", "row", "insert"} :
                At(q, "upload", pc) \/ At(q, "import", pc)

Begin(r, op, pc, im, who, prev) ==
    /\ req[r] = Idle
    /\ work < MaxWork
    /\ work' = work + 1
    /\ req' = [req EXCEPT ![r] =
           [op |-> op, pc |-> pc, im |-> im, who |-> who, prev |-> prev, new |-> Nothing,
            todo |-> {}, done |-> IF im = Idle THEN {} ELSE manifest[im].done, back |-> {},
            status |-> IF im = Idle THEN "absent" ELSE manifest[im].status]]

Prev(r) == {req[r].prev[p] : p \in req[r].who} \ {None}
New(r) == {req[r].new[p] : p \in req[r].who} \ {None}
Set(who, new) == [p \in People |-> IF p \in who THEN new[p] ELSE path[p]]

\* What may be left of the objects O: a deletion that fails is logged and
\* ignored, so with failures any part of them.
Left(O) == IF "cleanup" \in Faults /\ ~serial THEN SUBSET O ELSE {{}}

(***************************************************************************)
(* One photograph: upload_student_photo, upload_personnel_photo.           *)
(***************************************************************************)
\* The row is loaded before the body of the request is read.
UploadLoad(r) ==
    /\ LoopFree
    /\ \E p \in People : Begin(r, "upload", "put", Idle, {p},
                               [Nothing EXCEPT ![p] = path[p]])
    /\ UNCHANGED <<path, store, fresh, manifest, temps, lock, exposed>>

\* Storing the new objects, under names never used before.
Put(r) ==
    /\ req[r] # Idle /\ req[r].pc = "put"
    /\ req[r].op = "upload" => LoopFree
    /\ fresh' = fresh + Cardinality(req[r].who)
    /\ fresh' <= MaxObjects
    /\ \E new \in [req[r].who -> fresh + 1 .. fresh'] :
        /\ \A p, q \in req[r].who : new[p] = new[q] => p = q
        /\ store' = store \cup {new[p] : p \in req[r].who}
        /\ req' = [req EXCEPT ![r].new = [p \in People |->
                       IF p \in req[r].who THEN new[p] ELSE None], ![r].pc = "commit"]
    /\ UNCHANGED <<path, manifest, temps, lock, work, exposed>>

\* The bucket refuses an object; those of the batch already stored are deleted.
PutFails(r) ==
    /\ "storage" \in Faults
    /\ \/ At(r, "upload", "put") /\ LoopFree
       \/ At(r, "confirm", "put") /\ req[r].who \subseteq Students
    /\ End(r)
    /\ UNCHANGED <<path, store, fresh, manifest, temps, work, exposed>>

\* Mutant: the previous object is deleted before the row is saved.
UploadCommit_DeleteFirst(r) ==
    /\ At(r, "upload", "commit")
    /\ Unlocked(req[r].who, r)
    /\ store' = store \ Prev(r)
    /\ \/ path' = Set(req[r].who, req[r].new) /\ To(r, "clean") /\ UNCHANGED lock
       \/ "db" \in Faults /\ End(r) /\ UNCHANGED path
    /\ UNCHANGED <<fresh, manifest, temps, work, exposed>>
UploadCommit(r) ==
    /\ At(r, "upload", "commit")
    /\ Unlocked(req[r].who, r)
    /\ path' = Set(req[r].who, req[r].new)
    /\ To(r, "clean")
    /\ UNCHANGED <<store, fresh, manifest, temps, lock, work, exposed>>

\* Mutant: the new object is kept.
UploadFails_Kept(r) ==
    /\ "db" \in Faults
    /\ At(r, "upload", "commit")
    /\ End(r)
    /\ UNCHANGED <<path, store, fresh, manifest, temps, work, exposed>>
\* The transaction fails: it is rolled back and the new object is deleted.
UploadFails(r) ==
    /\ "db" \in Faults
    /\ At(r, "upload", "commit")
    /\ \E left \in Left(store \cap New(r)) : store' = (store \ New(r)) \cup left
    /\ End(r)
    /\ UNCHANGED <<path, fresh, manifest, temps, work, exposed>>

\* After the commit the replaced object is deleted.
UploadClean(r) ==
    /\ At(r, "upload", "clean")
    /\ \E left \in Left(store \cap Prev(r)) : store' = (store \ Prev(r)) \cup left
    /\ End(r)
    /\ UNCHANGED <<path, fresh, manifest, temps, work, exposed>>

(***************************************************************************)
(* Removing one photograph, and editing the reference.                     *)
(***************************************************************************)
RemoveLoad(r) ==
    /\ \E p \in People :
        /\ path[p] # None
        /\ Begin(r, "remove", "remove", Idle, {p}, [Nothing EXCEPT ![p] = path[p]])
    /\ UNCHANGED <<path, store, fresh, manifest, temps, lock, exposed>>

\* remove_student_photo flushes the UPDATE, which locks the row, deletes the
\* object and only then commits.
StudentObjectRemoved(r) ==
    /\ At(r, "remove", "remove") /\ req[r].who \subseteq Students
    /\ Unlocked(req[r].who, r)
    /\ lock' = [p \in People |-> IF p \in req[r].who THEN r ELSE lock[p]]
    /\ store' = store \ Prev(r)
    /\ exposed' = exposed \cup Prev(r)
    /\ To(r, "removed")
    /\ UNCHANGED <<path, fresh, manifest, temps, work>>

StudentRemoveCommit(r) ==
    /\ At(r, "remove", "removed")
    /\ path' = Set(req[r].who, Nothing)
    /\ End(r)
    /\ UNCHANGED <<store, fresh, manifest, temps, work, exposed>>

\* remove_personnel_photo commits first and deletes the object afterwards.
PersonnelRemoveCommit(r) ==
    /\ At(r, "remove", "remove") /\ req[r].who \subseteq Personnel
    /\ path' = Set(req[r].who, Nothing)
    /\ To(r, "clean")
    /\ UNCHANGED <<store, fresh, manifest, temps, lock, work, exposed>>

PersonnelRemoveClean(r) ==
    /\ At(r, "remove", "clean")
    /\ \E left \in Left(store \cap Prev(r)) : store' = (store \ Prev(r)) \cup left
    /\ End(r)
    /\ UNCHANGED <<path, fresh, manifest, temps, work, exposed>>

\* The bucket refuses the deletion, or the database the commit: the row stays.
RemoveFails(r) ==
    /\ \/ "storage" \in Faults /\ At(r, "remove", "remove") /\ req[r].who \subseteq Students
       \/ "db" \in Faults /\ (At(r, "remove", "remove") \/ At(r, "remove", "removed"))
    /\ End(r)
    /\ UNCHANGED <<path, store, fresh, manifest, temps, work, exposed>>

\* update_student takes photo_path from the client, who may send back one that
\* was loaded before it was replaced, or none.
EditPath ==
    /\ "edit" \in Faults
    /\ work < MaxWork
    /\ work' = work + 1
    /\ \E s \in Students, o \in 0 .. fresh :
        /\ o # path[s]
        /\ lock[s] = Idle
        /\ path' = [path EXCEPT ![s] = o]
        /\ exposed' = exposed \cup ({o} \ {None})
    /\ UNCHANGED <<store, fresh, manifest, temps, lock, req>>

(***************************************************************************)
(* Bulk import: staging the archive.                                       *)
(***************************************************************************)
Present(m) == manifest[m].status # "absent"
Usable(m) == Present(m) /\ ~manifest[m].expired

ImportBegin(r) ==
    /\ LoopFree
    /\ Begin(r, "import", "sweep", Idle, {}, Nothing)
    /\ UNCHANGED <<path, store, fresh, manifest, temps, lock, exposed>>

\* cleanup_expired_bulk_photo_imports: the expired imports, one after another.
SweepNext(r) ==
    /\ At(r, "import", "sweep")
    /\ \E m \in Imports :
        /\ Present(m) /\ manifest[m].expired
        /\ req' = [req EXCEPT ![r].pc = "temps", ![r].im = m]
    /\ UNCHANGED <<path, store, fresh, manifest, temps, lock, work, exposed>>

\* None is left, or those left could not be cleaned up.
SweepDone(r) ==
    /\ At(r, "import", "sweep")
    /\ \A m \in Imports : Present(m) /\ manifest[m].expired =>
           "db" \in Faults \/ ("cleanup" \in Faults /\ ~serial)
    /\ req' = [req EXCEPT ![r].pc = "stage", ![r].im = Idle]
    /\ UNCHANGED <<path, store, fresh, manifest, temps, lock, work, exposed>>

\* A request that finds its import expired cleans up and is refused.
ExpiredLoad(r) ==
    /\ \E m \in Imports :
        /\ Present(m) /\ manifest[m].expired
        /\ Begin(r, "preview", "temps", m, {}, Nothing)
    /\ UNCHANGED <<path, store, fresh, manifest, temps, lock, exposed>>

SweptTo(r) == IF req[r].op = "import" THEN To(r, "sweep") /\ UNCHANGED lock ELSE End(r)

\* cleanup_bulk_photo_import: the row is deleted only after all staged objects.
SweepTemps(r) ==
    /\ At(r, "import", "temps") \/ At(r, "preview", "temps")
    /\ \E left \in Left(temps[req[r].im]) :
        /\ temps' = [temps EXCEPT ![req[r].im] = left]
        /\ IF left = {} THEN To(r, "row") /\ UNCHANGED lock ELSE SweptTo(r)
    /\ UNCHANGED <<path, store, fresh, manifest, work, exposed>>

SweepRow(r) ==
    /\ At(r, "import", "row") \/ At(r, "preview", "row")
    /\ \/ manifest' = [manifest EXCEPT ![req[r].im].status = "absent"]
       \/ "db" \in Faults /\ UNCHANGED manifest
    /\ SweptTo(r)
    /\ UNCHANGED <<path, store, fresh, temps, work, exposed>>

\* The archive has been read: its photos are staged.
Stage(r) ==
    /\ At(r, "import", "stage") /\ LoopFree
    /\ \E m \in Imports, files \in ((SUBSET Students) \cup (SUBSET Personnel)) \ {{}} :
        /\ manifest[m].files = {}
        /\ temps' = [temps EXCEPT ![m] = files]
        /\ manifest' = [manifest EXCEPT ![m].files = files,
               ![m].seen = [p \in People |-> IF p \in files THEN path[p] ELSE None]]
        /\ req' = [req EXCEPT ![r].pc = "insert", ![r].im = m]
    /\ UNCHANGED <<path, store, fresh, lock, work, exposed>>

\* No archive of use arrives, or the bucket refuses a photo.
StageFails(r) ==
    /\ At(r, "import", "stage") /\ LoopFree
    /\ End(r)
    /\ UNCHANGED <<path, store, fresh, manifest, temps, work, exposed>>

Insert(r) ==
    /\ At(r, "import", "insert")
    /\ manifest' = [manifest EXCEPT ![req[r].im].status = "uploaded"]
    /\ End(r)
    /\ UNCHANGED <<path, store, fresh, temps, work, exposed>>

\* The row cannot be saved: the staged objects are deleted.
InsertFails(r) ==
    /\ "db" \in Faults
    /\ At(r, "import", "insert")
    /\ \E left \in Left(temps[req[r].im]) : temps' = [temps EXCEPT ![req[r].im] = left]
    /\ End(r)
    /\ UNCHANGED <<path, store, fresh, manifest, work, exposed>>

(***************************************************************************)
(* Preview.                                                                *)
(***************************************************************************)
\* Mutant: a completed import may be previewed again.
PreviewLoad_Completed(r) ==
    /\ \E m \in Imports :
        /\ Usable(m)
        /\ Begin(r, "preview", "match", m, manifest[m].files, Nothing)
    /\ UNCHANGED <<path, store, fresh, manifest, temps, lock, exposed>>
PreviewLoad(r) ==
    /\ \E m \in Imports :
        /\ Usable(m) /\ manifest[m].status # "completed"
        /\ Begin(r, "preview", "match", m, manifest[m].files, Nothing)
    /\ UNCHANGED <<path, store, fresh, manifest, temps, lock, exposed>>

\* The entries are matched with the people as they are now.
PreviewMatch(r) ==
    /\ At(r, "preview", "match")
    /\ req' = [req EXCEPT ![r].pc = "update", ![r].prev = path]
    /\ UNCHANGED <<path, store, fresh, manifest, temps, lock, work, exposed>>

\* The entries are written back, the status only where it was another one.
\* Saving fails when the row is gone.
PreviewUpdate(r) ==
    /\ At(r, "preview", "update")
    /\ \/ /\ Present(req[r].im)
          /\ manifest' = [manifest EXCEPT
                 ![req[r].im].seen = [p \in People |->
                      IF p \in req[r].who \ req[r].done THEN req[r].prev[p] ELSE @[p]],
                 ![req[r].im].done = req[r].done,
                 ![req[r].im].status = IF req[r].status = "previewed" THEN @ ELSE "previewed"]
       \/ (~Present(req[r].im) \/ "db" \in Faults) /\ UNCHANGED manifest
    /\ End(r)
    /\ UNCHANGED <<path, store, fresh, temps, work, exposed>>

(***************************************************************************)
(* Confirmation of a student import.                                       *)
(***************************************************************************)
ConfirmLoad(r) ==
    /\ \E m \in Imports :
        /\ Usable(m) /\ manifest[m].status = "previewed"
        /\ manifest[m].files \subseteq Students
        /\ Begin(r, "confirm", "lock", m, manifest[m].files, manifest[m].seen)
    /\ UNCHANGED <<path, store, fresh, manifest, temps, lock, exposed>>

\* What the confirmation demands of the entries and of the locked students.
Confirmable(r) ==
    /\ req[r].who \cap req[r].done = {}
    /\ \A p \in req[r].who : path[p] = req[r].prev[p]
    /\ req[r].who \subseteq temps[req[r].im]

\* Mutant: the students are read without FOR UPDATE.
ConfirmLock_Unlocked(r) ==
    /\ At(r, "confirm", "lock")
    /\ IF Confirmable(r) THEN To(r, "put") /\ UNCHANGED lock ELSE End(r)
    /\ UNCHANGED <<path, store, fresh, manifest, temps, work, exposed>>
\* All students of the school are locked and compared with the preview, and
\* the staged photos are read.
ConfirmLock(r) ==
    /\ At(r, "confirm", "lock")
    /\ Unlocked(Students, r)
    /\ IF Confirmable(r)
       THEN /\ lock' = [p \in People |-> IF p \in Students THEN r ELSE lock[p]]
            /\ To(r, "put")
       ELSE End(r)
    /\ UNCHANGED <<path, store, fresh, manifest, temps, work, exposed>>

\* One transaction sets all photos and completes the import.
ConfirmCommit(r) ==
    /\ At(r, "confirm", "commit") /\ req[r].who \subseteq Students
    /\ Present(req[r].im)
    /\ path' = Set(req[r].who, req[r].new)
    /\ manifest' = [manifest EXCEPT ![req[r].im].status = "completed",
                                    ![req[r].im].done = req[r].who]
    /\ To(r, "clean")
    /\ lock' = [p \in People |-> IF lock[p] = r THEN Idle ELSE lock[p]]
    /\ UNCHANGED <<store, fresh, temps, work, exposed>>

ConfirmFails(r) ==
    /\ At(r, "confirm", "commit") /\ req[r].who \subseteq Students
    /\ "db" \in Faults \/ ~Present(req[r].im)
    /\ \E left \in Left(store \cap New(r)) : store' = (store \ New(r)) \cup left
    /\ End(r)
    /\ UNCHANGED <<path, fresh, manifest, temps, work, exposed>>

\* The replaced objects and the staged ones are deleted.
ConfirmClean(r) ==
    /\ At(r, "confirm", "clean") /\ req[r].who \subseteq Students
    /\ \E left \in Left(store \cap Prev(r)) : store' = (store \ Prev(r)) \cup left
    /\ \E left \in Left(temps[req[r].im] \cap req[r].who) :
           temps' = [temps EXCEPT ![req[r].im] = (@ \ req[r].who) \cup left]
    /\ End(r)
    /\ UNCHANGED <<path, fresh, manifest, work, exposed>>

(***************************************************************************)
(* Confirmation of a personnel import: one transaction per entry, no lock, *)
(* no preview needed.                                                      *)
(***************************************************************************)
ItemsLoad(r) ==
    /\ \E m \in Imports :
        /\ Usable(m) /\ manifest[m].status # "completed"
        /\ manifest[m].files # {} /\ manifest[m].files \subseteq Personnel
        /\ req[r] = Idle
        /\ work < MaxWork
        /\ work' = work + 1
        /\ req' = [req EXCEPT ![r] =
               [op |-> "confirm", pc |-> "item", im |-> m, who |-> {}, prev |-> Nothing,
                new |-> Nothing, todo |-> manifest[m].files \ manifest[m].done,
                done |-> manifest[m].done, back |-> {}, status |-> "completed"]]
    /\ UNCHANGED <<path, store, fresh, manifest, temps, lock, exposed>>

\* The next entry; its row is read, and its staged photo where it still exists.
ItemLoad(r) ==
    /\ At(r, "confirm", "item")
    /\ \E p \in req[r].todo :
        LET next == [req[r] EXCEPT !.todo = @ \ {p}, !.prev[p] = path[p]] IN
        req' = [req EXCEPT ![r] =
            IF p \in temps[req[r].im]
            THEN [next EXCEPT !.pc = "put", !.who = {p}]
            ELSE [next EXCEPT !.back = {p}, !.status = "partial"]]
    /\ UNCHANGED <<path, store, fresh, manifest, temps, lock, work, exposed>>

\* A commit also writes the references that failed entries put back.
Restored(r) == Set(req[r].back, req[r].prev)
Exposed(r) == exposed \cup ({req[r].prev[p] : p \in req[r].back} \ {None})

ItemCommit(r) ==
    /\ At(r, "confirm", "commit") /\ req[r].who \subseteq Personnel
    /\ Present(req[r].im)
    /\ path' = [p \in People |-> IF p \in req[r].who THEN req[r].new[p] ELSE Restored(r)[p]]
    /\ exposed' = Exposed(r)
    /\ manifest' = [manifest EXCEPT ![req[r].im].done = req[r].done \cup req[r].who]
    /\ req' = [req EXCEPT ![r].pc = "clean", ![r].done = @ \cup req[r].who, ![r].back = {}]
    /\ UNCHANGED <<store, fresh, temps, lock, work>>

\* The photo or the row of an entry cannot be saved: the transaction is rolled
\* back, and the reference as it was loaded is put back for the next commit.
ItemFails(r) ==
    /\ req[r] # Idle /\ req[r].op = "confirm" /\ req[r].who # {} /\ req[r].who \subseteq Personnel
    /\ \/ req[r].pc = "put" /\ "storage" \in Faults /\ UNCHANGED store
       \/ /\ req[r].pc = "commit"
          /\ "db" \in Faults \/ ~Present(req[r].im)
          /\ \E left \in Left(store \cap New(r)) : store' = (store \ New(r)) \cup left
    /\ req' = [req EXCEPT ![r].pc = "item", ![r].back = req[r].who, ![r].status = "partial"]
    /\ UNCHANGED <<path, fresh, manifest, temps, lock, work, exposed>>

ItemClean(r) ==
    /\ At(r, "confirm", "clean") /\ req[r].who \subseteq Personnel
    /\ \E left \in Left(store \cap Prev(r)) : store' = (store \ Prev(r)) \cup left
    /\ \E left \in Left(temps[req[r].im] \cap req[r].who) :
           temps' = [temps EXCEPT ![req[r].im] = (@ \ req[r].who) \cup left]
    /\ To(r, "item")
    /\ UNCHANGED <<path, fresh, manifest, lock, work, exposed>>

ItemsFinish(r) ==
    /\ At(r, "confirm", "item") /\ req[r].todo = {}
    /\ \/ /\ Present(req[r].im)
          /\ path' = Restored(r)
          /\ exposed' = Exposed(r)
          /\ manifest' = [manifest EXCEPT ![req[r].im].status = req[r].status,
                                          ![req[r].im].done = req[r].done]
       \/ (~Present(req[r].im) \/ "db" \in Faults) /\ UNCHANGED <<path, exposed, manifest>>
    /\ End(r)
    /\ UNCHANGED <<store, fresh, temps, work>>

(***************************************************************************)
(* The clock and the process.                                              *)
(***************************************************************************)
Expire ==
    /\ \E m \in Imports :
        /\ Usable(m)
        /\ manifest' = [manifest EXCEPT ![m].expired = TRUE]
    /\ UNCHANGED <<path, store, fresh, temps, lock, req, work, exposed>>

Crash ==
    /\ "crash" \in Faults
    /\ \E r \in Requests : req[r] # Idle
    /\ req' = [r \in Requests |-> Idle]
    /\ lock' = [p \in People |-> Idle]
    /\ UNCHANGED <<path, store, fresh, manifest, temps, work, exposed>>

Init ==
    /\ path = Nothing
    /\ store = {} /\ fresh = 0
    /\ manifest = [m \in Imports |-> [status |-> "absent", files |-> {}, seen |-> Nothing,
                                      done |-> {}, expired |-> FALSE]]
    /\ temps = [m \in Imports |-> {}]
    /\ lock = [p \in People |-> Idle]
    /\ req = [r \in Requests |-> Idle]
    /\ work = 0
    /\ exposed = {}
    /\ serial \in BOOLEAN

OnePhoto(r) ==
    \/ UploadLoad(r) \/ Put(r) \/ PutFails(r) \/ UploadCommit(r) \/ UploadFails(r)
    \/ UploadClean(r) \/ RemoveLoad(r) \/ StudentObjectRemoved(r) \/ StudentRemoveCommit(r)
    \/ PersonnelRemoveCommit(r) \/ PersonnelRemoveClean(r) \/ RemoveFails(r)
Staging(r) ==
    \/ ImportBegin(r) \/ SweepNext(r) \/ SweepDone(r) \/ ExpiredLoad(r) \/ SweepTemps(r)
    \/ SweepRow(r) \/ Stage(r) \/ StageFails(r) \/ Insert(r) \/ InsertFails(r)
    \/ PreviewLoad(r) \/ PreviewMatch(r) \/ PreviewUpdate(r)
Confirming(r) ==
    \/ ConfirmLoad(r) \/ ConfirmLock(r) \/ ConfirmCommit(r) \/ ConfirmFails(r) \/ ConfirmClean(r)
    \/ ItemsLoad(r) \/ ItemLoad(r) \/ ItemCommit(r) \/ ItemFails(r) \/ ItemClean(r)
    \/ ItemsFinish(r)

Next ==
    /\ \/ \E r \in Requests :
              /\ serial => \A q \in Requests \ {r} : req[q] = Idle
              /\ OnePhoto(r) \/ Staging(r) \/ Confirming(r)
       \/ ~serial /\ (EditPath \/ Crash)
       \/ Expire
    /\ UNCHANGED serial

Spec == Init /\ [][Next]_vars

(***************************************************************************)
(* Properties.                                                             *)
(***************************************************************************)
\* Types of the state: references name objects that have been put.
TypeOK ==
    /\ path \in [People -> 0 .. fresh]
    /\ store \subseteq 1 .. fresh
    /\ fresh \in 0 .. MaxObjects /\ work \in 0 .. MaxWork
    /\ manifest \in [Imports -> Manifest]
    /\ temps \in [Imports -> SUBSET People]
    /\ lock \in [People -> Requests \cup {Idle}]
    /\ req \in [Requests -> Request \cup {Idle}]
    /\ exposed \subseteq 1 .. fresh
    /\ serial \in BOOLEAN

\* "Existing photos and staged objects are deleted only after the database
\* commit, so cleanup failure ... cannot leave a student pointing at a missing
\* replacement" (README.md:182).  Whatever fails, wherever the process stops and
\* however uploads, removals and imports overlap, a reference names an object
\* that exists.  Excepted are the objects a removal deletes before its commit
\* and those named again by an edit or by an entry that was put back.
ReferencesHold ==
    \A p \in People : path[p] \in store \cup {None} \cup exposed

Quiescent == \A r \in Requests : req[r] = Idle
Referenced == {path[p] : p \in People}

\* "Any upload failure removes new objects; any database failure rolls back
\* the transaction and removes all newly uploaded objects" (README.md:182).  In a
\* serial behaviour the bucket holds at rest the photos that rows refer to, and
\* staged ones only for an import that exists and has not used them.
NothingLeftBehind ==
    serial /\ Quiescent =>
        /\ store \subseteq Referenced \cup exposed
        /\ \A m \in Imports : temps[m] # {} => Present(m) /\ temps[m] \cap manifest[m].done = {}

\* In a serial behaviour an import that is offered for confirmation still has the
\* staged photos of its open entries, and one of students has no other ones: a
\* photo once set is not offered again ("Bulk photo upload has already been completed.",
\* bulk_student_photos.py:574).
StagedUntilUsed ==
    serial /\ Quiescent => \A m \in Imports :
        Usable(m) /\ manifest[m].status # "completed" =>
            /\ temps[m] = manifest[m].files \ manifest[m].done
            /\ manifest[m].files \subseteq Students => manifest[m].done = {}

\* "A student photo changed after preview. Preview the ZIP again before
\* confirming." (bulk_student_photos.py:696): the photos that a confirmation
\* replaces are those the preview showed, also when other requests changed them
\* in between.
ShownReplaced ==
    \A r \in Requests : At(r, "confirm", "commit") /\ req[r].who \subseteq Students
        /\ path' # path /\ req'[r] # req[r] =>
            \A p \in req[r].who : path[p] = req[r].prev[p]
ReplacesWhatWasShown == [][ShownReplaced]_vars
=============================================================================
