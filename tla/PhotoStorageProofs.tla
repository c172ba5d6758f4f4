-------------------------- MODULE PhotoStorageProofs --------------------------
(***************************************************************************)
(* Proofs about PhotoStorage, for any number of people, imports and        *)
(* requests and any set of faults.                                         *)
(*                                                                         *)
(* A deletion strands no reference because the object it takes is the      *)
(* photo of one person at most (OwnInv), who has another by then           *)
(* (CleanInv).  Nothing stays behind in a serial behaviour because every   *)
(* object is a row's, or of the request that runs and still knows it       *)
(* (BucketInv).  The steps after Moves are short: they put nothing, so     *)
(* that they only move names that were there.                              *)
(***************************************************************************)
EXTENDS PhotoStorage, TLAPS, FiniteSetTheorems

(***************************************************************************)
(* The inductive invariant.                                                *)
(***************************************************************************)
\* The row of p, a request or a manifest names object o as the photo of p.
Names(p, o) ==
    \/ path[p] = o
    \/ \E r \in Requests : req[r] # Idle /\ req[r].prev[p] = o
    \/ \E m \in Imports : manifest[m].seen[p] = o

Storing(r) == req[r] # Idle /\ req[r].pc = "commit"
Cleaning(r) == req[r] # Idle /\ req[r].pc = "clean"

\* What requests and manifests name has been put.
NamedInv ==
    /\ \A r \in Requests : req[r] # Idle => \A p \in People : req[r].prev[p] \in 0 .. fresh
    /\ \A m \in Imports, p \in People : manifest[m].seen[p] \in 0 .. fresh

\* An object that was not exposed is the photo of one person.
OwnInv ==
    \A p, q \in People, o \in Objects \ exposed : Names(p, o) /\ Names(q, o) => p = q

\* The objects of a request that is about to commit exist, and it alone knows
\* them.
NewInv ==
    /\ \A r \in Requests : Storing(r) => \A p \in req[r].who :
        /\ req[r].new[p] \in 1 .. fresh
        /\ req[r].new[p] \in store \cup exposed
        /\ req[r].new[p] \notin exposed => \A q \in People : ~Names(q, req[r].new[p])
    /\ \A r, s \in Requests : Storing(r) /\ Storing(s) =>
        \A p \in req[r].who, q \in req[s].who :
            req[r].new[p] = req[s].new[q] => r = s /\ p = q

\* What a request is about to delete is no longer the photo of the person.
CleanInv ==
    \A r \in Requests : Cleaning(r) => \A p \in req[r].who :
        req[r].prev[p] \in Objects \ exposed => path[p] # req[r].prev[p]

RefInv == NamedInv /\ OwnInv /\ NewInv /\ CleanInv /\ ReferencesHold

\* A confirmation of students holds their rows, and these are as previewed; a
\* removal past its flush holds the row; only staff are entries of their own.
Locks(r) == req[r] # Idle =>
    /\ req[r].todo \cup req[r].back \subseteq Personnel
    /\ req[r].op = "remove" /\ req[r].pc = "removed" => \A p \in req[r].who : lock[p] = r
    /\ req[r].op = "confirm" /\ req[r].pc \in {"put", "commit"} =>
           \A p \in req[r].who \cap Students : lock[p] = r /\ path[p] = req[r].prev[p]

LockInv == \A r \in Requests : Locks(r)

\* Serial: one request at a time.
AloneInv ==
    serial => \A r, q \in Requests : req[r] # Idle /\ req[q] # Idle => r = q

\* Serial: an object in the bucket is the photo of a row, or one that the request
\* has stored or is about to delete; what a request replaces is what it loaded.
Kept(o) ==
    \E p \in People :
        \/ path[p] = o
        \/ \E r \in Requests : Storing(r) /\ p \in req[r].who /\ req[r].new[p] = o
        \/ \E r \in Requests : Cleaning(r) /\ p \in req[r].who /\ req[r].prev[p] = o

Loaded(r) == req[r] # Idle =>
    /\ req[r].op # "confirm" => req[r].back = {}
    /\ req[r].pc \in {"put", "commit", "remove", "removed"} =>
           \A p \in req[r].who : path[p] = req[r].prev[p]
    /\ \A p \in req[r].back : path[p] = req[r].prev[p]
    /\ req[r].pc = "removed" => \A p \in req[r].who : req[r].prev[p] \in exposed \cup {None}

BucketInv ==
    serial =>
        /\ \A o \in store : o \in exposed \/ Kept(o)
        /\ \A r \in Requests : Loaded(r)

\* Serial: what a request knows of its import m is still so.
Inserting(r, m) == req[r].op = "import" /\ req[r].pc = "insert" =>
    /\ manifest[m].status = "absent" /\ manifest[m].done = {}
    /\ manifest[m].files # {} /\ temps[m] = manifest[m].files
Sweeping(r, m) ==
    /\ req[r].pc \in {"temps", "row"} => manifest[m].expired
    /\ req[r].pc = "row" => temps[m] = {}
Previewing(r, m) == req[r].op = "preview" /\ req[r].pc \in {"match", "update"} =>
    /\ Present(m) /\ manifest[m].status # "completed"
    /\ req[r].done = manifest[m].done /\ req[r].status = manifest[m].status
Confirms(r, m) == req[r].op = "confirm" =>
    /\ Present(m)
    /\ req[r].pc = "clean" => req[r].who \subseteq manifest[m].done
    /\ \/ /\ manifest[m].files \subseteq Students /\ req[r].who = manifest[m].files
          /\ req[r].pc \in {"lock", "put", "commit", "clean"}
       \/ /\ manifest[m].files \subseteq Personnel /\ req[r].who \subseteq manifest[m].files
          /\ manifest[m].status # "completed" /\ req[r].status \in {"partial", "completed"}
          /\ req[r].done = manifest[m].done /\ req[r].todo \subseteq manifest[m].files
          /\ req[r].who = {} => req[r].pc = "item"

Knows(r) == \A m \in Imports : req[r] # Idle /\ req[r].im = m =>
    Inserting(r, m) /\ Sweeping(r, m) /\ Previewing(r, m) /\ Confirms(r, m)

ImportInv == serial => \A r \in Requests : Knows(r)

\* Serial: the staged objects of an import.
BeingCleaned(m, p) == \E r \in Requests :
    At(r, "confirm", "clean") /\ req[r].im = m /\ p \in req[r].who
BeingInserted(m) == \E r \in Requests : At(r, "import", "insert") /\ req[r].im = m
Staged(m) ==
    /\ manifest[m].files = {} => ~Present(m) /\ manifest[m].done = {}
    /\ temps[m] # {} => Present(m) \/ BeingInserted(m)
    /\ \A p \in temps[m] \cap manifest[m].done : BeingCleaned(m, p)
    /\ Usable(m) /\ manifest[m].status # "completed" =>
        /\ \A p \in temps[m] : p \in manifest[m].files
        /\ \A p \in manifest[m].files \ manifest[m].done : p \in temps[m]
        /\ manifest[m].files \subseteq Students => manifest[m].done = {}

StagedInv == serial => \A m \in Imports : Staged(m)

IInv == TypeOK /\ RefInv /\ LockInv /\ AloneInv /\ BucketInv /\ ImportInv /\ StagedInv

(***************************************************************************)
(* Types.                                                                  *)
(***************************************************************************)
\* No object has the number that stands for none, and people are finitely many.
LEMMA Basics ==
    /\ \A r \in Requests : r # Idle
    /\ \A m \in Imports : m # Idle
    /\ \A p \in Students : p \notin Personnel
    /\ \A who \in SUBSET People : Cardinality(who) \in Nat
    /\ None = 0 /\ Objects = 1 .. MaxObjects
BY PhotosAssumption, FS_Union, FS_Subset, FS_CardinalityType
   DEF PhotosAssumption, People, None, Objects

\* Objects put so far are objects.
LEMMA PathsTyped ==
    ASSUME TypeOK
    PROVE  /\ path \in Paths /\ Nothing \in Paths
           /\ \A p \in People : path[p] \in 0 .. fresh
           /\ 0 .. fresh \subseteq Objects \cup {None}
<1>1. fresh \in 0 .. MaxObjects /\ MaxObjects \in Nat
  BY PhotosAssumption DEF TypeOK, PhotosAssumption
<1>2. 0 .. fresh \subseteq Objects \cup {None}
  BY <1>1 DEF Objects, None
<1> QED  BY <1>2 DEF TypeOK, Paths, Nothing

\* What a request begins with has its type.
LEMMA BeginTyped ==
    ASSUME TypeOK, NEW r \in Requests, NEW op, NEW pc, NEW im \in Imports \cup {Idle},
           NEW who \in SUBSET People, NEW prev \in Paths, Begin(r, op, pc, im, who, prev),
           op \in {"upload", "remove", "import", "preview", "confirm"},
           pc \in {"put", "commit", "clean", "remove", "removed", "sweep", "temps", "row",
                   "stage", "insert", "match", "update", "lock", "item"}
    PROVE  /\ req' \in [Requests -> Request \cup {Idle}]
           /\ work' \in 0 .. MaxWork
<1> DEFINE new == [op |-> op, pc |-> pc, im |-> im, who |-> who, prev |-> prev, new |-> Nothing,
            todo |-> {}, done |-> IF im = Idle THEN {} ELSE manifest[im].done, back |-> {},
            status |-> IF im = Idle THEN "absent" ELSE manifest[im].status]
<1>1. im # Idle => manifest[im] \in Manifest
  BY DEF TypeOK
<1>2. new.done \in SUBSET People /\ new.status \in Statuses
  BY <1>1 DEF Manifest, Statuses
<1>3. Nothing \in Paths
  BY PathsTyped
<1>4. new \in Request
  BY <1>2, <1>3 DEF Request
<1>5. req' = [req EXCEPT ![r] = new]
  BY DEF Begin
<1>6. req' \in [Requests -> Request \cup {Idle}]
  BY <1>4, <1>5 DEF TypeOK
<1>7. work' \in 0 .. MaxWork
  BY PhotosAssumption DEF TypeOK, Begin, PhotosAssumption
<1> QED  BY <1>6, <1>7

\* So has a request that goes on or ends, and the rows it gives back.
LEMMA ToTyped ==
    ASSUME TypeOK, NEW r \in Requests, req[r] # Idle, NEW pc, To(r, pc),
           pc \in {"put", "commit", "clean", "remove", "removed", "sweep", "temps", "row",
                   "stage", "insert", "match", "update", "lock", "item"}
    PROVE  req' \in [Requests -> Request \cup {Idle}]
BY DEF TypeOK, To, Request

\* A request that ends has its type, and so have the rows it gives back.
LEMMA EndTyped ==
    ASSUME TypeOK, NEW r \in Requests, End(r)
    PROVE  /\ req' \in [Requests -> Request \cup {Idle}]
           /\ lock' \in [People -> Requests \cup {Idle}]
BY DEF TypeOK, End

\* A deletion leaves a part of what it was to delete.
LEMMA LeftPart ==
    ASSUME NEW O, NEW left \in Left(O)
    PROVE  left \subseteq O /\ (serial => left = {})
BY DEF Left

\* What a request is about to save, and what it has loaded, has been put.
LEMMA RefBounds ==
    ASSUME TypeOK, RefInv, NEW r \in Requests, Storing(r)
    PROVE  \A p \in req[r].who : req[r].new[p] \in 0 .. fresh
BY DEF RefInv, NewInv, TypeOK

\* What a request has loaded or seen is an object put before, or none.
LEMMA PrevBounds ==
    ASSUME TypeOK, RefInv, NEW r \in Requests, req[r] # Idle
    PROVE  /\ \A p \in People : req[r].prev[p] \in 0 .. fresh
           /\ \A p \in People : req[r].prev[p] # None => req[r].prev[p] \in 1 .. fresh
           /\ Prev(r) \subseteq 1 .. fresh
<1>1. \A p \in People : req[r].prev[p] \in 0 .. fresh
  BY DEF RefInv, NamedInv
<1>2. req[r].who \subseteq People /\ fresh \in Nat
  BY DEF TypeOK, Request
<1> QED  BY <1>1, <1>2 DEF Prev, None

\* Every step keeps the types.
LEMMA TypeStep ==
    ASSUME TypeOK, RefInv, [Next]_vars
    PROVE  TypeOK'
<1>1. ASSUME NEW r \in Requests, OnePhoto(r), UNCHANGED serial
      PROVE  TypeOK'
  <2> USE <1>1
  <2>1. CASE UploadLoad(r)
    <3>1. PICK p \in People : Begin(r, "upload", "put", Idle, {p}, [Nothing EXCEPT ![p] = path[p]])
      BY <2>1 DEF UploadLoad
    <3>2. [Nothing EXCEPT ![p] = path[p]] \in Paths
      BY PathsTyped DEF Paths
    <3> QED  BY <2>1, <3>1, <3>2, BeginTyped DEF UploadLoad, TypeOK
  <2>2. CASE Put(r)
    <3> DEFINE end == fresh + Cardinality(req[r].who)
    <3>1. PICK new \in [req[r].who -> fresh + 1 .. end] :
             /\ store' = store \cup {new[p] : p \in req[r].who}
             /\ req' = [req EXCEPT ![r].new = [p \in People |->
                           IF p \in req[r].who THEN new[p] ELSE None], ![r].pc = "commit"]
      BY <2>2 DEF Put
    <3>2. req[r] \in Request /\ req[r].who \in SUBSET People
      BY <2>2 DEF Put, TypeOK, Request
    <3>3. end \in Nat /\ fresh \in Nat /\ fresh <= end /\ fresh' = end /\ end <= MaxObjects
      BY <2>2, <3>2, Basics DEF Put, TypeOK
    <3>4. end \in 0 .. MaxObjects
      BY <3>3, PhotosAssumption DEF PhotosAssumption
    <3>5. [p \in People |-> IF p \in req[r].who THEN new[p] ELSE None] \in Paths
      <4> SUFFICES ASSUME NEW p \in req[r].who PROVE new[p] \in Objects
        BY DEF Paths
      <4>1. new[p] \in fresh + 1 .. end
        BY <3>1
      <4> QED  BY <4>1, <3>3, PhotosAssumption, Basics DEF PhotosAssumption
    <3>6. req' \in [Requests -> Request \cup {Idle}]
      BY <3>1, <3>2, <3>5 DEF TypeOK, Request
    <3>7. 0 .. fresh \subseteq 0 .. end /\ 1 .. fresh \subseteq 1 .. end
      BY <3>3
    <3>8. store' \subseteq 1 .. end
      BY <3>1, <3>3, <3>7 DEF TypeOK
    <3>9. path' \in [People -> 0 .. end] /\ exposed' \subseteq 1 .. end
      BY <2>2, <3>7 DEF Put, TypeOK
    <3> QED  BY <2>2, <3>3, <3>4, <3>6, <3>8, <3>9 DEF Put, TypeOK
  <2>3. CASE PutFails(r)
    BY <2>3, EndTyped DEF PutFails, TypeOK
  <2>4. CASE UploadCommit(r)
    <3>1. req[r] \in Request
      BY <2>4 DEF UploadCommit, At, TypeOK
    <3>2. path' \in [People -> 0 .. fresh]
      BY <2>4, <3>1, RefBounds DEF UploadCommit, At, TypeOK, Set, Request, Paths, Storing
    <3> QED  BY <2>4, <3>1, <3>2, ToTyped, EndTyped DEF UploadCommit, TypeOK, At
  <2>5. CASE UploadFails(r)
    <3>1. store' \subseteq store
      BY <2>5, LeftPart DEF UploadFails
    <3> QED  BY <2>5, <3>1, EndTyped, ToTyped DEF UploadFails, TypeOK, At
  <2>6. CASE UploadClean(r)
    <3>1. store' \subseteq store
      BY <2>6, LeftPart DEF UploadClean
    <3> QED  BY <2>6, <3>1, EndTyped, ToTyped DEF UploadClean, TypeOK, At
  <2>7. CASE RemoveLoad(r)
    <3>1. PICK p \in People :
            Begin(r, "remove", "remove", Idle, {p}, [Nothing EXCEPT ![p] = path[p]])
      BY <2>7 DEF RemoveLoad
    <3>2. [Nothing EXCEPT ![p] = path[p]] \in Paths
      BY PathsTyped DEF Paths
    <3> QED  BY <2>7, <3>1, <3>2, BeginTyped DEF RemoveLoad, TypeOK
  <2>8. CASE StudentObjectRemoved(r)
    <3>1. Prev(r) \subseteq 1 .. fresh
      BY <2>8, PrevBounds DEF StudentObjectRemoved, At
    <3>2. lock' \in [People -> Requests \cup {Idle}]
      BY <2>8 DEF StudentObjectRemoved, TypeOK
    <3> QED  BY <2>8, <3>1, <3>2, ToTyped DEF StudentObjectRemoved, TypeOK, At
  <2>9. CASE StudentRemoveCommit(r)
    <3>1. path' \in [People -> 0 .. fresh]
      BY <2>9, PathsTyped DEF StudentRemoveCommit, TypeOK, Set, Nothing, None
    <3> QED  BY <2>9, <3>1, EndTyped DEF StudentRemoveCommit, TypeOK
  <2>10. CASE PersonnelRemoveCommit(r)
    <3>1. path' \in [People -> 0 .. fresh]
      BY <2>10, PathsTyped DEF PersonnelRemoveCommit, TypeOK, Set, Nothing, None
    <3> QED  BY <2>10, <3>1, ToTyped DEF PersonnelRemoveCommit, TypeOK, At
  <2>11. CASE PersonnelRemoveClean(r)
    <3>1. store' \subseteq store
      BY <2>11, LeftPart DEF PersonnelRemoveClean
    <3> QED  BY <2>11, <3>1, EndTyped, ToTyped DEF PersonnelRemoveClean, TypeOK, At
  <2>12. CASE RemoveFails(r)
    BY <2>12, EndTyped DEF RemoveFails, TypeOK
  <2> QED  BY <2>1, <2>2, <2>3, <2>4, <2>5, <2>6, <2>7, <2>8, <2>9, <2>10, <2>11, <2>12 DEF
           OnePhoto
<1>2. ASSUME NEW r \in Requests, Staging(r), UNCHANGED serial
      PROVE  TypeOK'
  <2> USE <1>2
  <2>1. CASE ImportBegin(r)
    <3>1. Nothing \in Paths
      BY PathsTyped
    <3> QED  BY <2>1, <3>1, BeginTyped DEF ImportBegin, TypeOK
  <2>2. CASE SweepNext(r)
    <3>1. PICK m \in Imports : req' = [req EXCEPT ![r].pc = "temps", ![r].im = m]
      BY <2>2 DEF SweepNext
    <3>2. req[r] \in Request
      BY <2>2 DEF SweepNext, At, TypeOK
    <3>3. req'[r] \in Request /\ \A q \in Requests \ {r} : req'[q] = req[q]
      BY <2>2, <3>1, <3>2 DEF TypeOK, Request, SweepNext
    <3>4. req' \in [Requests -> Request \cup {Idle}]
      BY <2>2, <3>1, <3>3 DEF TypeOK, SweepNext
    <3> QED  BY <2>2, <3>4 DEF SweepNext, TypeOK
  <2>3. CASE SweepDone(r)
    <3>1. req' = [req EXCEPT ![r].pc = "stage", ![r].im = Idle]
      BY <2>3 DEF SweepDone
    <3>2. req[r] \in Request
      BY <2>3 DEF SweepDone, At, TypeOK
    <3>3. req'[r] \in Request /\ \A q \in Requests \ {r} : req'[q] = req[q]
      <4>1. req'[r] = [req[r] EXCEPT !.pc = "stage", !.im = Idle]
            /\ \A q \in Requests \ {r} : req'[q] = req[q]
        BY <3>1 DEF TypeOK
      <4> QED  BY <3>2, <4>1 DEF Request
    <3>4. req' \in [Requests -> Request \cup {Idle}]
      BY <2>3, <3>1, <3>3 DEF TypeOK, SweepDone
    <3> QED  BY <2>3, <3>4 DEF SweepDone, TypeOK
  <2>4. CASE ExpiredLoad(r)
    <3>1. Nothing \in Paths /\ {} \in SUBSET People
      BY PathsTyped
    <3>2. PICK m \in Imports : Begin(r, "preview", "temps", m, {}, Nothing)
      BY <2>4 DEF ExpiredLoad
    <3> QED  BY <2>4, <3>1, <3>2, BeginTyped DEF ExpiredLoad, TypeOK
  <2>5. CASE SweepTemps(r)
    <3>1. req' \in [Requests -> Request \cup {Idle}] /\ lock' \in [People -> Requests \cup {Idle}]
      BY <2>5, ToTyped, EndTyped DEF SweepTemps, SweptTo, At, TypeOK
    <3>2. temps' \in [Imports -> SUBSET People]
      <4> SUFFICES ASSUME NEW m \in Imports PROVE temps'[m] \subseteq People
        BY <2>5 DEF SweepTemps, TypeOK
      <4>1. PICK left \in Left(temps[req[r].im]) : temps' = [temps EXCEPT ![req[r].im] = left]
        BY <2>5 DEF SweepTemps
      <4>2. left \subseteq temps[req[r].im]
        BY <4>1, LeftPart
      <4> QED  BY <4>1, <4>2 DEF TypeOK
    <3> QED  BY <2>5, <3>1, <3>2 DEF SweepTemps, TypeOK
  <2>6. CASE SweepRow(r)
    <3>1. req' \in [Requests -> Request \cup {Idle}] /\ lock' \in [People -> Requests \cup {Idle}]
      BY <2>6, ToTyped, EndTyped DEF SweepRow, SweptTo, At, TypeOK
    <3>2. manifest' \in [Imports -> Manifest]
      BY <2>6 DEF SweepRow, TypeOK, Manifest, Statuses
    <3> QED  BY <2>6, <3>1, <3>2 DEF SweepRow, TypeOK
  <2>7. CASE Stage(r)
    <3>1. PICK m \in Imports, files \in ((SUBSET Students) \cup (SUBSET Personnel)) \ {{}} :
            /\ temps' = [temps EXCEPT ![m] = files]
            /\ manifest' = [manifest EXCEPT ![m].files = files,
                   ![m].seen = [p \in People |-> IF p \in files THEN path[p] ELSE None]]
            /\ req' = [req EXCEPT ![r].pc = "insert", ![r].im = m]
      BY <2>7 DEF Stage
    <3>2. files \in SUBSET People
      <4>1. files \subseteq Students \/ files \subseteq Personnel
        BY <3>1
      <4> QED  BY <4>1 DEF People
    <3>3. [p \in People |-> IF p \in files THEN path[p] ELSE None] \in Paths
      BY PathsTyped DEF Paths
    <3>4. manifest' \in [Imports -> Manifest] /\ temps' \in [Imports -> SUBSET People]
      BY <3>1, <3>2, <3>3 DEF TypeOK, Manifest
    <3>5. req' \in [Requests -> Request \cup {Idle}]
      <4>1. req[r] \in Request
        BY <2>7 DEF Stage, At, TypeOK
      <4>2. req'[r] \in Request /\ \A q \in Requests \ {r} : req'[q] = req[q]
        BY <3>1, <4>1 DEF TypeOK, Request
      <4> QED  BY <3>1, <4>2 DEF TypeOK
    <3> QED  BY <2>7, <3>4, <3>5 DEF Stage, TypeOK
  <2>8. CASE StageFails(r)
    BY <2>8, EndTyped DEF StageFails, TypeOK
  <2>9. CASE Insert(r)
    <3>1. manifest' \in [Imports -> Manifest]
      <4> SUFFICES ASSUME NEW m \in Imports PROVE manifest'[m] \in Manifest
        BY <2>9 DEF Insert, TypeOK
      <4>1. manifest[m] \in Manifest /\ "uploaded" \in Statuses
        BY DEF TypeOK, Statuses
      <4>2. manifest'[m] = manifest[m] \/ manifest'[m] = [manifest[m] EXCEPT !.status = "uploaded"]
        BY <2>9 DEF Insert, TypeOK
      <4> QED  BY <4>1, <4>2 DEF Manifest
    <3> QED  BY <2>9, <3>1, EndTyped DEF Insert, TypeOK
  <2>10. CASE InsertFails(r)
    <3>1. temps' \in [Imports -> SUBSET People]
      <4> SUFFICES ASSUME NEW m \in Imports PROVE temps'[m] \subseteq People
        BY <2>10 DEF InsertFails, TypeOK
      <4>1. PICK left \in Left(temps[req[r].im]) : temps' = [temps EXCEPT ![req[r].im] = left]
        BY <2>10 DEF InsertFails
      <4>2. left \subseteq temps[req[r].im]
        BY <4>1, LeftPart
      <4> QED  BY <4>1, <4>2 DEF TypeOK
    <3> QED  BY <2>10, <3>1, EndTyped DEF InsertFails, TypeOK
  <2>11. CASE PreviewLoad(r)
    <3>1. Nothing \in Paths
      BY PathsTyped
    <3>2. PICK m \in Imports : Begin(r, "preview", "match", m, manifest[m].files, Nothing)
      BY <2>11 DEF PreviewLoad
    <3>3. manifest[m].files \in SUBSET People
      BY <3>2 DEF TypeOK, Manifest
    <3> QED  BY <2>11, <3>1, <3>2, <3>3, BeginTyped DEF PreviewLoad, TypeOK
  <2>12. CASE PreviewMatch(r)
    <3>1. path \in Paths
      BY PathsTyped
    <3>2. req[r] \in Request
      BY <2>12 DEF PreviewMatch, At, TypeOK
    <3>3. req'[r] \in Request /\ \A q \in Requests \ {r} : req'[q] = req[q]
      BY <2>12, <3>1, <3>2 DEF TypeOK, Request, PreviewMatch
    <3>4. req' \in [Requests -> Request \cup {Idle}]
      BY <2>12, <3>1, <3>3 DEF TypeOK, PreviewMatch
    <3> QED  BY <2>12, <3>4 DEF PreviewMatch, TypeOK
  <2>13. CASE PreviewUpdate(r)
    <3>1. req[r] \in Request
      BY <2>13 DEF PreviewUpdate, At, TypeOK
    <3>2. manifest' \in [Imports -> Manifest]
      <4>1. CASE UNCHANGED manifest
        BY <4>1 DEF TypeOK
      <4>2. CASE manifest' = [manifest EXCEPT
                     ![req[r].im].seen = [p \in People |->
                          IF p \in req[r].who \ req[r].done THEN req[r].prev[p] ELSE @[p]],
                     ![req[r].im].done = req[r].done,
                     ![req[r].im].status = IF req[r].status = "previewed" THEN @ ELSE "previewed"]
        <5> SUFFICES ASSUME NEW m \in Imports PROVE manifest'[m] \in Manifest
          BY <4>2 DEF TypeOK
        <5>1. CASE m # req[r].im
          BY <4>2, <5>1 DEF TypeOK
        <5>2. CASE m = req[r].im
          <6>1. manifest[m] \in Manifest /\ req[r].done \in SUBSET People /\ req[r].prev \in Paths
            BY <3>1 DEF TypeOK, Request
          <6>2. [p \in People |-> IF p \in req[r].who \ req[r].done THEN req[r].prev[p]
                                  ELSE manifest[m].seen[p]] \in Paths
            BY <6>1 DEF Manifest, Paths
          <6> QED  BY <4>2, <5>2, <6>1, <6>2 DEF TypeOK, Manifest, Statuses
        <5> QED  BY <5>1, <5>2
      <4> QED  BY <2>13, <4>1, <4>2 DEF PreviewUpdate
    <3> QED  BY <2>13, <3>2, EndTyped DEF PreviewUpdate, TypeOK
  <2> QED  BY <2>1, <2>2, <2>3, <2>4, <2>5, <2>6, <2>7, <2>8, <2>9, <2>10, <2>11, <2>12, <2>13
           DEF Staging
<1>3. ASSUME NEW r \in Requests, Confirming(r), UNCHANGED serial
      PROVE  TypeOK'
  <2> USE <1>3
  <2>1. CASE ConfirmLoad(r)
    <3>1. PICK m \in Imports : Begin(r, "confirm", "lock", m, manifest[m].files, manifest[m].seen)
      BY <2>1 DEF ConfirmLoad
    <3>2. manifest[m].files \in SUBSET People /\ manifest[m].seen \in Paths
      BY <3>1 DEF TypeOK, Manifest
    <3> QED  BY <2>1, <3>1, <3>2, BeginTyped DEF ConfirmLoad, TypeOK
  <2>2. CASE ConfirmLock(r)
    <3>1. CASE Confirmable(r)
      BY <2>2, <3>1, ToTyped DEF ConfirmLock, TypeOK, At
    <3>2. CASE ~Confirmable(r)
      BY <2>2, <3>2, EndTyped DEF ConfirmLock, TypeOK, At
    <3> QED  BY <3>1, <3>2
  <2>3. CASE ConfirmCommit(r)
    <3>1. req[r] \in Request
      BY <2>3 DEF ConfirmCommit, At, TypeOK
    <3>2. path' \in [People -> 0 .. fresh]
      BY <2>3, RefBounds DEF ConfirmCommit, At, TypeOK, Set, Storing
    <3>3. manifest' \in [Imports -> Manifest]
      <4> SUFFICES ASSUME NEW m \in Imports PROVE manifest'[m] \in Manifest
        BY <2>3 DEF ConfirmCommit, TypeOK
      <4>1. manifest[m] \in Manifest /\ "completed" \in Statuses /\ req[r].who \in SUBSET People
        BY <3>1 DEF TypeOK, Statuses, Request
      <4>2. manifest'[m] = manifest[m]
            \/ manifest'[m] = [manifest[m] EXCEPT !.status = "completed", !.done = req[r].who]
        BY <2>3 DEF ConfirmCommit, TypeOK
      <4> QED  BY <4>1, <4>2 DEF Manifest
    <3>4. lock' \in [People -> Requests \cup {Idle}]
      BY <2>3 DEF ConfirmCommit, TypeOK
    <3> QED  BY <2>3, <3>2, <3>3, <3>4, ToTyped DEF ConfirmCommit, TypeOK, At
  <2>4. CASE ConfirmFails(r)
    <3>1. store' \subseteq store
      BY <2>4, LeftPart DEF ConfirmFails
    <3> QED  BY <2>4, <3>1, EndTyped, ToTyped DEF ConfirmFails, TypeOK, At
  <2>5. CASE ConfirmClean(r)
    <3>1. store' \subseteq store
      BY <2>5, LeftPart DEF ConfirmClean
    <3>2. temps' \in [Imports -> SUBSET People]
      <4> SUFFICES ASSUME NEW m \in Imports PROVE temps'[m] \subseteq People
        BY <2>5 DEF ConfirmClean, TypeOK
      <4>1. PICK left \in Left(temps[req[r].im] \cap req[r].who) :
               temps' = [temps EXCEPT ![req[r].im] = (@ \ req[r].who) \cup left]
        BY <2>5 DEF ConfirmClean
      <4>2. left \subseteq temps[req[r].im]
        BY <4>1, LeftPart
      <4> QED  BY <4>1, <4>2 DEF TypeOK
    <3> QED  BY <2>5, <3>1, <3>2, EndTyped, ToTyped DEF ConfirmClean, TypeOK, At
  <2>6. CASE ItemsLoad(r)
    <3>1. PICK m \in Imports :
             req' = [req EXCEPT ![r] =
                   [op |-> "confirm", pc |-> "item", im |-> m, who |-> {}, prev |-> Nothing,
                    new |-> Nothing, todo |-> manifest[m].files \ manifest[m].done,
                    done |-> manifest[m].done, back |-> {}, status |-> "completed"]]
      BY <2>6 DEF ItemsLoad
    <3>2. Nothing \in Paths /\ manifest[m] \in Manifest
      BY PathsTyped DEF TypeOK
    <3>3. req' \in [Requests -> Request \cup {Idle}]
      BY <3>1, <3>2 DEF TypeOK, Request, Manifest, Statuses
    <3>4. work' \in 0 .. MaxWork
      BY <2>6, PhotosAssumption DEF ItemsLoad, TypeOK, PhotosAssumption
    <3> QED  BY <2>6, <3>3, <3>4 DEF ItemsLoad, TypeOK
  <2>7. CASE ItemLoad(r)
    <3>1. PICK p \in req[r].todo :
             req' = [req EXCEPT ![r] =
                IF p \in temps[req[r].im]
                THEN [[req[r] EXCEPT !.todo = @ \ {p}, !.prev[p] = path[p]]
                         EXCEPT !.pc = "put", !.who = {p}]
                ELSE [[req[r] EXCEPT !.todo = @ \ {p}, !.prev[p] = path[p]]
                         EXCEPT !.back = {p}, !.status = "partial"]]
      BY <2>7 DEF ItemLoad
    <3>2. req[r] \in Request /\ p \in People /\ path[p] \in Objects \cup {None}
      BY <2>7, PathsTyped DEF ItemLoad, At, TypeOK, Request
    <3>3. [req[r].prev EXCEPT ![p] = path[p]] \in Paths
      BY <3>2 DEF Request, Paths
    <3>4. req'[r] \in Request
      BY <3>1, <3>2, <3>3 DEF TypeOK, Request, Statuses
    <3>5. req' \in [Requests -> Request \cup {Idle}]
      BY <3>1, <3>4 DEF TypeOK
    <3> QED  BY <2>7, <3>5 DEF ItemLoad, TypeOK
  <2>8. CASE ItemCommit(r)
    <3>1. req[r] \in Request
      BY <2>8 DEF ItemCommit, At, TypeOK
    <3>2. path' \in [People -> 0 .. fresh] /\ exposed' \subseteq 1 .. fresh
      BY <2>8, <3>1, RefBounds, PrevBounds DEF ItemCommit, At, TypeOK, Restored, Exposed, Set, Storing,
         Request
    <3>3. manifest' \in [Imports -> Manifest]
      <4> SUFFICES ASSUME NEW m \in Imports PROVE manifest'[m] \in Manifest
        BY <2>8 DEF ItemCommit, TypeOK
      <4>1. manifest[m] \in Manifest /\ req[r].done \cup req[r].who \in SUBSET People
        BY <3>1 DEF TypeOK, Request
      <4>2. manifest'[m] = manifest[m]
            \/ manifest'[m] = [manifest[m] EXCEPT !.done = req[r].done \cup req[r].who]
        BY <2>8 DEF ItemCommit, TypeOK
      <4> QED  BY <4>1, <4>2 DEF Manifest
    <3>4. req' \in [Requests -> Request \cup {Idle}]
      BY <2>8, <3>1 DEF ItemCommit, TypeOK, Request
    <3> QED  BY <2>8, <3>2, <3>3, <3>4 DEF ItemCommit, TypeOK
  <2>9. CASE ItemFails(r)
    <3>1. req[r] \in Request
      BY <2>9 DEF ItemFails, TypeOK
    <3>2. req' \in [Requests -> Request \cup {Idle}]
      BY <2>9, <3>1 DEF ItemFails, TypeOK, Request, Statuses
    <3>3. store' \subseteq store
      BY <2>9, LeftPart DEF ItemFails
    <3> QED  BY <2>9, <3>2, <3>3 DEF ItemFails, TypeOK
  <2>10. CASE ItemClean(r)
    <3>1. store' \subseteq store
      BY <2>10, LeftPart DEF ItemClean
    <3>2. temps' \in [Imports -> SUBSET People]
      <4> SUFFICES ASSUME NEW m \in Imports PROVE temps'[m] \subseteq People
        BY <2>10 DEF ItemClean, TypeOK
      <4>1. PICK left \in Left(temps[req[r].im] \cap req[r].who) :
               temps' = [temps EXCEPT ![req[r].im] = (@ \ req[r].who) \cup left]
        BY <2>10 DEF ItemClean
      <4>2. left \subseteq temps[req[r].im]
        BY <4>1, LeftPart
      <4> QED  BY <4>1, <4>2 DEF TypeOK
    <3> QED  BY <2>10, <3>1, <3>2, EndTyped, ToTyped DEF ItemClean, TypeOK, At
  <2>11. CASE ItemsFinish(r)
    <3>1. req[r] \in Request
      BY <2>11 DEF ItemsFinish, At, TypeOK
    <3>2. path' \in [People -> 0 .. fresh] /\ exposed' \subseteq 1 .. fresh
      BY <2>11, <3>1, PrevBounds DEF ItemsFinish, At, TypeOK, Restored, Exposed, Set, Request
    <3>3. manifest' \in [Imports -> Manifest]
      BY <2>11, <3>1 DEF ItemsFinish, TypeOK, Manifest, Request
    <3> QED  BY <2>11, <3>2, <3>3, EndTyped DEF ItemsFinish, TypeOK
  <2> QED  BY <2>1, <2>2, <2>3, <2>4, <2>5, <2>6, <2>7, <2>8, <2>9, <2>10, <2>11 DEF Confirming
<1>4. CASE ~serial /\ EditPath /\ UNCHANGED serial
  <2>1. exposed' \subseteq 1 .. fresh /\ path' \in [People -> 0 .. fresh]
    <3>1. PICK s \in Students, o \in 0 .. fresh :
             /\ path' = [path EXCEPT ![s] = o]
             /\ exposed' = exposed \cup ({o} \ {None})
      BY <1>4 DEF EditPath
    <3>2. o # None => o \in 1 .. fresh
      BY Basics DEF TypeOK
    <3> QED  BY <3>1, <3>2 DEF TypeOK
  <2>2. work' \in 0 .. MaxWork
    BY <1>4, PhotosAssumption DEF EditPath, TypeOK, PhotosAssumption
  <2> QED  BY <1>4, <2>1, <2>2 DEF EditPath, TypeOK
<1>5. CASE ~serial /\ Crash /\ UNCHANGED serial
  BY <1>5 DEF Crash, TypeOK
<1>6. CASE Expire /\ UNCHANGED serial
  BY <1>6 DEF Expire, TypeOK, Manifest
<1>7. CASE UNCHANGED vars
  BY <1>7 DEF TypeOK, vars
<1> QED  BY <1>1, <1>2, <1>3, <1>4, <1>5, <1>6, <1>7 DEF Next

(***************************************************************************)
(* References.  Every step but Put moves objects that are there: it names  *)
(* as the photo of p only what was named so or what a request has stored   *)
(* for p, and it deletes only what nothing goes on to refer to.            *)
(***************************************************************************)
Named(p, o) == o = None \/ Names(p, o)
SavesNew(r, p) == Storing(r) /\ ~Storing(r)' /\ p \in req[r].who /\ path'[p] = req[r].new[p]

Moves ==
    /\ fresh' = fresh /\ exposed \subseteq exposed' /\ store' \subseteq store
    /\ \A p \in People : path'[p] \in {path[p], None} \cup exposed'
                            \/ \E r \in Requests : SavesNew(r, p)
    /\ \A r \in Requests, p \in People : req'[r] # Idle => Named(p, req'[r].prev[p])
    /\ \A m \in Imports, p \in People : Named(p, manifest'[m].seen[p])
    /\ \A r \in Requests : Storing(r)' =>
            Storing(r) /\ req'[r].who = req[r].who /\ req'[r].new = req[r].new
    /\ \A r \in Requests : Cleaning(r)' => \A p \in req'[r].who :
            \/ Cleaning(r) /\ p \in req[r].who /\ req'[r].prev[p] = req[r].prev[p]
            \/ path'[p] = None \/ SavesNew(r, p)
    /\ \A o \in store \ store' : o \notin exposed' =>
            /\ \A p \in People : path'[p] # o
            /\ \A r \in Requests : Storing(r)' => \A p \in req'[r].who : req'[r].new[p] # o

\* Whatever is named after such a step was named before, or has just been saved.
LEMMA NamesMove ==
    ASSUME TypeOK, TypeOK', Moves, NEW p \in People, NEW o \in Objects \ exposed', Names(p, o)'
    PROVE  Names(p, o) \/ \E r \in Requests : SavesNew(r, p) /\ req[r].new[p] = o
<1>1. o # None
  BY Basics
<1>2. CASE path'[p] = o
  BY <1>1, <1>2 DEF Moves, Names, SavesNew
<1>3. ASSUME NEW r \in Requests, req'[r] # Idle, req'[r].prev[p] = o PROVE Names(p, o)
  BY <1>1, <1>3 DEF Moves, Named
<1>4. ASSUME NEW m \in Imports, manifest'[m].seen[p] = o PROVE Names(p, o)
  BY <1>1, <1>4 DEF Moves, Named
<1> QED  BY <1>2, <1>3, <1>4 DEF Names

\* Such steps keep the references.
LEMMA MovesKeep ==
    ASSUME TypeOK, TypeOK', RefInv, Moves
    PROVE  RefInv'
<1> USE DEF RefInv
<1>1. \A r \in Requests : Storing(r) => req[r].who \subseteq People
  BY DEF Storing, TypeOK, Request
<1>2. \A r \in Requests, p \in People : SavesNew(r, p) =>
          /\ req[r].new[p] \in 1 .. fresh /\ req[r].new[p] \in store \cup exposed
          /\ req[r].new[p] \notin exposed => \A q \in People : ~Names(q, req[r].new[p])
  BY DEF SavesNew, NewInv
<1>3. \A r \in Requests : (Cleaning(r)' \/ Storing(r)') => req'[r].who \subseteq People
  BY DEF Cleaning, Storing, TypeOK, Request
<1>4. \A p \in People, o \in Objects : Names(p, o) => o \in 0 .. fresh
  BY DEF Names, NamedInv, TypeOK
<1>5. NamedInv'
  <2>1. \A o : \A p \in People : Named(p, o) => o \in 0 .. fresh
    BY DEF Named, Names, NamedInv, TypeOK, None
  <2> QED  BY <2>1 DEF NamedInv, Moves
<1>6. OwnInv'
  <2> SUFFICES ASSUME NEW p \in People, NEW q \in People, NEW o \in Objects \ exposed',
                      Names(p, o)', Names(q, o)'
               PROVE  p = q
    BY DEF OwnInv
  <2>1. o \in Objects \ exposed
    BY DEF Moves
  <2>2. CASE Names(p, o) /\ Names(q, o)
    BY <2>1, <2>2 DEF OwnInv
  <2>3. CASE \E r \in Requests : SavesNew(r, p) /\ req[r].new[p] = o
    <3>1. ~Names(q, o)
      BY <1>2, <2>1, <2>3
    <3>2. PICK s \in Requests : SavesNew(s, q) /\ req[s].new[q] = o
      BY <3>1, NamesMove
    <3> QED  BY <2>3, <3>2 DEF SavesNew, NewInv
  <2>4. CASE \E r \in Requests : SavesNew(r, q) /\ req[r].new[q] = o
    <3>1. ~Names(p, o)
      BY <1>2, <2>1, <2>4
    <3>2. PICK s \in Requests : SavesNew(s, p) /\ req[s].new[p] = o
      BY <3>1, NamesMove
    <3> QED  BY <2>4, <3>2 DEF SavesNew, NewInv
  <2> QED  BY <2>2, <2>3, <2>4, NamesMove
<1>7. NewInv'
  <2>1. ASSUME NEW r \in Requests, Storing(r)', NEW p \in req'[r].who
        PROVE  /\ req'[r].new[p] \in 1 .. fresh'
               /\ req'[r].new[p] \in store' \cup exposed'
               /\ req'[r].new[p] \notin exposed' => \A q \in People : ~Names(q, req[r].new[p])'
    <3>1. Storing(r) /\ req'[r].who = req[r].who /\ req'[r].new = req[r].new
      BY <2>1 DEF Moves
    <3>2. PICK o : o = req[r].new[p]
      OBVIOUS
    <3>3. /\ o \in 1 .. fresh /\ o \in store \cup exposed
          /\ o \notin exposed => \A q \in People : ~Names(q, o)
      BY <2>1, <3>1, <3>2 DEF NewInv
    <3>4. o \in store' \cup exposed'
      BY <2>1, <3>1, <3>2, <3>3 DEF Moves
    <3>5. ASSUME o \notin exposed', NEW q \in People, Names(q, o)' PROVE FALSE
      <4>1. o \in Objects \ exposed' /\ o \notin exposed
        BY <3>3, <3>5, PathsTyped, Basics DEF Moves, TypeOK
      <4>2. PICK s \in Requests : SavesNew(s, q) /\ req[s].new[q] = o
        BY <3>3, <3>5, <4>1, NamesMove
      <4>3. s = r
        BY <2>1, <3>1, <3>2, <4>2 DEF NewInv, SavesNew
      <4> QED  BY <2>1, <4>2, <4>3 DEF SavesNew
    <3>6. o \notin exposed' => \A q \in People : ~Names(q, o)'
      BY <3>5
    <3>7. (o \notin exposed' => \A q \in People : ~Names(q, o)')
            => (req'[r].new[p] \notin exposed' => \A q \in People : ~Names(q, req[r].new[p])')
      BY <3>1, <3>2 DEF Names
    <3> QED  BY <3>1, <3>2, <3>3, <3>4, <3>6, <3>7 DEF Moves
  <2>2. ASSUME NEW r \in Requests, NEW s \in Requests, Storing(r)', Storing(s)',
               NEW p \in req'[r].who, NEW q \in req'[s].who, req'[r].new[p] = req'[s].new[q]
        PROVE  r = s /\ p = q
    BY <2>2 DEF Moves, NewInv
  <2> QED  BY <2>1, <2>2 DEF NewInv
<1>8. CleanInv'
  <2> SUFFICES ASSUME NEW r \in Requests, Cleaning(r)', NEW p \in req'[r].who,
                      req'[r].prev[p] \in Objects \ exposed'
               PROVE  path'[p] # req'[r].prev[p]
    BY DEF CleanInv
  <2>1. PICK o : o = req'[r].prev[p]
    OBVIOUS
  <2>2. p \in People /\ o \in Objects \ exposed /\ o # None /\ req'[r] # Idle
    BY <1>3, <2>1, Basics DEF Moves, Cleaning
  <2>3. Names(p, o)
    BY <2>1, <2>2 DEF Moves, Named
  <2>4. \A s \in Requests : SavesNew(s, p) => path'[p] # o
    BY <1>2, <2>2, <2>3 DEF SavesNew
  <2>5. CASE Cleaning(r) /\ p \in req[r].who /\ req'[r].prev[p] = req[r].prev[p]
    <3>1. path[p] # o
      BY <2>1, <2>2, <2>5 DEF CleanInv
    <3> QED  BY <2>1, <2>2, <2>4, <3>1 DEF Moves
  <2> QED  BY <2>1, <2>2, <2>4, <2>5 DEF Moves
<1>9. ReferencesHold'
  <2> SUFFICES ASSUME NEW p \in People PROVE path'[p] \in store' \cup {None} \cup exposed'
    BY DEF ReferencesHold
  <2>1. path[p] \in store \cup {None} \cup exposed
    BY DEF ReferencesHold
  <2>2. ASSUME NEW r \in Requests, SavesNew(r, p) PROVE path'[p] \in store \cup exposed
    BY <1>2, <2>2 DEF SavesNew
  <2> QED  BY <2>1, <2>2 DEF Moves
<1> QED  BY <1>5, <1>6, <1>7, <1>8, <1>9

\* A step of the request r alone, after which r stores nothing and deletes only
\* what it has replaced.
Local(r) ==
    /\ \A q \in Requests \ {r} : req'[q] = req[q]
    /\ req'[r] # Idle => \A p \in People : Named(p, req'[r].prev[p])
Rests(r) == Local(r) /\ ~Storing(r)' /\ ~Cleaning(r)'
SeenNamed == \A m \in Imports, p \in People : Named(p, manifest'[m].seen[p])

\* A step of one request that stores nothing new keeps to Moves, if what it deletes is named by
\* no row and by no other request that is about to commit.
LEMMA LocalMoves ==
    ASSUME NEW r \in Requests, Local(r), ~Storing(r)', SeenNamed, TypeOK,
           fresh' = fresh, exposed \subseteq exposed', store' \subseteq store,
           \A p \in People : path'[p] \in {path[p], None} \cup exposed' \/ SavesNew(r, p),
           Cleaning(r)' => \A p \in req'[r].who : path'[p] = None \/ SavesNew(r, p),
           \A o \in store \ store' : o \notin exposed' =>
               /\ \A p \in People : path'[p] # o
               /\ \A q \in Requests \ {r} : Storing(q) => \A p \in req[q].who : req[q].new[p] # o
    PROVE  Moves
<1>1. \A q \in Requests : Storing(q)' => q # r /\ Storing(q) /\ req'[q] = req[q]
  BY DEF Local, Storing
<1>2. \A q \in Requests \ {r} : Cleaning(q)' => Cleaning(q) /\ req'[q] = req[q]
  BY DEF Local, Cleaning
<1>3. \A q \in Requests, p \in People : req'[q] # Idle => Named(p, req'[q].prev[p])
  BY DEF Local, Named, Names
<1>4. \A q \in Requests : Cleaning(q)' => \A p \in req'[q].who :
            \/ Cleaning(q) /\ p \in req[q].who /\ req'[q].prev[p] = req[q].prev[p]
            \/ path'[p] = None \/ SavesNew(q, p)
  BY <1>2
<1>5. \A o \in store \ store' : o \notin exposed' =>
            /\ \A p \in People : path'[p] # o
            /\ \A q \in Requests : Storing(q)' => \A p \in req'[q].who : req'[q].new[p] # o
  BY <1>1
<1> QED  BY <1>1, <1>3, <1>4, <1>5 DEF Moves, SeenNamed

\* A step that only changes the request.
LEMMA RestMoves ==
    ASSUME NEW r \in Requests, Rests(r), SeenNamed, TypeOK,
           UNCHANGED <<path, store, fresh, exposed>>
    PROVE  Moves
BY LocalMoves DEF Rests

\* Manifests that do not change name what they named.
LEMMA SeenStays ==
    ASSUME \A m \in Imports : manifest'[m].seen = manifest[m].seen
    PROVE  SeenNamed
BY DEF SeenNamed, Named, Names

\* A request that begins with what a row or a manifest names, goes on with
\* what it has, or ends.
LEMMA BeginRests ==
    ASSUME TypeOK, NEW r \in Requests, NEW op, NEW pc, NEW im, NEW who, NEW prev,
           Begin(r, op, pc, im, who, prev), pc \notin {"commit", "clean"},
           \A p \in People : Named(p, prev[p])
    PROVE  Rests(r)
BY DEF TypeOK, Begin, Rests, Local, Storing, Cleaning

\* A request that goes to its next statement changes only its own record.
LEMMA ToLocal ==
    ASSUME TypeOK, NEW r \in Requests, req[r] # Idle, NEW pc, To(r, pc)
    PROVE  /\ Local(r) /\ (pc # "commit" => ~Storing(r)')
           /\ pc \notin {"commit", "clean"} => Rests(r)
<1>1. req'[r] = [req[r] EXCEPT !.pc = pc] /\ \A q \in Requests \ {r} : req'[q] = req[q]
  BY DEF TypeOK, To
<1>2. req[r] \in Request
  BY DEF TypeOK
<1>3. req'[r].prev = req[r].prev /\ req'[r].pc = pc
  BY <1>1, <1>2 DEF Request
<1> QED  BY <1>1, <1>3 DEF Rests, Local, Storing, Cleaning, Named, Names

\* A request that ends names nothing any more.
LEMMA EndRests ==
    ASSUME TypeOK, NEW r \in Requests, End(r)
    PROVE  Rests(r)
BY DEF TypeOK, End, Rests, Local, Storing, Cleaning

\* What a request may delete after its commit is nobody's photo, and no other
\* request is about to save it.
LEMMA CleanedIsFree ==
    ASSUME TypeOK, RefInv, NEW r \in Requests, Cleaning(r),
           NEW o \in Prev(r), o \notin exposed
    PROVE  /\ \A p \in People : path[p] # o
           /\ \A q \in Requests : Storing(q) => \A p \in req[q].who : req[q].new[p] # o
<1>1. PICK p \in req[r].who : o = req[r].prev[p] /\ o # None
  BY DEF Prev
<1>2. p \in People /\ req[r] # Idle
  BY DEF Cleaning, TypeOK, Request
<1>3. o \in Objects \ exposed
  BY <1>1, <1>2, PrevBounds, PathsTyped, Basics
<1>4. Names(p, o)
  BY <1>1, <1>2 DEF Names
<1>5. ASSUME NEW q \in People, path[q] = o PROVE FALSE
  BY <1>1, <1>2, <1>3, <1>4, <1>5 DEF Names, RefInv, OwnInv, CleanInv
<1>6. ASSUME NEW q \in Requests, Storing(q), NEW s \in req[q].who, req[q].new[s] = o PROVE FALSE
  BY <1>2, <1>3, <1>4, <1>6 DEF RefInv, NewInv
<1> QED  BY <1>5, <1>6

\* Nor is what a request that cannot commit takes back.
LEMMA UnsavedIsFree ==
    ASSUME TypeOK, RefInv, NEW r \in Requests, Storing(r),
           NEW o \in New(r), o \notin exposed
    PROVE  /\ \A p \in People : path[p] # o
           /\ \A q \in Requests \ {r} : Storing(q) => \A p \in req[q].who : req[q].new[p] # o
BY DEF New, RefInv, NewInv, Names

\* Every step but Put is such a move.
LEMMA MovesStep ==
    ASSUME TypeOK, RefInv, [Next]_vars
    PROVE  Moves \/ \E s \in Requests : Put(s)
<1>1. ASSUME NEW r \in Requests, OnePhoto(r), UNCHANGED serial
      PROVE  Moves \/ \E s \in Requests : Put(s)
  <2> USE <1>1
  <2>1. CASE UploadLoad(r)
    <3>1. PICK p \in People : Begin(r, "upload", "put", Idle, {p}, [Nothing EXCEPT ![p] = path[p]])
      BY <2>1 DEF UploadLoad
    <3>2. PICK prev : prev = [Nothing EXCEPT ![p] = path[p]]
      OBVIOUS
    <3>3. \A q \in People : Named(q, prev[q])
      BY <3>2 DEF Nothing, Named, Names
    <3>4. Rests(r)
      BY <3>2, <3>1, <3>3 DEF Begin, TypeOK, Rests, Local, Storing, Cleaning
    <3> QED  BY <2>1, <3>4, RestMoves, SeenStays DEF UploadLoad
  <2>2. CASE Put(r)
    BY <2>2
  <2>3. CASE PutFails(r)
    BY <2>3, EndRests, RestMoves, SeenStays DEF PutFails
  <2>4. CASE UploadCommit(r)
    <3>1. req[r] # Idle /\ req[r] \in Request /\ Local(r) /\ ~Storing(r)' /\ Storing(r)
      BY <2>4, ToLocal DEF UploadCommit, At, TypeOK, Storing
    <3>2. req'[r].who = req[r].who
      BY <2>4, <3>1 DEF UploadCommit, To, TypeOK, Request
    <3>3. \A p \in req[r].who : SavesNew(r, p)
      BY <2>4, <3>1 DEF UploadCommit, SavesNew, Set, Request
    <3>4. \A p \in People \ req[r].who : path'[p] = path[p]
      BY <2>4 DEF UploadCommit, Set
    <3> QED  BY <2>4, <3>1, <3>2, <3>3, <3>4, LocalMoves, SeenStays DEF UploadCommit
  <2>5. CASE UploadFails(r)
    <3>1. Rests(r) /\ Storing(r)
      BY <2>5, EndRests DEF UploadFails, At, Storing
    <3>2. store' \subseteq store /\ store \ store' \subseteq New(r)
      BY <2>5, LeftPart DEF UploadFails
    <3>3. \A o \in store \ store' : o \notin exposed' =>
              /\ \A p \in People : path'[p] # o
              /\ \A q \in Requests \ {r} : Storing(q) => \A p \in req[q].who : req[q].new[p] # o
      BY <2>5, <3>1, <3>2, UnsavedIsFree DEF UploadFails
    <3> QED  BY <2>5, <3>1, <3>2, <3>3, LocalMoves, SeenStays DEF UploadFails, Rests
  <2>6. CASE UploadClean(r)
    <3>1. Rests(r) /\ Cleaning(r)
      BY <2>6, EndRests, ToLocal DEF UploadClean, At, Cleaning
    <3>2. store' \subseteq store /\ store \ store' \subseteq Prev(r)
      BY <2>6, LeftPart DEF UploadClean
    <3>3. \A o \in store \ store' : o \notin exposed' =>
              /\ \A p \in People : path'[p] # o
              /\ \A q \in Requests \ {r} : Storing(q) => \A p \in req[q].who : req[q].new[p] # o
      BY <2>6, <3>1, <3>2, CleanedIsFree DEF UploadClean
    <3> QED  BY <2>6, <3>1, <3>2, <3>3, LocalMoves, SeenStays DEF UploadClean, Rests
  <2>7. CASE RemoveLoad(r)
    <3>1. PICK p \in People :
            Begin(r, "remove", "remove", Idle, {p}, [Nothing EXCEPT ![p] = path[p]])
      BY <2>7 DEF RemoveLoad
    <3>2. PICK prev : prev = [Nothing EXCEPT ![p] = path[p]]
      OBVIOUS
    <3>3. \A q \in People : Named(q, prev[q])
      BY <3>2 DEF Nothing, Named, Names
    <3>4. Rests(r)
      BY <3>2, <3>1, <3>3 DEF Begin, TypeOK, Rests, Local, Storing, Cleaning
    <3> QED  BY <2>7, <3>4, RestMoves, SeenStays DEF RemoveLoad
  <2>8. CASE StudentObjectRemoved(r)
    <3>1. Rests(r)
      BY <2>8, ToLocal DEF StudentObjectRemoved, At
    <3> QED  BY <2>8, <3>1, LocalMoves, SeenStays DEF StudentObjectRemoved, Rests
  <2>9. CASE StudentRemoveCommit(r)
    <3>1. Rests(r)
      BY <2>9, EndRests DEF StudentRemoveCommit
    <3>2. \A p \in People : path'[p] \in {path[p], None}
      BY <2>9 DEF StudentRemoveCommit, Set, Nothing
    <3> QED  BY <2>9, <3>1, <3>2, LocalMoves, SeenStays DEF StudentRemoveCommit, Rests
  <2>10. CASE PersonnelRemoveCommit(r)
    <3>1. req[r] # Idle /\ req[r] \in Request /\ Local(r) /\ ~Storing(r)'
      BY <2>10, ToLocal DEF PersonnelRemoveCommit, At, TypeOK
    <3>2. req'[r].who = req[r].who /\ req[r].who \subseteq People
      BY <2>10, <3>1 DEF PersonnelRemoveCommit, To, TypeOK, Request
    <3>3. \A p \in People : path'[p] \in {path[p], None} /\ (p \in req[r].who => path'[p] = None)
      BY <2>10 DEF PersonnelRemoveCommit, Set, Nothing
    <3> QED  BY <2>10, <3>1, <3>2, <3>3, LocalMoves, SeenStays DEF PersonnelRemoveCommit
  <2>11. CASE PersonnelRemoveClean(r)
    <3>1. Rests(r) /\ Cleaning(r)
      BY <2>11, EndRests, ToLocal DEF PersonnelRemoveClean, At, Cleaning
    <3>2. store' \subseteq store /\ store \ store' \subseteq Prev(r)
      BY <2>11, LeftPart DEF PersonnelRemoveClean
    <3>3. \A o \in store \ store' : o \notin exposed' =>
              /\ \A p \in People : path'[p] # o
              /\ \A q \in Requests \ {r} : Storing(q) => \A p \in req[q].who : req[q].new[p] # o
      BY <2>11, <3>1, <3>2, CleanedIsFree DEF PersonnelRemoveClean
    <3> QED  BY <2>11, <3>1, <3>2, <3>3, LocalMoves, SeenStays DEF PersonnelRemoveClean, Rests
  <2>12. CASE RemoveFails(r)
    BY <2>12, EndRests, RestMoves, SeenStays DEF RemoveFails
  <2> QED  BY <2>1, <2>2, <2>3, <2>4, <2>5, <2>6, <2>7, <2>8, <2>9, <2>10, <2>11, <2>12 DEF
           OnePhoto
<1>2. ASSUME NEW r \in Requests, Staging(r), UNCHANGED serial
      PROVE  Moves \/ \E s \in Requests : Put(s)
  <2> USE <1>2
  <2>1. CASE ImportBegin(r)
    <3>1. \A q \in People : Named(q, Nothing[q])
      BY DEF Nothing, Named
    <3> QED  BY <2>1, <3>1, BeginRests, RestMoves, SeenStays DEF ImportBegin
  <2>2. CASE SweepNext(r)
    <3>1. req[r] # Idle /\ req[r] \in Request /\ \A q \in Requests \ {r} : req'[q] = req[q]
      BY <2>2 DEF SweepNext, At, TypeOK
    <3>2. req'[r].prev = req[r].prev /\ req'[r].pc \in {"temps", "stage"}
      BY <2>2, <3>1 DEF SweepNext, TypeOK, Request
    <3>3. Rests(r)
      BY <3>1, <3>2 DEF Rests, Local, Storing, Cleaning, Named, Names
    <3> QED  BY <2>2, <3>3, RestMoves, SeenStays DEF SweepNext
  <2>3. CASE SweepDone(r)
    <3>1. req[r] # Idle /\ req[r] \in Request /\ \A q \in Requests \ {r} : req'[q] = req[q]
      BY <2>3 DEF SweepDone, At, TypeOK
    <3>2. req'[r].prev = req[r].prev /\ req'[r].pc \in {"temps", "stage"}
      BY <2>3, <3>1 DEF SweepDone, TypeOK, Request
    <3>3. Rests(r)
      BY <3>1, <3>2 DEF Rests, Local, Storing, Cleaning, Named, Names
    <3> QED  BY <2>3, <3>3, RestMoves, SeenStays DEF SweepDone
  <2>4. CASE ExpiredLoad(r)
    <3>1. \A q \in People : Named(q, Nothing[q])
      BY DEF Nothing, Named
    <3>2. PICK m \in Imports : Begin(r, "preview", "temps", m, {}, Nothing)
      BY <2>4 DEF ExpiredLoad
    <3> QED  BY <2>4, <3>1, <3>2, BeginRests, RestMoves, SeenStays DEF ExpiredLoad
  <2>5. CASE SweepTemps(r)
    <3>1. Rests(r)
      BY <2>5, ToLocal, EndRests DEF SweepTemps, SweptTo, At
    <3> QED  BY <2>5, <3>1, RestMoves, SeenStays DEF SweepTemps
  <2>6. CASE SweepRow(r)
    <3>1. Rests(r)
      BY <2>6, ToLocal, EndRests DEF SweepRow, SweptTo, At
    <3>2. \A m \in Imports : manifest'[m].seen = manifest[m].seen
      BY <2>6 DEF SweepRow, TypeOK, Manifest
    <3> QED  BY <2>6, <3>1, <3>2, RestMoves, SeenStays DEF SweepRow
  <2>7. CASE Stage(r)
    <3>1. PICK m \in Imports, files \in ((SUBSET Students) \cup (SUBSET Personnel)) \ {{}} :
            /\ manifest' = [manifest EXCEPT ![m].files = files,
                   ![m].seen = [p \in People |-> IF p \in files THEN path[p] ELSE None]]
            /\ req' = [req EXCEPT ![r].pc = "insert", ![r].im = m]
      BY <2>7 DEF Stage
    <3>2. req[r] # Idle /\ req[r] \in Request /\ \A q \in Requests \ {r} : req'[q] = req[q]
      BY <2>7, <3>1 DEF Stage, At, TypeOK
    <3>3. req'[r].prev = req[r].prev /\ req'[r].pc = "insert"
      BY <3>1, <3>2 DEF TypeOK, Request
    <3>4. Rests(r)
      BY <3>2, <3>3 DEF Rests, Local, Storing, Cleaning, Named, Names
    <3>5. \A k \in Imports \ {m} : manifest'[k] = manifest[k]
      BY <3>1 DEF TypeOK
    <3>6. manifest'[m].seen = [p \in People |-> IF p \in files THEN path[p] ELSE None]
      BY <3>1 DEF TypeOK, Manifest
    <3>7. SeenNamed
      BY <3>5, <3>6 DEF SeenNamed, Named, Names
    <3> QED  BY <2>7, <3>4, <3>7, RestMoves DEF Stage
  <2>8. CASE StageFails(r)
    BY <2>8, EndRests, RestMoves, SeenStays DEF StageFails
  <2>9. CASE Insert(r)
    <3>1. \A m \in Imports : manifest'[m].seen = manifest[m].seen
      BY <2>9 DEF Insert, TypeOK, Manifest
    <3> QED  BY <2>9, <3>1, EndRests, RestMoves, SeenStays DEF Insert
  <2>10. CASE InsertFails(r)
    BY <2>10, EndRests, RestMoves, SeenStays DEF InsertFails
  <2>11. CASE PreviewLoad(r)
    <3>1. \A q \in People : Named(q, Nothing[q])
      BY DEF Nothing, Named
    <3>2. PICK m \in Imports : Begin(r, "preview", "match", m, manifest[m].files, Nothing)
      BY <2>11 DEF PreviewLoad
    <3> QED  BY <2>11, <3>1, <3>2, BeginRests, RestMoves, SeenStays DEF PreviewLoad
  <2>12. CASE PreviewMatch(r)
    <3>1. req[r] # Idle /\ req[r] \in Request /\ \A q \in Requests \ {r} : req'[q] = req[q]
      BY <2>12 DEF PreviewMatch, At, TypeOK
    <3>2. req'[r].prev = path /\ req'[r].pc = "update"
      BY <2>12, <3>1 DEF PreviewMatch, TypeOK, Request
    <3>3. Rests(r)
      BY <3>1, <3>2 DEF Rests, Local, Storing, Cleaning, Named, Names
    <3> QED  BY <2>12, <3>3, RestMoves, SeenStays DEF PreviewMatch
  <2>13. CASE PreviewUpdate(r)
    <3>1. req[r] # Idle
      BY <2>13 DEF PreviewUpdate, At
    <3>2. SeenNamed
      <4> SUFFICES ASSUME NEW m \in Imports, NEW p \in People
                   PROVE  Named(p, manifest'[m].seen[p])
        BY DEF SeenNamed
      <4>1. manifest'[m].seen[p] = manifest[m].seen[p] \/ manifest'[m].seen[p] = req[r].prev[p]
        <5>1. manifest[m] \in Manifest
          BY DEF TypeOK
        <5>2. CASE manifest'[m] = manifest[m]
          BY <5>2
        <5>3. CASE manifest'[m] # manifest[m]
          <6>1. manifest' = [manifest EXCEPT
                     ![req[r].im].seen = [q \in People |->
                          IF q \in req[r].who \ req[r].done THEN req[r].prev[q] ELSE @[q]],
                     ![req[r].im].done = req[r].done,
                     ![req[r].im].status = IF req[r].status = "previewed" THEN @ ELSE "previewed"]
            BY <2>13, <5>3 DEF PreviewUpdate
          <6>2. manifest'[m].seen = [q \in People |-> IF q \in req[r].who \ req[r].done
                                        THEN req[r].prev[q] ELSE manifest[m].seen[q]]
            BY <5>1, <5>3, <6>1 DEF TypeOK, Manifest
          <6> QED  BY <6>2
        <5> QED  BY <5>2, <5>3
      <4> QED  BY <3>1, <4>1 DEF Named, Names
    <3> QED  BY <2>13, <3>2, EndRests, RestMoves DEF PreviewUpdate
  <2> QED  BY <2>1, <2>2, <2>3, <2>4, <2>5, <2>6, <2>7, <2>8, <2>9, <2>10, <2>11, <2>12, <2>13
           DEF Staging
<1>3. ASSUME NEW r \in Requests, Confirming(r), UNCHANGED serial
      PROVE  Moves \/ \E s \in Requests : Put(s)
  <2> USE <1>3
  <2>1. CASE ConfirmLoad(r)
    <3>1. PICK m \in Imports : Begin(r, "confirm", "lock", m, manifest[m].files, manifest[m].seen)
      BY <2>1 DEF ConfirmLoad
    <3>2. \A q \in People : Named(q, manifest[m].seen[q])
      BY DEF Named, Names
    <3> QED  BY <2>1, <3>1, <3>2, BeginRests, RestMoves, SeenStays DEF ConfirmLoad
  <2>2. CASE ConfirmLock(r)
    <3>1. Rests(r)
      BY <2>2, ToLocal, EndRests DEF ConfirmLock, At
    <3> QED  BY <2>2, <3>1, RestMoves, SeenStays DEF ConfirmLock
  <2>3. CASE ConfirmCommit(r)
    <3>1. req[r] # Idle /\ req[r] \in Request /\ Local(r) /\ ~Storing(r)' /\ Storing(r)
      BY <2>3, ToLocal DEF ConfirmCommit, At, TypeOK, Storing
    <3>2. req'[r].who = req[r].who
      BY <2>3, <3>1 DEF ConfirmCommit, To, TypeOK, Request
    <3>3. \A p \in req[r].who : SavesNew(r, p)
      BY <2>3, <3>1 DEF ConfirmCommit, SavesNew, Set, Request
    <3>4. \A p \in People \ req[r].who : path'[p] = path[p]
      BY <2>3 DEF ConfirmCommit, Set
    <3>5. \A m \in Imports : manifest'[m].seen = manifest[m].seen
      BY <2>3 DEF ConfirmCommit, TypeOK, Manifest
    <3> QED  BY <2>3, <3>1, <3>2, <3>3, <3>4, <3>5, LocalMoves, SeenStays DEF ConfirmCommit
  <2>4. CASE ConfirmFails(r)
    <3>1. Rests(r) /\ Storing(r)
      BY <2>4, EndRests DEF ConfirmFails, At, Storing
    <3>2. store' \subseteq store /\ store \ store' \subseteq New(r)
      BY <2>4, LeftPart DEF ConfirmFails
    <3>3. \A o \in store \ store' : o \notin exposed' =>
              /\ \A p \in People : path'[p] # o
              /\ \A q \in Requests \ {r} : Storing(q) => \A p \in req[q].who : req[q].new[p] # o
      BY <2>4, <3>1, <3>2, UnsavedIsFree DEF ConfirmFails
    <3> QED  BY <2>4, <3>1, <3>2, <3>3, LocalMoves, SeenStays DEF ConfirmFails, Rests
  <2>5. CASE ConfirmClean(r)
    <3>1. Rests(r) /\ Cleaning(r)
      BY <2>5, EndRests, ToLocal DEF ConfirmClean, At, Cleaning
    <3>2. store' \subseteq store /\ store \ store' \subseteq Prev(r)
      BY <2>5, LeftPart DEF ConfirmClean
    <3>3. \A o \in store \ store' : o \notin exposed' =>
              /\ \A p \in People : path'[p] # o
              /\ \A q \in Requests \ {r} : Storing(q) => \A p \in req[q].who : req[q].new[p] # o
      BY <2>5, <3>1, <3>2, CleanedIsFree DEF ConfirmClean
    <3> QED  BY <2>5, <3>1, <3>2, <3>3, LocalMoves, SeenStays DEF ConfirmClean, Rests
  <2>6. CASE ItemsLoad(r)
    <3>1. /\ \A q \in Requests \ {r} : req'[q] = req[q]
          /\ req'[r].prev = Nothing /\ req'[r].pc = "item"
      BY <2>6 DEF ItemsLoad, TypeOK
    <3>2. Rests(r)
      BY <3>1 DEF Rests, Local, Storing, Cleaning, Named, Nothing
    <3> QED  BY <2>6, <3>2, RestMoves, SeenStays DEF ItemsLoad
  <2>7. CASE ItemLoad(r)
    <3>1. req[r] # Idle /\ req[r] \in Request /\ req[r].pc = "item"
      BY <2>7 DEF ItemLoad, At, TypeOK
    <3>2. PICK p \in req[r].todo :
             req' = [req EXCEPT ![r] =
                IF p \in temps[req[r].im]
                THEN [[req[r] EXCEPT !.todo = @ \ {p}, !.prev[p] = path[p]]
                         EXCEPT !.pc = "put", !.who = {p}]
                ELSE [[req[r] EXCEPT !.todo = @ \ {p}, !.prev[p] = path[p]]
                         EXCEPT !.back = {p}, !.status = "partial"]]
      BY <2>7 DEF ItemLoad
    <3>3. /\ \A q \in Requests \ {r} : req'[q] = req[q]
          /\ req'[r].prev = [req[r].prev EXCEPT ![p] = path[p]]
          /\ req'[r].pc \in {"put", "item"}
      BY <3>1, <3>2 DEF TypeOK, Request
    <3>4. Rests(r)
      BY <3>1, <3>3 DEF Rests, Local, Storing, Cleaning, Named, Names, Request, Paths
    <3> QED  BY <2>7, <3>4, RestMoves, SeenStays DEF ItemLoad
  <2>8. CASE ItemCommit(r)
    <3>1. req[r] # Idle /\ req[r] \in Request /\ Storing(r)
      BY <2>8 DEF ItemCommit, At, TypeOK, Storing
    <3>2. /\ \A q \in Requests \ {r} : req'[q] = req[q]
          /\ req'[r].prev = req[r].prev /\ req'[r].who = req[r].who /\ req'[r].pc = "clean"
      BY <2>8, <3>1 DEF ItemCommit, TypeOK, Request
    <3>3. Local(r) /\ ~Storing(r)'
      BY <3>1, <3>2 DEF Local, Storing, Named, Names
    <3>4. \A p \in req[r].who : SavesNew(r, p)
      BY <2>8, <3>1, <3>3 DEF ItemCommit, SavesNew, Request
    <3>5. \A p \in People \ req[r].who : path'[p] \in {path[p], None} \cup exposed'
      BY <2>8 DEF ItemCommit, Restored, Exposed, Set
    <3>6. \A m \in Imports : manifest'[m].seen = manifest[m].seen
      BY <2>8 DEF ItemCommit, TypeOK, Manifest
    <3>7. exposed \subseteq exposed'
      BY <2>8 DEF ItemCommit, Exposed
    <3> QED  BY <2>8, <3>2, <3>3, <3>4, <3>5, <3>6, <3>7, LocalMoves, SeenStays DEF ItemCommit
  <2>9. CASE ItemFails(r)
    <3>1. req[r] # Idle /\ req[r] \in Request
      BY <2>9 DEF ItemFails, TypeOK
    <3>2. /\ \A q \in Requests \ {r} : req'[q] = req[q]
          /\ req'[r].prev = req[r].prev /\ req'[r].pc = "item"
      BY <2>9, <3>1 DEF ItemFails, TypeOK, Request
    <3>3. Rests(r)
      BY <3>1, <3>2 DEF Rests, Local, Storing, Cleaning, Named, Names
    <3>4. store' \subseteq store /\ store \ store' \subseteq New(r)
      BY <2>9, LeftPart DEF ItemFails
    <3>5. store' # store => Storing(r)
      BY <2>9, <3>1 DEF ItemFails, Storing
    <3>6. \A o \in store \ store' : o \notin exposed' =>
              /\ \A p \in People : path'[p] # o
              /\ \A q \in Requests \ {r} : Storing(q) => \A p \in req[q].who : req[q].new[p] # o
      BY <2>9, <3>4, <3>5, UnsavedIsFree DEF ItemFails
    <3> QED  BY <2>9, <3>3, <3>4, <3>6, LocalMoves, SeenStays DEF ItemFails, Rests
  <2>10. CASE ItemClean(r)
    <3>1. Rests(r) /\ Cleaning(r)
      BY <2>10, EndRests, ToLocal DEF ItemClean, At, Cleaning
    <3>2. store' \subseteq store /\ store \ store' \subseteq Prev(r)
      BY <2>10, LeftPart DEF ItemClean
    <3>3. \A o \in store \ store' : o \notin exposed' =>
              /\ \A p \in People : path'[p] # o
              /\ \A q \in Requests \ {r} : Storing(q) => \A p \in req[q].who : req[q].new[p] # o
      BY <2>10, <3>1, <3>2, CleanedIsFree DEF ItemClean
    <3> QED  BY <2>10, <3>1, <3>2, <3>3, LocalMoves, SeenStays DEF ItemClean, Rests
  <2>11. CASE ItemsFinish(r)
    <3>1. Rests(r)
      BY <2>11, EndRests DEF ItemsFinish
    <3>2. \A m \in Imports : manifest'[m].seen = manifest[m].seen
      BY <2>11 DEF ItemsFinish, TypeOK, Manifest
    <3>3. \A p \in People : path'[p] \in {path[p], None} \cup exposed'
      BY <2>11 DEF ItemsFinish, Restored, Exposed, Set
    <3>4. exposed \subseteq exposed'
      BY <2>11 DEF ItemsFinish, Exposed
    <3> QED  BY <2>11, <3>1, <3>2, <3>3, <3>4, LocalMoves, SeenStays DEF ItemsFinish, Rests
  <2> QED  BY <2>1, <2>2, <2>3, <2>4, <2>5, <2>6, <2>7, <2>8, <2>9, <2>10, <2>11 DEF Confirming
<1>4. CASE ~serial /\ EditPath /\ UNCHANGED serial
  <2>1. SeenNamed
    BY <1>4, SeenStays DEF EditPath
  <2>2. exposed \subseteq exposed' /\ \A p \in People : path'[p] \in {path[p], None} \cup exposed'
    BY <1>4 DEF EditPath, TypeOK
  <2>3. \A r \in Requests, p \in People : req'[r] # Idle => Named(p, req'[r].prev[p])
    BY <1>4 DEF EditPath, Named, Names
  <2> QED  BY <1>4, <2>1, <2>2, <2>3 DEF EditPath, Moves, SeenNamed, Storing, Cleaning
<1>5. CASE ~serial /\ Crash /\ UNCHANGED serial
  <2>1. SeenNamed
    BY <1>5, SeenStays DEF Crash
  <2> QED  BY <1>5, <2>1 DEF Crash, Moves, SeenNamed, Storing, Cleaning
<1>6. CASE Expire /\ UNCHANGED serial
  <2>1. \A m \in Imports : manifest'[m].seen = manifest[m].seen
    BY <1>6 DEF Expire, TypeOK, Manifest
  <2>2. SeenNamed
    BY <2>1, SeenStays
  <2>3. \A r \in Requests, p \in People : req'[r] # Idle => Named(p, req'[r].prev[p])
    BY <1>6 DEF Expire, Named, Names
  <2> QED  BY <1>6, <2>2, <2>3 DEF Expire, Moves, SeenNamed, Storing, Cleaning
<1>7. CASE UNCHANGED vars
  <2>1. SeenNamed
    BY <1>7, SeenStays DEF vars
  <2>2. \A r \in Requests, p \in People : req'[r] # Idle => Named(p, req'[r].prev[p])
    BY <1>7 DEF vars, Named, Names
  <2> QED  BY <1>7, <2>1, <2>2 DEF vars, Moves, SeenNamed, Storing, Cleaning
<1> QED  BY <1>1, <1>2, <1>3, <1>4, <1>5, <1>6, <1>7 DEF Next

\* New objects are named by nobody, and known to the request that stores them.
LEMMA PutKeeps ==
    ASSUME TypeOK, TypeOK', RefInv, NEW r \in Requests, Put(r)
    PROVE  RefInv'
<1> DEFINE end == fresh + Cardinality(req[r].who)
<1>1. PICK new \in [req[r].who -> fresh + 1 .. end] :
         /\ \A p, q \in req[r].who : new[p] = new[q] => p = q
         /\ store' = store \cup {new[p] : p \in req[r].who}
         /\ req' = [req EXCEPT ![r].new = [p \in People |->
                       IF p \in req[r].who THEN new[p] ELSE None], ![r].pc = "commit"]
  BY DEF Put
<1>2. req[r] # Idle /\ req[r] \in Request /\ req[r].who \in SUBSET People /\ req[r].pc = "put"
  BY DEF Put, TypeOK, Request
<1>3. end \in Nat /\ fresh \in Nat /\ fresh <= end /\ fresh' = end
  BY <1>2, Basics DEF Put, TypeOK
<1>4. /\ \A q \in Requests \ {r} : req'[q] = req[q]
      /\ req'[r].who = req[r].who /\ req'[r].prev = req[r].prev /\ req'[r].pc = "commit"
      /\ \A p \in req[r].who : req'[r].new[p] = new[p]
      /\ \A q \in Requests : req'[q] # Idle => req[q] # Idle
  BY <1>1, <1>2 DEF TypeOK, Request
<1>5. UNCHANGED <<path, manifest, exposed>> /\ store \subseteq store'
  BY <1>1 DEF Put
<1> HIDE DEF end
<1>6. \A p \in People, o \in Objects : Names(p, o)' => Names(p, o)
  BY <1>4, <1>5 DEF Names
<1>7. /\ 0 .. fresh \subseteq 0 .. end /\ 1 .. fresh \subseteq 1 .. end
      /\ fresh + 1 .. end \subseteq 1 .. end
  BY <1>3
<1>8. \A p \in req[r].who : new[p] \in fresh + 1 .. end /\ new[p] \in store'
  BY <1>1
<1>9. \A p \in People : \A o : Names(p, o) => o \in 0 .. fresh
  BY DEF RefInv, Names, NamedInv, TypeOK
<1>10. \A q \in Requests \ {r} : Storing(q)' => Storing(q) /\ req'[q] = req[q]
  BY <1>4 DEF Storing
<1>11. NamedInv'
  BY <1>3, <1>4, <1>5, <1>7 DEF RefInv, NamedInv
<1>12. OwnInv'
  BY <1>5, <1>6 DEF RefInv, OwnInv
<1>13. NewInv'
  <2>1. ASSUME NEW q \in Requests, Storing(q)', NEW p \in req'[q].who
        PROVE  /\ req'[q].new[p] \in 1 .. fresh'
               /\ req'[q].new[p] \in store' \cup exposed'
               /\ req'[q].new[p] \notin exposed' => \A s \in People : ~Names(s, req[q].new[p])'
    <3>1. PICK o : o = req'[q].new[p]
      OBVIOUS
    <3>2. \A s \in People : Names(s, o)' => Names(s, o)
      BY <1>4, <1>5 DEF Names
    <3>3. CASE q = r
      <4>1. o \in fresh + 1 .. end /\ o \in store'
        BY <1>4, <1>8, <2>1, <3>1, <3>3
      <4>2. o \notin 0 .. fresh
        BY <1>3, <4>1
      <4>3. \A s \in People : ~Names(s, o)'
        BY <1>9, <3>2, <4>2
      <4>4. \A s \in People : ~Names(s, req[q].new[p])'
        BY <3>1, <4>3 DEF Names
      <4> QED  BY <1>3, <1>7, <3>1, <4>1, <4>4
    <3>4. CASE q # r
      <4>1. Storing(q) /\ req'[q] = req[q] /\ p \in req[q].who /\ o = req[q].new[p]
        BY <1>10, <2>1, <3>1, <3>4
      <4>2. /\ o \in 1 .. fresh /\ o \in store \cup exposed
            /\ o \notin exposed => \A s \in People : ~Names(s, o)
        BY <4>1 DEF RefInv, NewInv
      <4>3. o \notin exposed => \A s \in People : ~Names(s, o)'
        BY <3>2, <4>2
      <4>4. o \notin exposed => \A s \in People : ~Names(s, req[q].new[p])'
        BY <3>1, <4>3 DEF Names
      <4> QED  BY <1>3, <1>5, <1>7, <3>1, <4>2, <4>4
    <3> QED  BY <3>3, <3>4
  <2>2. ASSUME NEW q \in Requests, NEW s \in Requests, Storing(q)', Storing(s)',
               NEW p \in req'[q].who, NEW t \in req'[s].who, req'[q].new[p] = req'[s].new[t]
        PROVE  q = s /\ p = t
    <3>1. CASE q = r /\ s = r
      <4>1. p \in req[r].who /\ t \in req[r].who
        BY <1>4, <2>2, <3>1
      <4>2. req'[r].new[p] = new[p] /\ req'[r].new[t] = new[t]
        BY <1>4, <4>1
      <4> QED  BY <1>1, <2>2, <3>1, <4>1, <4>2
    <3>2. CASE q # r /\ s # r
      BY <1>10, <2>2, <3>2 DEF RefInv, NewInv
    <3>3. ASSUME NEW u \in Requests, u # r, Storing(u)', NEW v \in req'[u].who
          PROVE  req'[u].new[v] \notin fresh + 1 .. end
      <4>1. req'[u].new[v] \in 1 .. fresh
        BY <1>10, <3>3 DEF RefInv, NewInv
      <4> QED  BY <1>3, <4>1
    <3>4. \A v \in req'[r].who : req'[r].new[v] \in fresh + 1 .. end
      BY <1>4, <1>8
    <3> QED  BY <2>2, <3>1, <3>2, <3>3, <3>4
  <2> QED  BY <2>1, <2>2 DEF NewInv
<1>14. CleanInv'
  BY <1>4, <1>5 DEF RefInv, CleanInv, Cleaning
<1>15. ReferencesHold'
  BY <1>5 DEF RefInv, ReferencesHold
<1> QED  BY <1>11, <1>12, <1>13, <1>14, <1>15 DEF RefInv

\* Every step keeps the references.
LEMMA RefStep ==
    ASSUME TypeOK, RefInv, [Next]_vars
    PROVE  TypeOK' /\ RefInv'
<1>1. TypeOK'
  BY TypeStep
<1>2. CASE Moves
  BY <1>1, <1>2, MovesKeep
<1>3. CASE \E s \in Requests : Put(s)
  BY <1>1, <1>3, PutKeeps
<1> QED  BY <1>1, <1>2, <1>3, MovesStep

(***************************************************************************)
(* Row locks.                                                              *)
(***************************************************************************)
\* What a step of r leaves to the other requests: themselves, and the rows they
\* hold.
Respects(r) ==
    /\ \A q \in Requests \ {r} : req'[q] = req[q]
    /\ \A p \in People, q \in Requests \ {r} : lock[p] = q =>
           lock'[p] = q /\ (p \in Students => path'[p] = path[p])

\* A request at work is not idle.
LEMMA Working == \A x \in Request : x # Idle
BY IdleAssumption

\* If a step respects the other requests, only its own request has to be looked at.
LEMMA RespectKeeps ==
    ASSUME TypeOK, LockInv, NEW r \in Requests, Respects(r), Locks(r)'
    PROVE  LockInv'
<1> SUFFICES ASSUME NEW q \in Requests \ {r}, req'[q] # Idle PROVE Locks(q)'
  BY DEF LockInv, Locks
<1>1. req'[q] = req[q] /\ req[q] \in Request /\ req[q].who \subseteq People
  BY DEF Respects, TypeOK, Request
<1> QED  BY <1>1 DEF LockInv, Locks, Respects

\* The request itself after it began, went on, or ended.
LEMMA Beginning ==
    ASSUME TypeOK, NEW r \in Requests, NEW op, NEW pc, NEW im, NEW who, NEW prev,
           Begin(r, op, pc, im, who, prev)
    PROVE  /\ req[r] = Idle /\ \A q \in Requests \ {r} : req'[q] = req[q]
           /\ req'[r].op = op /\ req'[r].pc = pc /\ req'[r].im = im /\ req'[r].who = who
           /\ req'[r].prev = prev /\ req'[r].todo = {} /\ req'[r].back = {}
           /\ im # Idle => req'[r].done = manifest[im].done
           /\ im # Idle => req'[r].status = manifest[im].status
<1>1. req'[r] = [op |-> op, pc |-> pc, im |-> im, who |-> who, prev |-> prev,
                 new |-> Nothing, todo |-> {},
                 done |-> IF im = Idle THEN {} ELSE manifest[im].done, back |-> {},
                 status |-> IF im = Idle THEN "absent" ELSE manifest[im].status]
  BY DEF TypeOK, Begin
<1> QED  BY <1>1 DEF TypeOK, Begin

\* The request after a statement that sets nothing but its place.
LEMMA GoingOn ==
    ASSUME TypeOK, NEW r \in Requests, req[r] # Idle, NEW pc, To(r, pc)
    PROVE  /\ \A q \in Requests \ {r} : req'[q] = req[q]
           /\ req'[r].pc = pc /\ req'[r].op = req[r].op /\ req'[r].im = req[r].im
           /\ req'[r].who = req[r].who /\ req'[r].prev = req[r].prev
           /\ req'[r].new = req[r].new /\ req'[r].todo = req[r].todo
           /\ req'[r].done = req[r].done /\ req'[r].back = req[r].back
           /\ req'[r].status = req[r].status
<1>1. req'[r] = [req[r] EXCEPT !.pc = pc] /\ \A q \in Requests \ {r} : req'[q] = req[q]
  BY DEF TypeOK, To
<1>2. req[r] \in Request
  BY DEF TypeOK
<1> QED  BY <1>1, <1>2 DEF Request

\* The request after its end: idle, and the rows of others still locked.
LEMMA Ending ==
    ASSUME TypeOK, NEW r \in Requests, End(r)
    PROVE  /\ req'[r] = Idle /\ \A q \in Requests \ {r} : req'[q] = req[q]
           /\ \A p \in People, q \in Requests \ {r} : lock[p] = q => lock'[p] = q
BY DEF TypeOK, End

\* The end of a request gives back its rows only.
LEMMA EndLocks ==
    ASSUME TypeOK, LockInv, NEW r \in Requests, End(r), UNCHANGED path
    PROVE  LockInv'
BY Ending, RespectKeeps DEF Respects, Locks

\* A statement before the rows are needed asks for none.
LEMMA ToLocks ==
    ASSUME TypeOK, LockInv, NEW r \in Requests, req[r] # Idle, NEW pc, To(r, pc),
           UNCHANGED <<path, lock>>, pc \notin {"put", "commit", "removed"}
    PROVE  LockInv'
BY GoingOn, RespectKeeps DEF Respects, Locks, LockInv

\* Nothing is locked at the beginning.
LEMMA BeginLocks ==
    ASSUME TypeOK, LockInv, NEW r \in Requests, NEW op, NEW pc, NEW im, NEW who, NEW prev,
           Begin(r, op, pc, im, who, prev), UNCHANGED <<path, lock>>,
           pc # "removed", op = "confirm" => pc \notin {"put", "commit"}
    PROVE  LockInv'
<1>1. Respects(r)
  BY Beginning DEF Respects
<1>2. /\ req'[r].op = op /\ req'[r].pc = pc
      /\ req'[r].todo = {} /\ req'[r].back = {}
  BY Beginning
<1>3. Locks(r)'
  BY <1>2 DEF Locks
<1> QED  BY <1>1, <1>3, RespectKeeps

\* Every step keeps the rows locked and as they were previewed.
LEMMA LockStep ==
    ASSUME TypeOK, LockInv, [Next]_vars
    PROVE  LockInv'
<1>1. ASSUME NEW r \in Requests, OnePhoto(r), UNCHANGED serial
      PROVE  LockInv'
  <2> USE <1>1
  <2>1. CASE UploadLoad(r)
    <3>1. PICK p \in People : Begin(r, "upload", "put", Idle, {p}, [Nothing EXCEPT ![p] = path[p]])
      BY <2>1 DEF UploadLoad
    <3> QED  BY <2>1, <3>1, BeginLocks DEF UploadLoad
  <2>2. CASE Put(r)
    <3>1. req[r] # Idle /\ req[r] \in Request /\ req[r].pc = "put"
      BY <2>2 DEF Put, TypeOK
    <3>2. /\ \A q \in Requests \ {r} : req'[q] = req[q]
          /\ req'[r].who = req[r].who /\ req'[r].prev = req[r].prev /\ req'[r].pc = "commit"
          /\ req'[r].op = req[r].op /\ req'[r].todo = req[r].todo /\ req'[r].back = req[r].back
      BY <2>2, <3>1 DEF Put, TypeOK, Request
    <3>3. UNCHANGED <<path, lock>>
      BY <2>2 DEF Put
    <3> QED  BY <3>1, <3>2, <3>3, RespectKeeps DEF Respects, Locks, LockInv
  <2>3. CASE PutFails(r)
    BY <2>3, EndLocks DEF PutFails
  <2>4. CASE UploadCommit(r)
    <3>1. /\ \A q \in Requests \ {r} : req'[q] = req[q]
          /\ req'[r].pc = "clean" /\ req'[r].todo = req[r].todo /\ req'[r].back = req[r].back
          /\ req[r] # Idle
      BY <2>4, GoingOn DEF UploadCommit, At
    <3>2. \A p \in People, q \in Requests \ {r} : lock[p] = q => p \notin req[r].who
      BY <2>4, Basics DEF UploadCommit, Unlocked
    <3>3. \A p \in People \ req[r].who : path'[p] = path[p]
      BY <2>4 DEF UploadCommit, Set
    <3>4. Respects(r)
      BY <2>4, <3>1, <3>2, <3>3, Basics DEF UploadCommit, Respects, People
    <3> QED  BY <3>1, <3>4, RespectKeeps DEF Locks, LockInv
  <2>5. CASE UploadFails(r)
    BY <2>5, EndLocks DEF UploadFails
  <2>6. CASE UploadClean(r)
    BY <2>6, EndLocks DEF UploadClean
  <2>7. CASE RemoveLoad(r)
    <3>1. PICK p \in People :
            Begin(r, "remove", "remove", Idle, {p}, [Nothing EXCEPT ![p] = path[p]])
      BY <2>7 DEF RemoveLoad
    <3> QED  BY <2>7, <3>1, BeginLocks DEF RemoveLoad
  <2>8. CASE StudentObjectRemoved(r)
    <3>1. /\ \A q \in Requests \ {r} : req'[q] = req[q]
          /\ req'[r].pc = "removed" /\ req'[r].todo = req[r].todo /\ req'[r].back = req[r].back
          /\ req'[r].who = req[r].who /\ req[r] # Idle /\ req[r].who \subseteq People
      BY <2>8, GoingOn DEF StudentObjectRemoved, At, TypeOK, Request
    <3>2. Respects(r)
      BY <2>8, <3>1, Basics DEF StudentObjectRemoved, Respects, Unlocked
    <3>3. \A p \in req[r].who : lock'[p] = r
      BY <2>8, <3>1 DEF StudentObjectRemoved
    <3> QED  BY <3>1, <3>2, <3>3, RespectKeeps DEF Locks, LockInv
  <2>9. CASE StudentRemoveCommit(r)
    <3>1. req[r] # Idle /\ \A p \in req[r].who : lock[p] = r
      BY <2>9 DEF StudentRemoveCommit, At, LockInv, Locks
    <3>2. \A p \in People \ req[r].who : path'[p] = path[p]
      BY <2>9 DEF StudentRemoveCommit, Set
    <3>3. Respects(r) /\ req'[r] = Idle
      BY <2>9, <3>1, <3>2, Ending, Basics DEF StudentRemoveCommit, Respects, People
    <3> QED  BY <3>3, RespectKeeps DEF Locks
  <2>10. CASE PersonnelRemoveCommit(r)
    <3>1. /\ \A q \in Requests \ {r} : req'[q] = req[q]
          /\ req'[r].pc = "clean" /\ req'[r].todo = req[r].todo /\ req'[r].back = req[r].back
          /\ req[r] # Idle
      BY <2>10, GoingOn DEF PersonnelRemoveCommit, At
    <3>2. \A p \in Students : path'[p] = path[p]
      BY <2>10, Basics DEF PersonnelRemoveCommit, Set, People
    <3>3. Respects(r)
      BY <2>10, <3>1, <3>2 DEF PersonnelRemoveCommit, Respects
    <3> QED  BY <3>1, <3>3, RespectKeeps DEF Locks, LockInv
  <2>11. CASE PersonnelRemoveClean(r)
    BY <2>11, EndLocks DEF PersonnelRemoveClean
  <2>12. CASE RemoveFails(r)
    BY <2>12, EndLocks DEF RemoveFails
  <2> QED  BY <2>1, <2>2, <2>3, <2>4, <2>5, <2>6, <2>7, <2>8, <2>9, <2>10, <2>11, <2>12 DEF
           OnePhoto
<1>2. ASSUME NEW r \in Requests, Staging(r), UNCHANGED serial
      PROVE  LockInv'
  <2> USE <1>2
  <2>1. CASE ImportBegin(r)
    BY <2>1, BeginLocks DEF ImportBegin
  <2>2. CASE SweepNext(r)
    <3>1. req[r] # Idle /\ req[r] \in Request
      BY <2>2 DEF SweepNext, At, TypeOK
    <3>2. /\ \A q \in Requests \ {r} : req'[q] = req[q]
          /\ req'[r].pc \in {"temps", "stage", "update"}
          /\ req'[r].todo = req[r].todo /\ req'[r].back = req[r].back
      BY <2>2, <3>1 DEF SweepNext, TypeOK, Request
    <3>3. Respects(r)
      BY <2>2, <3>2 DEF SweepNext, Respects
    <3> QED  BY <3>1, <3>2, <3>3, RespectKeeps DEF Locks, LockInv
  <2>3. CASE SweepDone(r)
    <3>1. req[r] # Idle /\ req[r] \in Request
      BY <2>3 DEF SweepDone, At, TypeOK
    <3>2. /\ \A q \in Requests \ {r} : req'[q] = req[q]
          /\ req'[r].pc \in {"temps", "stage", "update"}
          /\ req'[r].todo = req[r].todo /\ req'[r].back = req[r].back
      BY <2>3, <3>1 DEF SweepDone, TypeOK, Request
    <3>3. Respects(r)
      BY <2>3, <3>2 DEF SweepDone, Respects
    <3> QED  BY <3>1, <3>2, <3>3, RespectKeeps DEF Locks, LockInv
  <2>4. CASE ExpiredLoad(r)
    BY <2>4, BeginLocks DEF ExpiredLoad
  <2>5. CASE SweepTemps(r)
    BY <2>5, EndLocks, ToLocks DEF SweepTemps, SweptTo, At
  <2>6. CASE SweepRow(r)
    BY <2>6, EndLocks, ToLocks DEF SweepRow, SweptTo, At
  <2>7. CASE Stage(r)
    <3>1. PICK m \in Imports : req' = [req EXCEPT ![r].pc = "insert", ![r].im = m]
      BY <2>7 DEF Stage
    <3>2. req[r] # Idle /\ req[r] \in Request
      BY <2>7 DEF Stage, At, TypeOK
    <3>3. /\ \A q \in Requests \ {r} : req'[q] = req[q]
          /\ req'[r].pc = "insert" /\ req'[r].todo = req[r].todo /\ req'[r].back = req[r].back
      BY <3>1, <3>2 DEF TypeOK, Request
    <3>4. Respects(r)
      BY <2>7, <3>3 DEF Stage, Respects
    <3> QED  BY <3>2, <3>3, <3>4, RespectKeeps DEF Locks, LockInv
  <2>8. CASE StageFails(r)
    BY <2>8, EndLocks DEF StageFails
  <2>9. CASE Insert(r)
    BY <2>9, EndLocks DEF Insert
  <2>10. CASE InsertFails(r)
    BY <2>10, EndLocks DEF InsertFails
  <2>11. CASE PreviewLoad(r)
    BY <2>11, BeginLocks DEF PreviewLoad
  <2>12. CASE PreviewMatch(r)
    <3>1. req[r] # Idle /\ req[r] \in Request
      BY <2>12 DEF PreviewMatch, At, TypeOK
    <3>2. /\ \A q \in Requests \ {r} : req'[q] = req[q]
          /\ req'[r].pc \in {"temps", "stage", "update"}
          /\ req'[r].todo = req[r].todo /\ req'[r].back = req[r].back
      BY <2>12, <3>1 DEF PreviewMatch, TypeOK, Request
    <3>3. Respects(r)
      BY <2>12, <3>2 DEF PreviewMatch, Respects
    <3> QED  BY <3>1, <3>2, <3>3, RespectKeeps DEF Locks, LockInv
  <2>13. CASE PreviewUpdate(r)
    BY <2>13, EndLocks DEF PreviewUpdate
  <2> QED  BY <2>1, <2>2, <2>3, <2>4, <2>5, <2>6, <2>7, <2>8, <2>9, <2>10, <2>11, <2>12, <2>13
           DEF Staging
<1>3. ASSUME NEW r \in Requests, Confirming(r), UNCHANGED serial
      PROVE  LockInv'
  <2> USE <1>3
  <2>1. CASE ConfirmLoad(r)
    BY <2>1, BeginLocks DEF ConfirmLoad
  <2>2. CASE ConfirmLock(r)
    <3>1. CASE ~Confirmable(r)
      BY <2>2, <3>1, EndLocks DEF ConfirmLock
    <3>2. CASE Confirmable(r)
      <4>1. /\ \A q \in Requests \ {r} : req'[q] = req[q]
            /\ req'[r].pc = "put" /\ req'[r].todo = req[r].todo /\ req'[r].back = req[r].back
            /\ req'[r].op = "confirm" /\ req'[r].who = req[r].who /\ req'[r].prev = req[r].prev
            /\ req[r] # Idle
        BY <2>2, <3>2, GoingOn DEF ConfirmLock, At
      <4>2. Respects(r)
        BY <2>2, <3>2, <4>1, Basics DEF ConfirmLock, Respects, Unlocked
      <4>3. \A p \in req[r].who \cap Students : lock'[p] = r /\ path'[p] = req[r].prev[p]
        BY <2>2, <3>2 DEF ConfirmLock, Confirmable, People
      <4> QED  BY <4>1, <4>2, <4>3, RespectKeeps DEF Locks, LockInv
    <3> QED  BY <3>1, <3>2
  <2>3. CASE ConfirmCommit(r)
    <3>1. /\ \A q \in Requests \ {r} : req'[q] = req[q]
          /\ req'[r].pc = "clean" /\ req'[r].todo = req[r].todo /\ req'[r].back = req[r].back
          /\ req[r] # Idle
      BY <2>3, GoingOn DEF ConfirmCommit, At
    <3>2. \A p \in req[r].who : lock[p] = r
      BY <2>3 DEF ConfirmCommit, At, LockInv, Locks
    <3>3. \A p \in People \ req[r].who : path'[p] = path[p]
      BY <2>3 DEF ConfirmCommit, Set
    <3>4. Respects(r)
      BY <2>3, <3>1, <3>2, <3>3, Basics DEF ConfirmCommit, Respects, People
    <3> QED  BY <3>1, <3>4, RespectKeeps DEF Locks, LockInv
  <2>4. CASE ConfirmFails(r)
    BY <2>4, EndLocks DEF ConfirmFails
  <2>5. CASE ConfirmClean(r)
    BY <2>5, EndLocks DEF ConfirmClean
  <2>6. CASE ItemsLoad(r)
    <3>1. PICK m \in Imports : /\ manifest[m].files \subseteq Personnel
             /\ req' = [req EXCEPT ![r] =
                   [op |-> "confirm", pc |-> "item", im |-> m, who |-> {}, prev |-> Nothing,
                    new |-> Nothing, todo |-> manifest[m].files \ manifest[m].done,
                    done |-> manifest[m].done, back |-> {}, status |-> "completed"]]
      BY <2>6 DEF ItemsLoad
    <3>2. /\ \A q \in Requests \ {r} : req'[q] = req[q]
          /\ req'[r].pc = "item" /\ req'[r].todo \cup req'[r].back \subseteq Personnel
      BY <3>1 DEF TypeOK
    <3>3. Respects(r)
      BY <2>6, <3>2 DEF ItemsLoad, Respects
    <3> QED  BY <3>2, <3>3, RespectKeeps DEF Locks
  <2>7. CASE ItemLoad(r)
    <3>1. /\ req[r] # Idle /\ req[r] \in Request /\ req[r].pc = "item"
          /\ req[r].todo \subseteq Personnel
          /\ req[r].back \subseteq Personnel
      BY <2>7 DEF ItemLoad, At, TypeOK, LockInv, Locks
    <3>2. PICK p \in req[r].todo :
             req' = [req EXCEPT ![r] =
                IF p \in temps[req[r].im]
                THEN [[req[r] EXCEPT !.todo = @ \ {p}, !.prev[p] = path[p]]
                         EXCEPT !.pc = "put", !.who = {p}]
                ELSE [[req[r] EXCEPT !.todo = @ \ {p}, !.prev[p] = path[p]]
                         EXCEPT !.back = {p}, !.status = "partial"]]
      BY <2>7 DEF ItemLoad
    <3>3. /\ \A q \in Requests \ {r} : req'[q] = req[q]
          /\ req'[r].todo \subseteq req[r].todo
          /\ req'[r].back = req[r].back \/ req'[r].back = {p}
          /\ \/ req'[r].pc = "put" /\ req'[r].who = {p}
             \/ req'[r].pc = "item"
      BY <3>1, <3>2 DEF TypeOK, Request
    <3>4. Respects(r)
      BY <2>7, <3>3 DEF ItemLoad, Respects
    <3>5. Locks(r)'
      BY <3>1, <3>3, Basics DEF Locks
    <3> QED  BY <3>4, <3>5, RespectKeeps
  <2>8. CASE ItemCommit(r)
    <3>1. req[r] # Idle /\ req[r] \in Request /\ req[r].back \subseteq Personnel
          /\ req[r].todo \subseteq Personnel
      BY <2>8 DEF ItemCommit, At, TypeOK, LockInv, Locks
    <3>2. /\ \A q \in Requests \ {r} : req'[q] = req[q]
          /\ req'[r].todo = req[r].todo /\ req'[r].back = {} /\ req'[r].pc = "clean"
      BY <2>8, <3>1 DEF ItemCommit, TypeOK, Request
    <3>3. \A p \in Students : path'[p] = path[p]
      BY <2>8, <3>1, Basics DEF ItemCommit, Restored, Set, People
    <3>4. Respects(r)
      BY <2>8, <3>2, <3>3 DEF ItemCommit, Respects
    <3> QED  BY <3>1, <3>2, <3>4, RespectKeeps DEF Locks
  <2>9. CASE ItemFails(r)
    <3>1. req[r] # Idle /\ req[r] \in Request /\ req[r].who \subseteq Personnel
          /\ req[r].todo \subseteq Personnel
      BY <2>9 DEF ItemFails, TypeOK, LockInv, Locks
    <3>2. /\ \A q \in Requests \ {r} : req'[q] = req[q]
          /\ req'[r].todo = req[r].todo /\ req'[r].back = req[r].who /\ req'[r].pc = "item"
      BY <2>9, <3>1 DEF ItemFails, TypeOK, Request
    <3>3. Respects(r)
      BY <2>9, <3>2 DEF ItemFails, Respects
    <3> QED  BY <3>1, <3>2, <3>3, RespectKeeps DEF Locks
  <2>10. CASE ItemClean(r)
    BY <2>10, ToLocks DEF ItemClean, At
  <2>11. CASE ItemsFinish(r)
    <3>1. req[r].back \subseteq Personnel
      BY <2>11 DEF ItemsFinish, At, LockInv, Locks
    <3>2. \A p \in Students : path'[p] = path[p]
      BY <2>11, <3>1, Basics DEF ItemsFinish, Restored, Set, People
    <3>3. Respects(r) /\ req'[r] = Idle
      BY <2>11, <3>2, Ending DEF ItemsFinish, Respects
    <3> QED  BY <3>3, RespectKeeps DEF Locks
  <2> QED  BY <2>1, <2>2, <2>3, <2>4, <2>5, <2>6, <2>7, <2>8, <2>9, <2>10, <2>11 DEF Confirming
<1>4. CASE ~serial /\ EditPath /\ UNCHANGED serial
  <2>1. PICK s \in Students, o \in 0 .. fresh :
           lock[s] = Idle /\ path' = [path EXCEPT ![s] = o]
    BY <1>4 DEF EditPath
  <2>2. \A p \in People : lock[p] # Idle => path'[p] = path[p]
    BY <2>1 DEF TypeOK
  <2>3. UNCHANGED <<lock, req>>
    BY <1>4 DEF EditPath
  <2> QED  BY <2>2, <2>3, Basics DEF LockInv, Locks, People
<1>5. CASE ~serial /\ Crash /\ UNCHANGED serial
  BY <1>5 DEF Crash, LockInv, Locks
<1>6. CASE Expire /\ UNCHANGED serial
  BY <1>6 DEF Expire, LockInv, Locks
<1>7. CASE UNCHANGED vars
  BY <1>7 DEF vars, LockInv, Locks
<1> QED  BY <1>1, <1>2, <1>3, <1>4, <1>5, <1>6, <1>7 DEF Next

\* A request changes no other one.
LEMMA Others ==
    ASSUME TypeOK, NEW r \in Requests,
           OnePhoto(r) \/ Staging(r) \/ Confirming(r)
    PROVE  \A q \in Requests \ {r} : req'[q] = req[q]
<1>1. CASE UploadLoad(r)
  BY <1>1 DEF UploadLoad, Begin, TypeOK
<1>2. CASE Put(r)
  BY <1>2 DEF Put, TypeOK, At
<1>3. CASE PutFails(r)
  BY <1>3 DEF PutFails, End, TypeOK
<1>4. CASE UploadCommit(r)
  BY <1>4 DEF UploadCommit, To, TypeOK
<1>5. CASE UploadFails(r)
  BY <1>5 DEF UploadFails, End, TypeOK
<1>6. CASE UploadClean(r)
  BY <1>6 DEF UploadClean, End, TypeOK
<1>7. CASE RemoveLoad(r)
  BY <1>7 DEF RemoveLoad, Begin, TypeOK
<1>8. CASE StudentObjectRemoved(r)
  BY <1>8 DEF StudentObjectRemoved, To, TypeOK
<1>9. CASE StudentRemoveCommit(r)
  BY <1>9 DEF StudentRemoveCommit, End, TypeOK
<1>10. CASE PersonnelRemoveCommit(r)
  BY <1>10 DEF PersonnelRemoveCommit, To, TypeOK
<1>11. CASE PersonnelRemoveClean(r)
  BY <1>11 DEF PersonnelRemoveClean, End, TypeOK
<1>12. CASE RemoveFails(r)
  BY <1>12 DEF RemoveFails, End, TypeOK
<1>13. CASE ImportBegin(r)
  BY <1>13 DEF ImportBegin, Begin, TypeOK
<1>14. CASE SweepNext(r)
  BY <1>14 DEF SweepNext, TypeOK, At
<1>15. CASE SweepDone(r)
  BY <1>15 DEF SweepDone, TypeOK, At
<1>16. CASE ExpiredLoad(r)
  BY <1>16 DEF ExpiredLoad, Begin, TypeOK
<1>17. CASE SweepTemps(r)
  BY <1>17 DEF SweepTemps, SweptTo, To, End, TypeOK
<1>18. CASE SweepRow(r)
  BY <1>18 DEF SweepRow, SweptTo, To, End, TypeOK
<1>19. CASE Stage(r)
  BY <1>19 DEF Stage, TypeOK, At
<1>20. CASE StageFails(r)
  BY <1>20 DEF StageFails, End, TypeOK
<1>21. CASE Insert(r)
  BY <1>21 DEF Insert, End, TypeOK
<1>22. CASE InsertFails(r)
  BY <1>22 DEF InsertFails, End, TypeOK
<1>23. CASE PreviewLoad(r)
  BY <1>23 DEF PreviewLoad, Begin, TypeOK
<1>24. CASE PreviewMatch(r)
  BY <1>24 DEF PreviewMatch, TypeOK, At
<1>25. CASE PreviewUpdate(r)
  BY <1>25 DEF PreviewUpdate, End, TypeOK
<1>26. CASE ConfirmLoad(r)
  BY <1>26 DEF ConfirmLoad, Begin, TypeOK
<1>27. CASE ConfirmLock(r)
  BY <1>27 DEF ConfirmLock, To, End, TypeOK
<1>28. CASE ConfirmCommit(r)
  BY <1>28 DEF ConfirmCommit, To, TypeOK
<1>29. CASE ConfirmFails(r)
  BY <1>29 DEF ConfirmFails, End, TypeOK
<1>30. CASE ConfirmClean(r)
  BY <1>30 DEF ConfirmClean, End, TypeOK
<1>31. CASE ItemsLoad(r)
  BY <1>31 DEF ItemsLoad, TypeOK, At
<1>32. CASE ItemLoad(r)
  BY <1>32 DEF ItemLoad, TypeOK, At
<1>33. CASE ItemCommit(r)
  BY <1>33 DEF ItemCommit, TypeOK, At
<1>34. CASE ItemFails(r)
  BY <1>34 DEF ItemFails, TypeOK, At
<1>35. CASE ItemClean(r)
  BY <1>35 DEF ItemClean, To, TypeOK
<1>36. CASE ItemsFinish(r)
  BY <1>36 DEF ItemsFinish, End, TypeOK
<1> QED  BY <1>1, <1>2, <1>3, <1>4, <1>5, <1>6, <1>7, <1>8, <1>9, <1>10, <1>11, <1>12, <1>13,
   <1>14, <1>15, <1>16, <1>17, <1>18, <1>19, <1>20, <1>21, <1>22, <1>23, <1>24, <1>25, <1>26,
   <1>27, <1>28, <1>29, <1>30, <1>31, <1>32, <1>33, <1>34, <1>35, <1>36 DEF OnePhoto, Staging,
   Confirming

(***************************************************************************)
(* Serial behaviours.  While r works the other requests are idle.          *)
(***************************************************************************)
Sole(r) == serial /\ serial' /\ \A q \in Requests \ {r} : req[q] = Idle /\ req'[q] = Idle

\* One request at a time remains one at a time.
LEMMA AloneKeeps ==
    ASSUME NEW r \in Requests, Sole(r)
    PROVE  AloneInv'
BY DEF Sole, AloneInv

\* What is kept in the bucket, seen from the request.
KeptBy(r, o) ==
    \E p \in People :
        \/ path[p] = o
        \/ Storing(r) /\ p \in req[r].who /\ req[r].new[p] = o
        \/ Cleaning(r) /\ p \in req[r].who /\ req[r].prev[p] = o

\* With one request, what is kept is what that request keeps.
LEMMA KeptSole ==
    ASSUME NEW r \in Requests, Sole(r), NEW o
    PROVE  (Kept(o) <=> KeptBy(r, o)) /\ (Kept(o)' <=> KeptBy(r, o)')
<1>1. \A q \in Requests : Storing(q) \/ Cleaning(q) => q = r
  BY DEF Sole, Storing, Cleaning
<1>2. \A q \in Requests : Storing(q)' \/ Cleaning(q)' => q = r
  BY DEF Sole, Storing, Cleaning
<1>3. Kept(o) <=> KeptBy(r, o)
  BY <1>1 DEF Kept, KeptBy
<1>4. Kept(o)' <=> KeptBy(r, o)'
  BY <1>2 DEF Kept, KeptBy
<1> QED  BY <1>3, <1>4

\* To keep the bucket accounted for it is enough to look at the request at work.
LEMMA BucketKeeps ==
    ASSUME NEW r \in Requests, Sole(r), Loaded(r)', \A o \in store' : o \in exposed' \/ Kept(o)'
    PROVE  BucketInv'
BY DEF Sole, BucketInv, Loaded

\* The request has stored nothing and has nothing to delete: the bucket at most
\* loses objects.
LEMMA BucketRests ==
    ASSUME NEW r \in Requests, Sole(r), BucketInv, ~Storing(r), ~Cleaning(r), Loaded(r)',
           path' = path, store' \subseteq store, exposed \subseteq exposed'
    PROVE  BucketInv'
<1>1. ASSUME NEW o \in store' PROVE o \in exposed' \/ Kept(o)'
  BY <1>1, KeptSole DEF KeptBy, BucketInv, Sole
<1> QED  BY <1>1, BucketKeeps

\* A transaction that saves what the request has stored: what it replaces is
\* deleted next.
LEMMA BucketSaves ==
    ASSUME NEW r \in Requests, Sole(r), TypeOK, BucketInv, Storing(r), Cleaning(r)', Loaded(r)',
           req'[r].who = req[r].who, req'[r].prev = req[r].prev,
           \A p \in req[r].who : path'[p] = req[r].new[p],
           \A p \in People \ req[r].who : path'[p] = path[p],
           store' = store, exposed \subseteq exposed'
    PROVE  BucketInv'
<1>1. req[r].who \subseteq People /\ ~Cleaning(r) /\ req[r].pc = "commit" /\ req[r] # Idle
  BY DEF Storing, Cleaning, TypeOK, Request
<1>2. \A p \in req[r].who : path[p] = req[r].prev[p]
  BY <1>1 DEF BucketInv, Loaded, Sole
<1>3. ASSUME NEW o \in store' PROVE o \in exposed' \/ Kept(o)'
  <2>1. CASE o \in exposed
    BY <2>1
  <2>2. ASSUME NEW p \in People, path[p] = o PROVE Kept(o)'
    BY <1>2, <2>2, KeptSole DEF KeptBy
  <2>3. ASSUME NEW p \in req[r].who, req[r].new[p] = o PROVE Kept(o)'
    BY <1>1, <2>3, KeptSole DEF KeptBy
  <2> QED  BY <1>1, <1>3, <2>1, <2>2, <2>3, KeptSole DEF KeptBy, BucketInv, Sole
<1> QED  BY <1>3, BucketKeeps

\* A transaction that fails: what was stored for it is deleted.
LEMMA BucketUndoes ==
    ASSUME NEW r \in Requests, Sole(r), TypeOK, BucketInv, Storing(r), Loaded(r)',
           path' = path, store' = store \ New(r), exposed' = exposed
    PROVE  BucketInv'
<1>1. ~Cleaning(r) /\ \A o \in store : o # None
  BY Basics DEF Storing, Cleaning, TypeOK
<1>2. ASSUME NEW o \in store' PROVE o \in exposed' \/ Kept(o)'
  BY <1>1, <1>2, KeptSole DEF KeptBy, BucketInv, Sole, New
<1> QED  BY <1>2, BucketKeeps

\* What was replaced is deleted.
LEMMA BucketCleans ==
    ASSUME NEW r \in Requests, Sole(r), TypeOK, BucketInv, Cleaning(r), Loaded(r)',
           path' = path, store' = store \ Prev(r), exposed' = exposed
    PROVE  BucketInv'
<1>1. ~Storing(r) /\ \A o \in store : o # None
  BY Basics DEF Storing, Cleaning, TypeOK
<1>2. ASSUME NEW o \in store' PROVE o \in exposed' \/ Kept(o)'
  BY <1>1, <1>2, KeptSole DEF KeptBy, BucketInv, Sole, Prev
<1> QED  BY <1>2, BucketKeeps

\* After a statement the request is at work still.
LEMMA StillWorking ==
    ASSUME TypeOK, NEW r \in Requests, req[r] # Idle, NEW pc, To(r, pc),
           pc \in {"put", "commit", "clean", "remove", "removed", "sweep", "temps", "row",
                   "stage", "insert", "match", "update", "lock", "item"}
    PROVE  req'[r] # Idle
<1>1. req'[r] = [req[r] EXCEPT !.pc = pc] /\ req[r] \in Request
  BY DEF TypeOK, To
<1>2. req'[r] \in Request
  BY <1>1 DEF Request
<1> QED  BY <1>2, Working

\* What the request has loaded, after it ended, went on or began.
LEMMA LoadedEnd ==
    ASSUME TypeOK, NEW r \in Requests, End(r)
    PROVE  Loaded(r)'
BY Ending DEF Loaded

\* A request that goes on to a place where it needs none of what it has loaded.
LEMMA LoadedTo ==
    ASSUME TypeOK, NEW r \in Requests, req[r] # Idle, NEW pc, To(r, pc), path' = path, Loaded(r),
           pc \notin {"put", "commit", "remove", "removed"}
    PROVE  Loaded(r)'
BY GoingOn DEF Loaded

\* A request that begins with what it has read.
LEMMA LoadedBegin ==
    ASSUME TypeOK, NEW r \in Requests, NEW op, NEW pc, NEW im, NEW who, NEW prev,
           Begin(r, op, pc, im, who, prev), path' = path, pc # "removed",
           pc \in {"put", "commit", "remove"} => \A p \in who : path[p] = prev[p]
    PROVE  Loaded(r)' /\ ~Storing(r) /\ ~Cleaning(r)
<1>1. /\ req'[r].pc = pc /\ req'[r].who = who /\ req'[r].prev = prev
      /\ req'[r].back = {} /\ req[r] = Idle
  BY Beginning
<1> QED  BY <1>1 DEF Loaded, Storing, Cleaning

\* A step of the only request keeps what is in the bucket accounted for.
LEMMA BucketStep ==
    ASSUME TypeOK, TypeOK', BucketInv, LockInv, NEW r \in Requests, Sole(r),
           OnePhoto(r) \/ Staging(r) \/ Confirming(r)
    PROVE  BucketInv'
<1>1. CASE UploadLoad(r)
  <2>1. PICK p \in People : Begin(r, "upload", "put", Idle, {p}, [Nothing EXCEPT ![p] = path[p]])
    BY <1>1 DEF UploadLoad
  <2>2. PICK prev : prev = [Nothing EXCEPT ![p] = path[p]]
    OBVIOUS
  <2>3. /\ req'[r].pc = "put" /\ req'[r].who = {p} /\ req'[r].prev = prev
        /\ req'[r].back = {} /\ req[r] = Idle
    BY <2>1, <2>2, Beginning
  <2>4. prev[p] = path[p] /\ UNCHANGED path
    BY <1>1, <2>2 DEF UploadLoad, Nothing
  <2>5. Loaded(r)' /\ ~Storing(r) /\ ~Cleaning(r)
    BY <2>3, <2>4 DEF Loaded, Storing, Cleaning
  <2> QED  BY <1>1, <2>5, BucketRests DEF UploadLoad
<1>2. CASE Put(r)
  <2>1. req[r] # Idle /\ req[r] \in Request /\ req[r].pc = "put" /\ req[r].who \subseteq People
    BY <1>2 DEF Put, TypeOK, Request
  <2>2. PICK new \in [req[r].who -> fresh + 1 .. fresh'] :
                   /\ store' = store \cup {new[p] : p \in req[r].who}
                   /\ req' = [req EXCEPT ![r].new = [p \in People |->
                         IF p \in req[r].who THEN new[p] ELSE None], ![r].pc = "commit"]
    BY <1>2 DEF Put
  <2>3. /\ req'[r].who = req[r].who /\ req'[r].prev = req[r].prev /\ req'[r].pc = "commit"
        /\ req'[r].back = req[r].back /\ req'[r].op = req[r].op
        /\ \A p \in req[r].who : req'[r].new[p] = new[p]
    BY <2>1, <2>2 DEF TypeOK, Request
  <2>4. Loaded(r)
    BY DEF BucketInv, Sole
  <2>5. Loaded(r)'
    BY <1>2, <2>1, <2>3, <2>4 DEF Loaded, Put
  <2>6. req'[r] # Idle
    <3>1. \A p \in req[r].who : new[p] \in Objects
      BY <2>2, PhotosAssumption, Basics DEF TypeOK, PhotosAssumption
    <3>2. [p \in People |-> IF p \in req[r].who THEN new[p] ELSE None] \in Paths
      BY <3>1 DEF Paths
    <3>3. req'[r] \in Request
      BY <2>1, <2>2, <3>2 DEF TypeOK, Request
    <3> QED  BY <3>3, Working
  <2>7. ASSUME NEW o \in store' PROVE o \in exposed' \/ Kept(o)'
    <3>1. CASE o \in store
      BY <1>2, <2>1, <3>1, KeptSole DEF KeptBy, BucketInv, Sole, Put, Storing, Cleaning
    <3>2. CASE \E p \in req[r].who : o = new[p]
      BY <2>1, <2>3, <2>6, <3>2, KeptSole DEF KeptBy, Storing
    <3> QED  BY <2>2, <2>7, <3>1, <3>2
  <2> QED  BY <2>5, <2>7, BucketKeeps
<1>3. CASE PutFails(r)
  <2>1. Loaded(r)' /\ ~Storing(r) /\ ~Cleaning(r)
    BY <1>3, LoadedEnd DEF PutFails, At, Storing, Cleaning
  <2> QED  BY <1>3, <2>1, BucketRests DEF PutFails
<1>4. CASE UploadCommit(r)
  <2>1. req[r] # Idle /\ Storing(r) /\ Loaded(r) /\ req[r].op = "upload"
    BY <1>4 DEF UploadCommit, At, Storing, BucketInv, Sole
  <2>2. /\ req'[r].who = req[r].who /\ req'[r].prev = req[r].prev /\ req'[r].pc = "clean"
        /\ req'[r].back = req[r].back /\ req'[r].op = req[r].op /\ req'[r] # Idle
    BY <1>4, <2>1, GoingOn, StillWorking DEF UploadCommit
  <2>3. /\ \A p \in req[r].who : path'[p] = req[r].new[p]
        /\ \A p \in People \ req[r].who : path'[p] = path[p]
    BY <1>4, <2>1 DEF UploadCommit, Set, TypeOK, Request
  <2>4. Loaded(r)'
    BY <2>1, <2>2 DEF Loaded
  <2>5. Cleaning(r)'
    BY <2>2 DEF Cleaning
  <2> QED  BY <1>4, <2>1, <2>2, <2>3, <2>4, <2>5, BucketSaves DEF UploadCommit
<1>5. CASE UploadFails(r)
  <2>1. Loaded(r)' /\ Storing(r) /\ store' = store \ New(r)
    BY <1>5, LoadedEnd, LeftPart DEF UploadFails, At, Storing, Sole
  <2> QED  BY <1>5, <2>1, BucketUndoes DEF UploadFails
<1>6. CASE UploadClean(r)
  <2>1. Loaded(r)' /\ Cleaning(r) /\ store' = store \ Prev(r)
    BY <1>6, LoadedEnd, LeftPart DEF UploadClean, At, Cleaning, Sole
  <2> QED  BY <1>6, <2>1, BucketCleans DEF UploadClean
<1>7. CASE RemoveLoad(r)
  <2>1. PICK p \in People :
          Begin(r, "remove", "remove", Idle, {p}, [Nothing EXCEPT ![p] = path[p]])
    BY <1>7 DEF RemoveLoad
  <2>2. PICK prev : prev = [Nothing EXCEPT ![p] = path[p]]
    OBVIOUS
  <2>3. /\ req'[r].pc = "remove" /\ req'[r].who = {p} /\ req'[r].prev = prev
        /\ req'[r].back = {} /\ req[r] = Idle
    BY <2>1, <2>2, Beginning
  <2>4. prev[p] = path[p] /\ UNCHANGED path
    BY <1>7, <2>2 DEF RemoveLoad, Nothing
  <2>5. Loaded(r)' /\ ~Storing(r) /\ ~Cleaning(r)
    BY <2>3, <2>4 DEF Loaded, Storing, Cleaning
  <2> QED  BY <1>7, <2>5, BucketRests DEF RemoveLoad
<1>8. CASE StudentObjectRemoved(r)
  <2>1. req[r] # Idle /\ Loaded(r) /\ req[r].pc = "remove" /\ ~Storing(r) /\ ~Cleaning(r)
    BY <1>8 DEF StudentObjectRemoved, At, BucketInv, Sole, Storing, Cleaning
  <2>2. /\ req'[r].who = req[r].who /\ req'[r].prev = req[r].prev /\ req'[r].op = req[r].op
        /\ req'[r].back = req[r].back
    BY <1>8, <2>1, GoingOn DEF StudentObjectRemoved
  <2>3. \A p \in req[r].who : req[r].prev[p] \in exposed' \cup {None}
    BY <1>8 DEF StudentObjectRemoved, Prev
  <2>4. UNCHANGED path
    BY <1>8 DEF StudentObjectRemoved
  <2>5. Loaded(r)'
    BY <2>1, <2>2, <2>3, <2>4 DEF Loaded
  <2> QED  BY <1>8, <2>1, <2>5, BucketRests DEF StudentObjectRemoved
<1>9. CASE StudentRemoveCommit(r)
  <2>1. req[r] # Idle /\ Loaded(r) /\ req[r].pc = "removed" /\ ~Storing(r) /\ ~Cleaning(r)
    BY <1>9 DEF StudentRemoveCommit, At, BucketInv, Sole, Storing, Cleaning
  <2>2. \A p \in People \ req[r].who : path'[p] = path[p]
    BY <1>9 DEF StudentRemoveCommit, Set
  <2>3. Loaded(r)'
    BY <1>9, LoadedEnd DEF StudentRemoveCommit
  <2>4. UNCHANGED <<store, exposed>> /\ \A o \in store : o # None
    BY <1>9, Basics DEF StudentRemoveCommit, TypeOK
  <2>5. ASSUME NEW o \in store' PROVE o \in exposed' \/ Kept(o)'
    <3>1. CASE o \in exposed
      BY <2>4, <3>1
    <3>2. ASSUME NEW p \in People, path[p] = o PROVE o \in exposed' \/ Kept(o)'
      <4>1. CASE p \in req[r].who
        BY <2>1, <2>4, <2>5, <3>2, <4>1 DEF Loaded
      <4>2. CASE p \notin req[r].who
        BY <2>2, <2>4, <3>2, <4>2, KeptSole DEF KeptBy
      <4> QED  BY <4>1, <4>2
    <3>3. o \in exposed \/ \E p \in People : path[p] = o
      BY <2>1, <2>4, <2>5, KeptSole DEF KeptBy, BucketInv, Sole
    <3> QED  BY <3>1, <3>2, <3>3
  <2> QED  BY <2>3, <2>5, BucketKeeps
<1>10. CASE PersonnelRemoveCommit(r)
  <2>1. /\ req[r] # Idle /\ Loaded(r) /\ req[r].pc = "remove" /\ req[r].op = "remove"
        /\ ~Storing(r) /\ ~Cleaning(r) /\ req[r].who \subseteq People
    BY <1>10 DEF PersonnelRemoveCommit, At, BucketInv, Sole, Storing, Cleaning, People
  <2>2. /\ req'[r].who = req[r].who /\ req'[r].prev = req[r].prev /\ req'[r].pc = "clean"
        /\ req'[r].back = req[r].back /\ req'[r].op = req[r].op /\ req'[r] # Idle
    BY <1>10, <2>1, GoingOn, StillWorking DEF PersonnelRemoveCommit
  <2>3. \A p \in People \ req[r].who : path'[p] = path[p]
    BY <1>10 DEF PersonnelRemoveCommit, Set
  <2>4. UNCHANGED <<store, exposed>>
    BY <1>10 DEF PersonnelRemoveCommit
  <2>5. Loaded(r)' /\ Cleaning(r)'
    BY <2>1, <2>2 DEF Loaded, Cleaning
  <2>6. ASSUME NEW o \in store', o \notin exposed' PROVE Kept(o)'
    <3>1. PICK p \in People : path[p] = o
      BY <2>1, <2>4, <2>6, KeptSole DEF KeptBy, BucketInv, Sole
    <3>2. CASE p \in req[r].who
      <4>1. req[r].prev[p] = o
        BY <2>1, <3>1, <3>2 DEF Loaded
      <4> QED  BY <2>1, <2>2, <2>5, <3>2, <4>1, KeptSole DEF KeptBy
    <3>3. CASE p \notin req[r].who
      BY <2>3, <3>1, <3>3, KeptSole DEF KeptBy
    <3> QED  BY <3>2, <3>3
  <2> QED  BY <2>5, <2>6, BucketKeeps
<1>11. CASE PersonnelRemoveClean(r)
  <2>1. Loaded(r)' /\ Cleaning(r) /\ store' = store \ Prev(r)
    BY <1>11, LoadedEnd, LeftPart DEF PersonnelRemoveClean, At, Cleaning, Sole
  <2> QED  BY <1>11, <2>1, BucketCleans DEF PersonnelRemoveClean
<1>12. CASE RemoveFails(r)
  <2>1. Loaded(r)' /\ ~Storing(r) /\ ~Cleaning(r)
    BY <1>12, LoadedEnd DEF RemoveFails, At, Storing, Cleaning
  <2> QED  BY <1>12, <2>1, BucketRests DEF RemoveFails
<1>13. CASE ImportBegin(r)
  <2>1. Loaded(r)' /\ ~Storing(r) /\ ~Cleaning(r)
    BY <1>13, LoadedBegin DEF ImportBegin
  <2> QED  BY <1>13, <2>1, BucketRests DEF ImportBegin
<1>14. CASE SweepNext(r)
  <2>1. req[r] # Idle /\ req[r] \in Request /\ Loaded(r) /\ ~Storing(r) /\ ~Cleaning(r)
    BY <1>14 DEF SweepNext, At, TypeOK, BucketInv, Sole, Storing, Cleaning
  <2>2. /\ req'[r].pc \in {"temps", "stage"} /\ req'[r].back = req[r].back
        /\ req'[r].prev = req[r].prev /\ req'[r].op = req[r].op
    BY <1>14, <2>1 DEF SweepNext, TypeOK, Request
  <2>3. Loaded(r)'
    BY <1>14, <2>1, <2>2 DEF SweepNext, Loaded
  <2> QED  BY <1>14, <2>1, <2>3, BucketRests DEF SweepNext
<1>15. CASE SweepDone(r)
  <2>1. req[r] # Idle /\ req[r] \in Request /\ Loaded(r) /\ ~Storing(r) /\ ~Cleaning(r)
    BY <1>15 DEF SweepDone, At, TypeOK, BucketInv, Sole, Storing, Cleaning
  <2>2. /\ req'[r].pc \in {"temps", "stage"} /\ req'[r].back = req[r].back
        /\ req'[r].prev = req[r].prev /\ req'[r].op = req[r].op
    BY <1>15, <2>1 DEF SweepDone, TypeOK, Request
  <2>3. Loaded(r)'
    BY <1>15, <2>1, <2>2 DEF SweepDone, Loaded
  <2> QED  BY <1>15, <2>1, <2>3, BucketRests DEF SweepDone
<1>16. CASE ExpiredLoad(r)
  <2>1. Loaded(r)' /\ ~Storing(r) /\ ~Cleaning(r)
    BY <1>16, LoadedBegin DEF ExpiredLoad
  <2> QED  BY <1>16, <2>1, BucketRests DEF ExpiredLoad
<1>17. CASE SweepTemps(r)
  <2>1. req[r] # Idle /\ Loaded(r) /\ ~Storing(r) /\ ~Cleaning(r)
    BY <1>17 DEF SweepTemps, At, BucketInv, Sole, Storing, Cleaning
  <2>2. Loaded(r)'
    BY <1>17, <2>1, LoadedEnd, LoadedTo DEF SweepTemps, SweptTo
  <2> QED  BY <1>17, <2>1, <2>2, BucketRests DEF SweepTemps
<1>18. CASE SweepRow(r)
  <2>1. req[r] # Idle /\ Loaded(r) /\ ~Storing(r) /\ ~Cleaning(r)
    BY <1>18 DEF SweepRow, At, BucketInv, Sole, Storing, Cleaning
  <2>2. Loaded(r)'
    BY <1>18, <2>1, LoadedEnd, LoadedTo DEF SweepRow, SweptTo
  <2> QED  BY <1>18, <2>1, <2>2, BucketRests DEF SweepRow
<1>19. CASE Stage(r)
  <2>1. req[r] # Idle /\ req[r] \in Request /\ Loaded(r) /\ ~Storing(r) /\ ~Cleaning(r)
    BY <1>19 DEF Stage, At, TypeOK, BucketInv, Sole, Storing, Cleaning
  <2>2. PICK m \in Imports : req' = [req EXCEPT ![r].pc = "insert", ![r].im = m]
    BY <1>19 DEF Stage
  <2>3. /\ req'[r].pc = "insert" /\ req'[r].back = req[r].back
        /\ req'[r].prev = req[r].prev /\ req'[r].op = req[r].op
    BY <2>1, <2>2 DEF TypeOK, Request
  <2>4. Loaded(r)'
    BY <1>19, <2>1, <2>3 DEF Stage, Loaded
  <2> QED  BY <1>19, <2>1, <2>4, BucketRests DEF Stage
<1>20. CASE StageFails(r)
  <2>1. Loaded(r)' /\ ~Storing(r) /\ ~Cleaning(r)
    BY <1>20, LoadedEnd DEF StageFails, At, Storing, Cleaning
  <2> QED  BY <1>20, <2>1, BucketRests DEF StageFails
<1>21. CASE Insert(r)
  <2>1. Loaded(r)' /\ ~Storing(r) /\ ~Cleaning(r)
    BY <1>21, LoadedEnd DEF Insert, At, Storing, Cleaning
  <2> QED  BY <1>21, <2>1, BucketRests DEF Insert
<1>22. CASE InsertFails(r)
  <2>1. Loaded(r)' /\ ~Storing(r) /\ ~Cleaning(r)
    BY <1>22, LoadedEnd DEF InsertFails, At, Storing, Cleaning
  <2> QED  BY <1>22, <2>1, BucketRests DEF InsertFails
<1>23. CASE PreviewLoad(r)
  <2>1. Loaded(r)' /\ ~Storing(r) /\ ~Cleaning(r)
    BY <1>23, LoadedBegin DEF PreviewLoad
  <2> QED  BY <1>23, <2>1, BucketRests DEF PreviewLoad
<1>24. CASE PreviewMatch(r)
  <2>1. /\ req[r] # Idle /\ req[r] \in Request /\ Loaded(r) /\ ~Storing(r) /\ ~Cleaning(r)
        /\ req[r].op = "preview"
    BY <1>24 DEF PreviewMatch, At, TypeOK, BucketInv, Sole, Storing, Cleaning
  <2>2. req'[r].pc = "update" /\ req'[r].back = req[r].back /\ req'[r].op = "preview"
    BY <1>24, <2>1 DEF PreviewMatch, TypeOK, Request
  <2>3. Loaded(r)'
    BY <2>1, <2>2 DEF Loaded
  <2> QED  BY <1>24, <2>1, <2>3, BucketRests DEF PreviewMatch
<1>25. CASE PreviewUpdate(r)
  <2>1. Loaded(r)' /\ ~Storing(r) /\ ~Cleaning(r)
    BY <1>25, LoadedEnd DEF PreviewUpdate, At, Storing, Cleaning
  <2> QED  BY <1>25, <2>1, BucketRests DEF PreviewUpdate
<1>26. CASE ConfirmLoad(r)
  <2>1. Loaded(r)' /\ ~Storing(r) /\ ~Cleaning(r)
    BY <1>26, LoadedBegin DEF ConfirmLoad
  <2> QED  BY <1>26, <2>1, BucketRests DEF ConfirmLoad
<1>27. CASE ConfirmLock(r)
  <2>1. /\ req[r] # Idle /\ Loaded(r) /\ ~Storing(r) /\ ~Cleaning(r) /\ req[r].op = "confirm"
    BY <1>27 DEF ConfirmLock, At, BucketInv, Sole, Storing, Cleaning
  <2>2. CASE ~Confirmable(r)
    BY <1>27, <2>1, <2>2, LoadedEnd, BucketRests DEF ConfirmLock
  <2>3. CASE Confirmable(r)
    <3>1. /\ req'[r].pc = "put" /\ req'[r].back = req[r].back /\ req'[r].op = req[r].op
          /\ req'[r].who = req[r].who /\ req'[r].prev = req[r].prev
      BY <1>27, <2>1, <2>3, GoingOn DEF ConfirmLock
    <3>2. Loaded(r)'
      BY <1>27, <2>1, <2>3, <3>1 DEF ConfirmLock, Confirmable, Loaded
    <3> QED  BY <1>27, <2>1, <3>2, BucketRests DEF ConfirmLock
  <2> QED  BY <2>2, <2>3
<1>28. CASE ConfirmCommit(r)
  <2>1. req[r] # Idle /\ Storing(r) /\ Loaded(r) /\ Locks(r) /\ req[r].op = "confirm"
    BY <1>28 DEF ConfirmCommit, At, Storing, BucketInv, Sole, LockInv
  <2>2. /\ req'[r].who = req[r].who /\ req'[r].prev = req[r].prev /\ req'[r].pc = "clean"
        /\ req'[r].back = req[r].back /\ req'[r].op = req[r].op /\ req'[r] # Idle
    BY <1>28, <2>1, GoingOn, StillWorking DEF ConfirmCommit
  <2>3. /\ \A p \in req[r].who : path'[p] = req[r].new[p]
        /\ \A p \in People \ req[r].who : path'[p] = path[p]
    BY <1>28, <2>1 DEF ConfirmCommit, Set, TypeOK, Request
  <2>4. \A p \in req[r].back : p \in People \ req[r].who
    BY <1>28, <2>1, Basics DEF ConfirmCommit, Locks, People
  <2>5. Loaded(r)'
    BY <2>1, <2>2, <2>3, <2>4 DEF Loaded
  <2>6. Cleaning(r)'
    BY <2>2 DEF Cleaning
  <2> QED  BY <1>28, <2>1, <2>2, <2>3, <2>5, <2>6, BucketSaves DEF ConfirmCommit
<1>29. CASE ConfirmFails(r)
  <2>1. Loaded(r)' /\ Storing(r) /\ store' = store \ New(r)
    BY <1>29, LoadedEnd, LeftPart DEF ConfirmFails, At, Storing, Sole
  <2> QED  BY <1>29, <2>1, BucketUndoes DEF ConfirmFails
<1>30. CASE ConfirmClean(r)
  <2>1. Loaded(r)' /\ Cleaning(r) /\ store' = store \ Prev(r)
    BY <1>30, LoadedEnd, LeftPart DEF ConfirmClean, At, Cleaning, Sole
  <2> QED  BY <1>30, <2>1, BucketCleans DEF ConfirmClean
<1>31. CASE ItemsLoad(r)
  <2>1. ~Storing(r) /\ ~Cleaning(r)
    BY <1>31 DEF ItemsLoad, Storing, Cleaning
  <2>2. req'[r].op = "confirm" /\ req'[r].pc = "item" /\ req'[r].back = {}
    BY <1>31 DEF ItemsLoad, TypeOK
  <2>3. Loaded(r)'
    BY <2>2 DEF Loaded
  <2> QED  BY <1>31, <2>1, <2>3, BucketRests DEF ItemsLoad
<1>32. CASE ItemLoad(r)
  <2>1. /\ req[r] # Idle /\ req[r] \in Request /\ Loaded(r) /\ ~Storing(r) /\ ~Cleaning(r)
        /\ req[r].op = "confirm" /\ req[r].pc = "item"
    BY <1>32 DEF ItemLoad, At, TypeOK, BucketInv, Sole, Storing, Cleaning
  <2>2. PICK p \in req[r].todo :
           req' = [req EXCEPT ![r] =
              IF p \in temps[req[r].im]
              THEN [[req[r] EXCEPT !.todo = @ \ {p}, !.prev[p] = path[p]]
                       EXCEPT !.pc = "put", !.who = {p}]
              ELSE [[req[r] EXCEPT !.todo = @ \ {p}, !.prev[p] = path[p]]
                       EXCEPT !.back = {p}, !.status = "partial"]]
    BY <1>32 DEF ItemLoad
  <2>3. /\ req'[r].prev = [req[r].prev EXCEPT ![p] = path[p]] /\ req'[r].op = "confirm"
        /\ \/ req'[r].pc = "put" /\ req'[r].who = {p} /\ req'[r].back = req[r].back
           \/ req'[r].pc = "item" /\ req'[r].back = {p}
    BY <2>1, <2>2 DEF TypeOK, Request
  <2>4. p \in People /\ req[r].prev \in Paths /\ req[r].back \subseteq People
    BY <2>1 DEF Request
  <2>5. UNCHANGED path
    BY <1>32 DEF ItemLoad
  <2>6. req'[r].prev[p] = path[p] /\ \A q \in req[r].back : req'[r].prev[q] = path[q]
    BY <2>1, <2>3, <2>4 DEF Loaded, Paths
  <2>7. Loaded(r)'
    BY <2>3, <2>5, <2>6 DEF Loaded
  <2> QED  BY <1>32, <2>1, <2>7, BucketRests DEF ItemLoad
<1>33. CASE ItemCommit(r)
  <2>1. req[r] # Idle /\ req[r] \in Request /\ Storing(r) /\ Loaded(r) /\ req[r].op = "confirm"
    BY <1>33 DEF ItemCommit, At, TypeOK, Storing, BucketInv, Sole
  <2>2. /\ req'[r].who = req[r].who /\ req'[r].prev = req[r].prev /\ req'[r].pc = "clean"
        /\ req'[r].back = {} /\ req'[r].op = "confirm"
    BY <1>33, <2>1 DEF ItemCommit, TypeOK, Request
  <2>3. req'[r] \in Request
    BY <1>33, <2>1 DEF ItemCommit, TypeOK, Request
  <2>4. req'[r] # Idle
    BY <2>3, Working
  <2>5. \A p \in req[r].who : path'[p] = req[r].new[p]
    BY <1>33, <2>1 DEF ItemCommit, Request
  <2>6. \A p \in People \ req[r].who : path'[p] = path[p]
    BY <1>33, <2>1 DEF ItemCommit, Restored, Set, Loaded
  <2>7. Loaded(r)' /\ Cleaning(r)'
    BY <2>2, <2>4 DEF Loaded, Cleaning
  <2>8. exposed \subseteq exposed'
    BY <1>33 DEF ItemCommit, Exposed
  <2> QED  BY <1>33, <2>1, <2>2, <2>5, <2>6, <2>7, <2>8, BucketSaves DEF ItemCommit
<1>34. CASE ItemFails(r)
  <2>1. /\ req[r] # Idle /\ req[r] \in Request /\ Loaded(r) /\ req[r].op = "confirm"
        /\ req[r].pc \in {"put", "commit"}
    BY <1>34 DEF ItemFails, TypeOK, BucketInv, Sole
  <2>2. /\ req'[r].prev = req[r].prev /\ req'[r].pc = "item" /\ req'[r].op = "confirm"
        /\ req'[r].back = req[r].who
    BY <1>34, <2>1 DEF ItemFails, TypeOK, Request
  <2>3. UNCHANGED <<path, exposed>>
    BY <1>34 DEF ItemFails
  <2>4. Loaded(r)'
    BY <2>1, <2>2, <2>3 DEF Loaded
  <2>5. CASE req[r].pc = "put"
    <3>1. UNCHANGED store /\ ~Storing(r) /\ ~Cleaning(r)
      BY <1>34, <2>5 DEF ItemFails, Storing, Cleaning
    <3> QED  BY <2>3, <2>4, <3>1, BucketRests
  <2>6. CASE req[r].pc = "commit"
    <3>1. Storing(r) /\ store' = store \ New(r)
      BY <1>34, <2>1, <2>6, LeftPart DEF ItemFails, Storing, Sole
    <3> QED  BY <2>3, <2>4, <3>1, BucketUndoes
  <2> QED  BY <2>1, <2>5, <2>6
<1>35. CASE ItemClean(r)
  <2>1. req[r] # Idle /\ Loaded(r) /\ Cleaning(r) /\ store' = store \ Prev(r)
    BY <1>35, LeftPart DEF ItemClean, At, Cleaning, BucketInv, Sole
  <2>2. Loaded(r)'
    BY <1>35, <2>1, LoadedTo DEF ItemClean
  <2> QED  BY <1>35, <2>1, <2>2, BucketCleans DEF ItemClean
<1>36. CASE ItemsFinish(r)
  <2>1. req[r] # Idle /\ Loaded(r) /\ ~Storing(r) /\ ~Cleaning(r)
    BY <1>36 DEF ItemsFinish, At, BucketInv, Sole, Storing, Cleaning
  <2>2. \A p \in People : path'[p] = path[p]
    BY <1>36, <2>1 DEF ItemsFinish, Restored, Set, Loaded
  <2>3. path' = path
    BY <2>2 DEF TypeOK
  <2>4. Loaded(r)'
    BY <1>36, LoadedEnd DEF ItemsFinish
  <2>5. exposed \subseteq exposed'
    BY <1>36 DEF ItemsFinish, Exposed
  <2> QED  BY <1>36, <2>1, <2>3, <2>4, <2>5, BucketRests DEF ItemsFinish
<1> QED  BY <1>1, <1>2, <1>3, <1>4, <1>5, <1>6, <1>7, <1>8, <1>9, <1>10, <1>11, <1>12, <1>13,
   <1>14, <1>15, <1>16, <1>17, <1>18, <1>19, <1>20, <1>21, <1>22, <1>23, <1>24, <1>25, <1>26,
   <1>27, <1>28, <1>29, <1>30, <1>31, <1>32, <1>33, <1>34, <1>35, <1>36 DEF OnePhoto, Staging,
   Confirming

(***************************************************************************)
(* Serial behaviours: what a request knows of its import.                  *)
(***************************************************************************)
\* Only the request at work knows anything.
LEMMA KnowsKeeps ==
    ASSUME NEW r \in Requests, Sole(r), Knows(r)'
    PROVE  ImportInv'
BY DEF Sole, ImportInv, Knows

\* A request that ended knows nothing, nor does one of a photo, or one that looks
\* for expired imports.
LEMMA KnowsEnd ==
    ASSUME TypeOK, NEW r \in Requests, Sole(r), End(r)
    PROVE  ImportInv'
BY Ending, KnowsKeeps DEF Knows

\* Nor does a request of one photo, or one that looks for expired imports.
LEMMA KnowsNothing ==
    ASSUME NEW r \in Requests, Sole(r), req'[r].op \notin {"preview", "confirm"},
           req'[r].pc \notin {"insert", "temps", "row"}
    PROVE  ImportInv'
<1>1. Knows(r)'
  BY DEF Knows, Inserting, Sweeping, Previewing, Confirms
<1> QED  BY <1>1, KnowsKeeps

\* What the request at work knows of its import.
LEMMA Known ==
    ASSUME ImportInv, NEW r \in Requests, Sole(r), req[r] # Idle, req[r].im \in Imports
    PROVE  /\ Inserting(r, req[r].im) /\ Sweeping(r, req[r].im)
           /\ Previewing(r, req[r].im) /\ Confirms(r, req[r].im)
BY DEF Sole, ImportInv, Knows

\* A step of the only request leaves it what it knows of its import.
LEMMA ImportStep ==
    ASSUME TypeOK, TypeOK', ImportInv, StagedInv, LockInv, NEW r \in Requests, Sole(r),
           OnePhoto(r) \/ Staging(r) \/ Confirming(r)
    PROVE  ImportInv'
<1>1. CASE UploadLoad(r)
  <2>1. \E p \in People : Begin(r, "upload", "put", Idle, {p}, [Nothing EXCEPT ![p] = path[p]])
    BY <1>1 DEF UploadLoad
  <2>2. req'[r].op = "upload" /\ req'[r].pc = "put"
    BY <2>1, Beginning
  <2> QED  BY <2>2, KnowsNothing
<1>2. CASE Put(r)
  <2>1. req[r] # Idle /\ req[r] \in Request /\ req[r].pc = "put"
    BY <1>2 DEF Put, TypeOK
  <2>2. PICK new \in [req[r].who -> fresh + 1 .. fresh'] :
                   req' = [req EXCEPT ![r].new = [p \in People |->
                         IF p \in req[r].who THEN new[p] ELSE None], ![r].pc = "commit"]
    BY <1>2 DEF Put
  <2>3. /\ req'[r].who = req[r].who /\ req'[r].im = req[r].im /\ req'[r].pc = "commit"
        /\ req'[r].op = req[r].op /\ req'[r].done = req[r].done /\ req'[r].todo = req[r].todo
        /\ req'[r].status = req[r].status
    BY <2>1, <2>2 DEF TypeOK, Request
  <2>4. UNCHANGED <<manifest, temps>>
    BY <1>2 DEF Put
  <2>5. ASSUME NEW m \in Imports, req'[r].im = m
        PROVE  Inserting(r, m)' /\ Sweeping(r, m)' /\ Previewing(r, m)' /\ Confirms(r, m)'
    <3>1. Confirms(r, m)
      BY <2>1, <2>3, <2>5, Known
    <3>2. Confirms(r, m)'
      BY <2>1, <2>3, <2>4, <3>1 DEF Confirms, Present
    <3> QED  BY <2>3, <3>2 DEF Inserting, Sweeping, Previewing
  <2> QED  BY <2>5, KnowsKeeps DEF Knows
<1>3. CASE PutFails(r)
  BY <1>3, KnowsEnd DEF PutFails
<1>4. CASE UploadCommit(r)
  <2>1. /\ req'[r].op = req[r].op /\ req'[r].pc \in {"clean", "removed"}
        /\ req[r].op \in {"upload", "remove"}
    BY <1>4, GoingOn DEF UploadCommit, At
  <2> QED  BY <2>1, KnowsNothing
<1>5. CASE UploadFails(r)
  BY <1>5, KnowsEnd DEF UploadFails
<1>6. CASE UploadClean(r)
  BY <1>6, KnowsEnd DEF UploadClean
<1>7. CASE RemoveLoad(r)
  <2>1. \E p \in People : Begin(r, "remove", "remove", Idle, {p}, [Nothing EXCEPT ![p] = path[p]])
    BY <1>7 DEF RemoveLoad
  <2>2. req'[r].op = "remove" /\ req'[r].pc = "remove"
    BY <2>1, Beginning
  <2> QED  BY <2>2, KnowsNothing
<1>8. CASE StudentObjectRemoved(r)
  <2>1. /\ req'[r].op = req[r].op /\ req'[r].pc \in {"clean", "removed"}
        /\ req[r].op \in {"upload", "remove"}
    BY <1>8, GoingOn DEF StudentObjectRemoved, At
  <2> QED  BY <2>1, KnowsNothing
<1>9. CASE StudentRemoveCommit(r)
  BY <1>9, KnowsEnd DEF StudentRemoveCommit
<1>10. CASE PersonnelRemoveCommit(r)
  <2>1. /\ req'[r].op = req[r].op /\ req'[r].pc \in {"clean", "removed"}
        /\ req[r].op \in {"upload", "remove"}
    BY <1>10, GoingOn DEF PersonnelRemoveCommit, At
  <2> QED  BY <2>1, KnowsNothing
<1>11. CASE PersonnelRemoveClean(r)
  BY <1>11, KnowsEnd DEF PersonnelRemoveClean
<1>12. CASE RemoveFails(r)
  BY <1>12, KnowsEnd DEF RemoveFails
<1>13. CASE ImportBegin(r)
  <2>1. req'[r].op = "import" /\ req'[r].pc = "sweep"
    BY <1>13, Beginning DEF ImportBegin
  <2> QED  BY <2>1, KnowsNothing
<1>14. CASE SweepNext(r)
  <2>1. req[r] # Idle /\ req[r] \in Request /\ req[r].op = "import"
    BY <1>14 DEF SweepNext, At, TypeOK
  <2>2. PICK m \in Imports :
          manifest[m].expired /\ req' = [req EXCEPT ![r].pc = "temps", ![r].im = m]
    BY <1>14 DEF SweepNext
  <2>3. req'[r].op = "import" /\ req'[r].pc = "temps" /\ req'[r].im = m
    BY <2>1, <2>2 DEF TypeOK, Request
  <2>4. UNCHANGED manifest
    BY <1>14 DEF SweepNext
  <2>5. Knows(r)'
    BY <2>2, <2>3, <2>4 DEF Knows, Inserting, Sweeping, Previewing, Confirms
  <2> QED  BY <2>5, KnowsKeeps
<1>15. CASE SweepDone(r)
  <2>1. req[r] # Idle /\ req[r] \in Request /\ req[r].op = "import"
    BY <1>15 DEF SweepDone, At, TypeOK
  <2>2. req'[r].op = "import" /\ req'[r].pc = "stage"
    BY <1>15, <2>1 DEF SweepDone, TypeOK, Request
  <2> QED  BY <2>2, KnowsNothing
<1>16. CASE ExpiredLoad(r)
  <2>1. PICK m \in Imports : manifest[m].expired /\ Begin(r, "preview", "temps", m, {}, Nothing)
    BY <1>16 DEF ExpiredLoad
  <2>2. req'[r].op = "preview" /\ req'[r].pc = "temps" /\ req'[r].im = m
    BY <2>1, Beginning
  <2>3. UNCHANGED manifest
    BY <1>16 DEF ExpiredLoad
  <2>4. Knows(r)'
    BY <2>1, <2>2, <2>3 DEF Knows, Inserting, Sweeping, Previewing, Confirms
  <2> QED  BY <2>4, KnowsKeeps
<1>17. CASE SweepTemps(r)
  <2>1. req[r] # Idle /\ req[r].op \in {"import", "preview"} /\ req[r].pc = "temps"
    BY <1>17 DEF SweepTemps, At
  <2>2. PICK left \in Left(temps[req[r].im]) :
          /\ temps' = [temps EXCEPT ![req[r].im] = left]
          /\ IF left = {} THEN To(r, "row") /\ UNCHANGED lock ELSE SweptTo(r)
    BY <1>17 DEF SweepTemps
  <2>3. left = {} /\ To(r, "row") /\ UNCHANGED manifest
    BY <1>17, <2>2, LeftPart DEF Sole, SweepTemps
  <2>4. req'[r].op = req[r].op /\ req'[r].pc = "row" /\ req'[r].im = req[r].im
    BY <2>1, <2>3, GoingOn
  <2>5. ASSUME NEW m \in Imports, req'[r].im = m
        PROVE  Inserting(r, m)' /\ Sweeping(r, m)' /\ Previewing(r, m)' /\ Confirms(r, m)'
    <3>1. manifest[m].expired
      BY <2>1, <2>4, <2>5, Known DEF Sweeping
    <3>2. temps'[m] = {}
      BY <2>2, <2>3, <2>4, <2>5 DEF TypeOK
    <3> QED  BY <2>1, <2>3, <2>4, <3>1, <3>2 DEF Inserting, Sweeping, Previewing, Confirms
  <2> QED  BY <2>5, KnowsKeeps DEF Knows
<1>18. CASE SweepRow(r)
  <2>1. CASE req[r].op = "import"
    <3>1. req'[r].op = "import" /\ req'[r].pc = "sweep"
      BY <1>18, <2>1, GoingOn DEF SweepRow, SweptTo, At
    <3> QED  BY <3>1, KnowsNothing
  <2>2. CASE req[r].op # "import"
    BY <1>18, <2>2, KnowsEnd DEF SweepRow, SweptTo
  <2> QED  BY <2>1, <2>2
<1>19. CASE Stage(r)
  <2>1. req[r] # Idle /\ req[r] \in Request /\ req[r].op = "import"
    BY <1>19 DEF Stage, At, TypeOK
  <2>2. PICK m \in Imports, files \in ((SUBSET Students) \cup (SUBSET Personnel)) \ {{}} :
          /\ manifest[m].files = {}
          /\ temps' = [temps EXCEPT ![m] = files]
          /\ manifest' = [manifest EXCEPT ![m].files = files,
                 ![m].seen = [p \in People |-> IF p \in files THEN path[p] ELSE None]]
          /\ req' = [req EXCEPT ![r].pc = "insert", ![r].im = m]
    BY <1>19 DEF Stage
  <2>3. req'[r].op = "import" /\ req'[r].pc = "insert" /\ req'[r].im = m
    BY <2>1, <2>2 DEF TypeOK, Request
  <2>4. /\ manifest'[m].files = files /\ manifest'[m].status = manifest[m].status
        /\ manifest'[m].done = manifest[m].done /\ temps'[m] = files
    <3>1. manifest[m] \in Manifest
      BY DEF TypeOK
    <3> QED  BY <2>2, <3>1 DEF TypeOK, Manifest
  <2>5. manifest[m].status = "absent" /\ manifest[m].done = {}
    BY <2>2 DEF StagedInv, Staged, Present, Sole
  <2>6. Knows(r)'
    BY <2>2, <2>3, <2>4, <2>5 DEF Knows, Inserting, Sweeping, Previewing, Confirms
  <2> QED  BY <2>6, KnowsKeeps
<1>20. CASE StageFails(r)
  BY <1>20, KnowsEnd DEF StageFails
<1>21. CASE Insert(r)
  BY <1>21, KnowsEnd DEF Insert
<1>22. CASE InsertFails(r)
  BY <1>22, KnowsEnd DEF InsertFails
<1>23. CASE PreviewLoad(r)
  <2>1. PICK m \in Imports :
          /\ Usable(m) /\ manifest[m].status # "completed"
          /\ Begin(r, "preview", "match", m, manifest[m].files, Nothing)
    BY <1>23 DEF PreviewLoad
  <2>2. /\ req'[r].op = "preview" /\ req'[r].pc = "match" /\ req'[r].im = m
        /\ req'[r].done = manifest[m].done /\ req'[r].status = manifest[m].status
    BY <2>1, Beginning, Basics
  <2>3. UNCHANGED manifest
    BY <1>23 DEF PreviewLoad
  <2>4. Knows(r)'
    BY <2>1, <2>2, <2>3 DEF Knows, Inserting, Sweeping, Previewing, Confirms, Usable, Present
  <2> QED  BY <2>4, KnowsKeeps
<1>24. CASE PreviewMatch(r)
  <2>1. req[r] # Idle /\ req[r] \in Request /\ req[r].op = "preview" /\ req[r].pc = "match"
    BY <1>24 DEF PreviewMatch, At, TypeOK
  <2>2. /\ req'[r].op = "preview" /\ req'[r].pc = "update" /\ req'[r].im = req[r].im
        /\ req'[r].done = req[r].done /\ req'[r].status = req[r].status
    BY <1>24, <2>1 DEF PreviewMatch, TypeOK, Request
  <2>3. UNCHANGED manifest
    BY <1>24 DEF PreviewMatch
  <2>4. ASSUME NEW m \in Imports, req'[r].im = m
        PROVE  Inserting(r, m)' /\ Sweeping(r, m)' /\ Previewing(r, m)' /\ Confirms(r, m)'
    <3>1. Previewing(r, m)
      BY <2>1, <2>2, <2>4, Known
    <3> QED  BY <2>1, <2>2, <2>3, <3>1
             DEF Inserting, Sweeping, Previewing, Confirms, Present
  <2> QED  BY <2>4, KnowsKeeps DEF Knows
<1>25. CASE PreviewUpdate(r)
  BY <1>25, KnowsEnd DEF PreviewUpdate
<1>26. CASE ConfirmLoad(r)
  <2>1. PICK m \in Imports :
          /\ Usable(m) /\ manifest[m].files \subseteq Students
          /\ Begin(r, "confirm", "lock", m, manifest[m].files, manifest[m].seen)
    BY <1>26 DEF ConfirmLoad
  <2>2. /\ req'[r].op = "confirm" /\ req'[r].pc = "lock" /\ req'[r].im = m
        /\ req'[r].who = manifest[m].files
    BY <2>1, Beginning, Basics
  <2>3. UNCHANGED manifest
    BY <1>26 DEF ConfirmLoad
  <2>4. Knows(r)'
    BY <2>1, <2>2, <2>3 DEF Knows, Inserting, Sweeping, Previewing, Confirms, Usable, Present
  <2> QED  BY <2>4, KnowsKeeps
<1>27. CASE ConfirmLock(r)
  <2>1. CASE ~Confirmable(r)
    BY <1>27, <2>1, KnowsEnd DEF ConfirmLock
  <2>2. CASE Confirmable(r)
    <3>1. req[r] # Idle /\ req[r].op = "confirm" /\ req[r].pc = "lock"
      BY <1>27 DEF ConfirmLock, At
    <3>2. /\ req'[r].op = "confirm" /\ req'[r].pc = "put" /\ req'[r].im = req[r].im
          /\ req'[r].who = req[r].who /\ req'[r].done = req[r].done
          /\ req'[r].status = req[r].status /\ req'[r].todo = req[r].todo
      BY <1>27, <2>2, <3>1, GoingOn DEF ConfirmLock
    <3>3. UNCHANGED manifest
      BY <1>27 DEF ConfirmLock
    <3>4. ASSUME NEW m \in Imports, req'[r].im = m
          PROVE  Inserting(r, m)' /\ Sweeping(r, m)' /\ Previewing(r, m)' /\ Confirms(r, m)'
      <4>1. Confirms(r, m)
        BY <3>1, <3>2, <3>4, Known
      <4> QED  BY <3>1, <3>2, <3>3, <4>1
               DEF Inserting, Sweeping, Previewing, Confirms, Present
    <3> QED  BY <3>4, KnowsKeeps DEF Knows
  <2> QED  BY <2>1, <2>2
<1>28. CASE ConfirmCommit(r)
  <2>1. /\ req[r] # Idle /\ req[r].op = "confirm" /\ req[r].pc = "commit"
        /\ req[r].who \subseteq Students
    BY <1>28 DEF ConfirmCommit, At
  <2>2. /\ req'[r].op = "confirm" /\ req'[r].pc = "clean" /\ req'[r].im = req[r].im
        /\ req'[r].who = req[r].who
    BY <1>28, <2>1, GoingOn DEF ConfirmCommit
  <2>3. ASSUME NEW m \in Imports, req'[r].im = m
        PROVE  Inserting(r, m)' /\ Sweeping(r, m)' /\ Previewing(r, m)' /\ Confirms(r, m)'
    <3>1. Confirms(r, m)
      BY <2>1, <2>2, <2>3, Known
    <3>2. /\ manifest'[m].status = "completed" /\ manifest'[m].done = req[r].who
          /\ manifest'[m].files = manifest[m].files
      <4>1. manifest[m] \in Manifest
        BY DEF TypeOK
      <4> QED  BY <1>28, <2>2, <2>3, <4>1 DEF ConfirmCommit, TypeOK, Manifest
    <3>3. manifest[m].files \subseteq Students /\ req[r].who = manifest[m].files
      BY <2>1, <3>1, Basics DEF Confirms
    <3> QED  BY <2>2, <3>2, <3>3
             DEF Inserting, Sweeping, Previewing, Confirms, Present
  <2> QED  BY <2>3, KnowsKeeps DEF Knows
<1>29. CASE ConfirmFails(r)
  BY <1>29, KnowsEnd DEF ConfirmFails
<1>30. CASE ConfirmClean(r)
  BY <1>30, KnowsEnd DEF ConfirmClean
<1>31. CASE ItemsLoad(r)
  <2>1. PICK m \in Imports :
          /\ Usable(m) /\ manifest[m].status # "completed"
          /\ manifest[m].files \subseteq Personnel
          /\ req' = [req EXCEPT ![r] =
                 [op |-> "confirm", pc |-> "item", im |-> m, who |-> {}, prev |-> Nothing,
                  new |-> Nothing, todo |-> manifest[m].files \ manifest[m].done,
                  done |-> manifest[m].done, back |-> {}, status |-> "completed"]]
    BY <1>31 DEF ItemsLoad
  <2>2. /\ req'[r].op = "confirm" /\ req'[r].pc = "item" /\ req'[r].im = m
        /\ req'[r].who = {} /\ req'[r].todo \subseteq manifest[m].files
        /\ req'[r].done = manifest[m].done /\ req'[r].status = "completed"
    BY <2>1 DEF TypeOK
  <2>3. UNCHANGED manifest
    BY <1>31 DEF ItemsLoad
  <2>4. Knows(r)'
    BY <2>1, <2>2, <2>3 DEF Knows, Inserting, Sweeping, Previewing, Confirms, Usable, Present
  <2> QED  BY <2>4, KnowsKeeps
<1>32. CASE ItemLoad(r)
  <2>1. /\ req[r] # Idle /\ req[r] \in Request
        /\ req[r].op = "confirm" /\ req[r].pc = "item"
    BY <1>32 DEF ItemLoad, At, TypeOK
  <2>2. PICK p \in req[r].todo :
           req' = [req EXCEPT ![r] =
              IF p \in temps[req[r].im]
              THEN [[req[r] EXCEPT !.todo = @ \ {p}, !.prev[p] = path[p]]
                       EXCEPT !.pc = "put", !.who = {p}]
              ELSE [[req[r] EXCEPT !.todo = @ \ {p}, !.prev[p] = path[p]]
                       EXCEPT !.back = {p}, !.status = "partial"]]
    BY <1>32 DEF ItemLoad
  <2>3. /\ req'[r].op = "confirm" /\ req'[r].im = req[r].im /\ req'[r].done = req[r].done
        /\ req'[r].todo \subseteq req[r].todo
        /\ \/ /\ req'[r].pc = "put" /\ req'[r].who = {p} /\ req'[r].status = req[r].status
           \/ /\ req'[r].pc = "item" /\ req'[r].who = req[r].who /\ req'[r].status = "partial"
    BY <2>1, <2>2 DEF TypeOK, Request
  <2>4. UNCHANGED manifest
    BY <1>32 DEF ItemLoad
  <2>5. ASSUME NEW m \in Imports, req'[r].im = m
        PROVE  Inserting(r, m)' /\ Sweeping(r, m)' /\ Previewing(r, m)' /\ Confirms(r, m)'
    <3>1. Confirms(r, m)
      BY <2>1, <2>3, <2>5, Known
    <3>2. Confirms(r, m)'
      BY <2>1, <2>3, <2>4, <3>1 DEF Confirms, Present
    <3> QED  BY <2>3, <3>2 DEF Inserting, Sweeping, Previewing
  <2> QED  BY <2>5, KnowsKeeps DEF Knows
<1>33. CASE ItemCommit(r)
  <2>1. /\ req[r] # Idle /\ req[r] \in Request /\ req[r].op = "confirm" /\ req[r].pc = "commit"
        /\ req[r].who \subseteq Personnel
    BY <1>33 DEF ItemCommit, At, TypeOK
  <2>2. /\ req'[r].who = req[r].who /\ req'[r].pc = "clean" /\ req'[r].op = "confirm"
        /\ req'[r].im = req[r].im /\ req'[r].done = req[r].done \cup req[r].who
        /\ req'[r].todo = req[r].todo /\ req'[r].status = req[r].status
    BY <1>33, <2>1 DEF ItemCommit, TypeOK, Request
  <2>3. ASSUME NEW m \in Imports, req'[r].im = m
        PROVE  Inserting(r, m)' /\ Sweeping(r, m)' /\ Previewing(r, m)' /\ Confirms(r, m)'
    <3>1. Confirms(r, m)
      BY <2>1, <2>2, <2>3, Known
    <3>2. /\ manifest'[m].status = manifest[m].status
          /\ manifest'[m].done = req[r].done \cup req[r].who
          /\ manifest'[m].files = manifest[m].files
      <4>1. manifest[m] \in Manifest
        BY DEF TypeOK
      <4> QED  BY <1>33, <2>2, <2>3, <4>1 DEF ItemCommit, TypeOK, Manifest
    <3>3. Staged(m)
      BY DEF StagedInv, Sole
    <3>4. ~(manifest[m].files \subseteq Students /\ req[r].who = manifest[m].files)
      BY <2>1, <3>1, <3>3, Basics DEF Confirms, Staged
    <3>5. Confirms(r, m)'
      BY <2>1, <2>2, <3>1, <3>2, <3>4 DEF Confirms, Present
    <3> QED  BY <2>2, <3>5 DEF Inserting, Sweeping, Previewing
  <2> QED  BY <2>3, KnowsKeeps DEF Knows
<1>34. CASE ItemFails(r)
  <2>1. /\ req[r] # Idle /\ req[r] \in Request /\ req[r].op = "confirm"
        /\ req[r].who # {} /\ req[r].who \subseteq Personnel
    BY <1>34 DEF ItemFails, TypeOK
  <2>2. /\ req'[r].who = req[r].who /\ req'[r].pc = "item" /\ req'[r].op = "confirm"
        /\ req'[r].im = req[r].im /\ req'[r].done = req[r].done
        /\ req'[r].todo = req[r].todo /\ req'[r].status = "partial"
    BY <1>34, <2>1 DEF ItemFails, TypeOK, Request
  <2>3. UNCHANGED manifest
    BY <1>34 DEF ItemFails
  <2>4. ASSUME NEW m \in Imports, req'[r].im = m
        PROVE  Inserting(r, m)' /\ Sweeping(r, m)' /\ Previewing(r, m)' /\ Confirms(r, m)'
    <3>1. Confirms(r, m)
      BY <2>1, <2>2, <2>4, Known
    <3>2. ~(manifest[m].files \subseteq Students /\ req[r].who = manifest[m].files)
      BY <2>1, Basics
    <3>3. Confirms(r, m)'
      BY <2>1, <2>2, <2>3, <3>1, <3>2 DEF Confirms, Present
    <3> QED  BY <2>2, <3>3 DEF Inserting, Sweeping, Previewing
  <2> QED  BY <2>4, KnowsKeeps DEF Knows
<1>35. CASE ItemClean(r)
  <2>1. /\ req[r] # Idle /\ req[r].op = "confirm" /\ req[r].pc = "clean"
        /\ req[r].who \subseteq Personnel /\ To(r, "item") /\ UNCHANGED manifest
    BY <1>35 DEF ItemClean, At
  <2>2. /\ req'[r].who = req[r].who /\ req'[r].pc = "item" /\ req'[r].op = "confirm"
        /\ req'[r].im = req[r].im /\ req'[r].done = req[r].done
        /\ req'[r].todo = req[r].todo /\ req'[r].status = req[r].status
    BY <2>1, GoingOn
  <2>3. ASSUME NEW m \in Imports, req'[r].im = m
        PROVE  Inserting(r, m)' /\ Sweeping(r, m)' /\ Previewing(r, m)' /\ Confirms(r, m)'
    <3>1. Confirms(r, m) /\ Staged(m)
      BY <2>1, <2>2, <2>3, Known DEF StagedInv, Sole
    <3>2. ~(manifest[m].files \subseteq Students /\ req[r].who = manifest[m].files)
      BY <2>1, <3>1, Basics DEF Confirms, Staged
    <3>3. Confirms(r, m)'
      BY <2>1, <2>2, <3>1, <3>2 DEF Confirms, Present
    <3> QED  BY <2>2, <3>3 DEF Inserting, Sweeping, Previewing
  <2> QED  BY <2>3, KnowsKeeps DEF Knows
<1>36. CASE ItemsFinish(r)
  BY <1>36, KnowsEnd DEF ItemsFinish
<1> QED  BY <1>1, <1>2, <1>3, <1>4, <1>5, <1>6, <1>7, <1>8, <1>9, <1>10, <1>11, <1>12, <1>13,
   <1>14, <1>15, <1>16, <1>17, <1>18, <1>19, <1>20, <1>21, <1>22, <1>23, <1>24, <1>25, <1>26,
   <1>27, <1>28, <1>29, <1>30, <1>31, <1>32, <1>33, <1>34, <1>35, <1>36 DEF OnePhoto, Staging,
   Confirming

(***************************************************************************)
(* Serial behaviours: the staged objects.                                  *)
(***************************************************************************)
\* A step that touches the import i alone, and takes the request neither out of the
\* insertion nor out of the clean-up of another one.
LEMMA StagedOne ==
    ASSUME StagedInv, NEW r \in Requests, Sole(r), NEW i \in Imports, Staged(i)',
           \A m \in Imports \ {i} : manifest'[m] = manifest[m] /\ temps'[m] = temps[m],
           At(r, "confirm", "clean") \/ At(r, "import", "insert") => req[r].im = i
    PROVE  StagedInv'
<1> SUFFICES ASSUME NEW m \in Imports \ {i} PROVE Staged(m)'
  BY DEF StagedInv
<1>1. Staged(m) /\ manifest'[m] = manifest[m] /\ temps'[m] = temps[m]
  BY DEF StagedInv, Sole
<1>2. ~BeingInserted(m) /\ \A p \in People : ~BeingCleaned(m, p)
  BY DEF BeingInserted, BeingCleaned, Sole, At
<1>3. \A p \in temps[m] \cap manifest[m].done : ~BeingCleaned(m, p)
  BY DEF BeingCleaned, Sole, At
<1> QED  BY <1>1, <1>2, <1>3 DEF Staged, Present, Usable

\* A step that touches no import, of a request that neither inserts nor cleans up.
LEMMA StagedRests ==
    ASSUME StagedInv, NEW r \in Requests, Sole(r), UNCHANGED <<manifest, temps>>,
           ~At(r, "confirm", "clean"), ~At(r, "import", "insert")
    PROVE  StagedInv'
<1> SUFFICES ASSUME NEW m \in Imports PROVE Staged(m)'
  BY DEF StagedInv
<1>1. Staged(m)
  BY DEF StagedInv, Sole
<1>2. ~BeingInserted(m) /\ \A p : ~BeingCleaned(m, p)
  BY DEF BeingInserted, BeingCleaned, Sole, At
<1> QED  BY <1>1, <1>2 DEF Staged, Present, Usable

\* No object of the import is being deleted unless by the request at work.
LEMMA NoneUsed ==
    ASSUME StagedInv, NEW r \in Requests, Sole(r), ~At(r, "confirm", "clean"), NEW m \in Imports
    PROVE  temps[m] \cap manifest[m].done = {}
BY DEF StagedInv, Staged, BeingCleaned, Sole, At

\* Nor is the step of a request without an import of its own.
LEMMA StagedElsewhere ==
    ASSUME StagedInv, NEW r \in Requests, Sole(r), UNCHANGED <<manifest, temps>>,
           req[r].im \notin Imports
    PROVE  StagedInv'
<1> SUFFICES ASSUME NEW m \in Imports PROVE Staged(m)'
  BY DEF StagedInv
<1>1. Staged(m)
  BY DEF StagedInv, Sole
<1>2. ~BeingInserted(m) /\ \A p : ~BeingCleaned(m, p)
  BY DEF BeingInserted, BeingCleaned, Sole, At
<1> QED  BY <1>1, <1>2 DEF Staged, Present, Usable

\* A step of the only request keeps the staged objects accounted for.
LEMMA StagedStep ==
    ASSUME TypeOK, TypeOK', ImportInv, StagedInv, LockInv, NEW r \in Requests, Sole(r),
           OnePhoto(r) \/ Staging(r) \/ Confirming(r)
    PROVE  StagedInv'
<1>1. CASE UploadLoad(r)
  BY <1>1, StagedRests DEF UploadLoad, Begin, At
<1>2. CASE Put(r)
  BY <1>2, StagedRests DEF Put, At
<1>3. CASE PutFails(r)
  BY <1>3, StagedRests DEF PutFails, At
<1>4. CASE UploadCommit(r)
  BY <1>4, StagedRests DEF UploadCommit, At
<1>5. CASE UploadFails(r)
  BY <1>5, StagedRests DEF UploadFails, At
<1>6. CASE UploadClean(r)
  BY <1>6, StagedRests DEF UploadClean, At
<1>7. CASE RemoveLoad(r)
  BY <1>7, StagedRests DEF RemoveLoad, Begin, At
<1>8. CASE StudentObjectRemoved(r)
  BY <1>8, StagedRests DEF StudentObjectRemoved, At
<1>9. CASE StudentRemoveCommit(r)
  BY <1>9, StagedRests DEF StudentRemoveCommit, At
<1>10. CASE PersonnelRemoveCommit(r)
  BY <1>10, StagedRests DEF PersonnelRemoveCommit, At
<1>11. CASE PersonnelRemoveClean(r)
  BY <1>11, StagedRests DEF PersonnelRemoveClean, At
<1>12. CASE RemoveFails(r)
  BY <1>12, StagedRests DEF RemoveFails, At
<1>13. CASE ImportBegin(r)
  BY <1>13, StagedRests DEF ImportBegin, Begin, At
<1>14. CASE SweepNext(r)
  BY <1>14, StagedRests DEF SweepNext, At
<1>15. CASE SweepDone(r)
  BY <1>15, StagedRests DEF SweepDone, At
<1>16. CASE ExpiredLoad(r)
  BY <1>16, StagedRests DEF ExpiredLoad, Begin, At
<1>17. CASE SweepTemps(r)
  <2>1. req[r] # Idle /\ req[r].op \in {"import", "preview"} /\ req[r].pc = "temps"
    BY <1>17 DEF SweepTemps, At
  <2>2. PICK left \in Left(temps[req[r].im]) : temps' = [temps EXCEPT ![req[r].im] = left]
    BY <1>17 DEF SweepTemps
  <2>3. left = {} /\ UNCHANGED manifest /\ StagedInv
    BY <1>17, <2>2, LeftPart DEF Sole, SweepTemps
  <2>4. ASSUME NEW i \in Imports, req[r].im = i PROVE StagedInv'
    <3>1. manifest[i].expired
      BY <2>1, <2>4, Known DEF Sweeping
    <3>2. temps'[i] = {} /\ \A m \in Imports \ {i} : temps'[m] = temps[m]
      BY <2>2, <2>3, <2>4 DEF TypeOK
    <3>3. Staged(i)
      BY <2>4 DEF StagedInv, Sole
    <3>4. Staged(i)'
      BY <2>3, <3>1, <3>2, <3>3 DEF Staged, Present, Usable
    <3> QED  BY <2>1, <2>3, <2>4, <3>2, <3>4, StagedOne DEF At
  <2>5. CASE req[r].im \notin Imports
    <3>1. temps' = temps
      BY <2>2, <2>5 DEF TypeOK
    <3> QED  BY <2>1, <2>3, <3>1, StagedRests DEF At
  <2> QED  BY <2>4, <2>5
<1>18. CASE SweepRow(r)
  <2>1. req[r] # Idle /\ req[r].op \in {"import", "preview"} /\ req[r].pc = "row" /\ UNCHANGED temps
    BY <1>18 DEF SweepRow, At
  <2>2. CASE UNCHANGED manifest
    BY <2>1, <2>2, StagedRests DEF At
  <2>3. ASSUME NEW i \in Imports, req[r].im = i,
               manifest' = [manifest EXCEPT ![i].status = "absent"]
        PROVE  StagedInv'
    <3>1. temps[i] = {}
      BY <2>1, <2>3, Known DEF Sweeping
    <3>2. /\ manifest'[i].status = "absent" /\ manifest'[i].files = manifest[i].files
          /\ manifest'[i].done = manifest[i].done
          /\ \A m \in Imports \ {i} : manifest'[m] = manifest[m]
      BY <2>3 DEF TypeOK, Manifest
    <3>3. Staged(i)
      BY <2>3 DEF StagedInv, Sole
    <3>4. Staged(i)'
      BY <2>1, <3>1, <3>2, <3>3 DEF Staged, Present, Usable
    <3> QED  BY <2>1, <2>3, <3>2, <3>4, StagedOne DEF At
  <2>4. CASE /\ req[r].im \notin Imports
             /\ manifest' = [manifest EXCEPT ![req[r].im].status = "absent"]
    <3>1. manifest' = manifest
      BY <2>4 DEF TypeOK
    <3> QED  BY <2>1, <3>1, StagedRests DEF At
  <2> QED  BY <1>18, <2>2, <2>3, <2>4 DEF SweepRow
<1>19. CASE Stage(r)
  <2>1. req[r] # Idle /\ req[r] \in Request /\ req[r].op = "import" /\ req[r].pc = "stage"
    BY <1>19 DEF Stage, At, TypeOK
  <2>2. PICK m \in Imports, files \in ((SUBSET Students) \cup (SUBSET Personnel)) \ {{}} :
          /\ manifest[m].files = {}
          /\ temps' = [temps EXCEPT ![m] = files]
          /\ manifest' = [manifest EXCEPT ![m].files = files,
                 ![m].seen = [p \in People |-> IF p \in files THEN path[p] ELSE None]]
          /\ req' = [req EXCEPT ![r].pc = "insert", ![r].im = m]
    BY <1>19 DEF Stage
  <2>3. req'[r].op = "import" /\ req'[r].pc = "insert" /\ req'[r].im = m /\ req'[r] # Idle
    <3>1. req'[r] = [req[r] EXCEPT !.pc = "insert", !.im = m]
      BY <2>2 DEF TypeOK
    <3>2. req'[r] \in Request
      BY <2>1, <3>1 DEF Request
    <3> QED  BY <2>1, <3>1, <3>2, Working DEF Request
  <2>4. /\ manifest'[m].files = files /\ manifest'[m].status = manifest[m].status
        /\ manifest'[m].done = manifest[m].done /\ temps'[m] = files
    <3>1. manifest[m] \in Manifest
      BY DEF TypeOK
    <3> QED  BY <2>2, <3>1 DEF TypeOK, Manifest
  <2>5. \A i \in Imports \ {m} : manifest'[i] = manifest[i] /\ temps'[i] = temps[i]
    BY <2>2 DEF TypeOK
  <2>6. manifest[m].status = "absent" /\ manifest[m].done = {}
    BY <2>2 DEF StagedInv, Staged, Present, Sole
  <2>7. BeingInserted(m)'
    BY <2>3 DEF BeingInserted, At
  <2>8. Staged(m)'
    BY <2>2, <2>4, <2>6, <2>7 DEF Staged, Present, Usable
  <2> QED  BY <2>1, <2>5, <2>8, StagedOne DEF At
<1>20. CASE StageFails(r)
  BY <1>20, StagedRests DEF StageFails, At
<1>21. CASE Insert(r)
  <2>1. req[r] # Idle /\ req[r].op = "import" /\ req[r].pc = "insert" /\ UNCHANGED temps
    BY <1>21 DEF Insert, At
  <2>2. ASSUME NEW i \in Imports, req[r].im = i PROVE StagedInv'
    <3>1. Inserting(r, i)
      BY <2>1, <2>2, Known
    <3>2. /\ manifest'[i].status = "uploaded" /\ manifest'[i].files = manifest[i].files
          /\ manifest'[i].done = manifest[i].done
          /\ \A m \in Imports \ {i} : manifest'[m] = manifest[m]
      BY <1>21, <2>2 DEF Insert, TypeOK, Manifest
    <3>3. Staged(i)'
      BY <2>1, <3>1, <3>2 DEF Inserting, Staged, Present, Usable
    <3> QED  BY <2>1, <2>2, <3>2, <3>3, StagedOne DEF At
  <2>3. CASE req[r].im \notin Imports
    <3>1. manifest' = manifest
      BY <1>21, <2>3 DEF Insert, TypeOK
    <3> QED  BY <2>1, <2>3, <3>1, StagedElsewhere DEF At
  <2> QED  BY <2>2, <2>3
<1>22. CASE InsertFails(r)
  <2>1. req[r] # Idle /\ req[r].op = "import" /\ req[r].pc = "insert" /\ UNCHANGED manifest
    BY <1>22 DEF InsertFails, At
  <2>2. PICK left \in Left(temps[req[r].im]) : temps' = [temps EXCEPT ![req[r].im] = left]
    BY <1>22 DEF InsertFails
  <2>3. left = {}
    BY <2>2, LeftPart DEF Sole
  <2>4. ASSUME NEW i \in Imports, req[r].im = i PROVE StagedInv'
    <3>1. Inserting(r, i)
      BY <2>1, <2>4, Known
    <3>2. temps'[i] = {} /\ \A m \in Imports \ {i} : temps'[m] = temps[m]
      BY <2>2, <2>3, <2>4 DEF TypeOK
    <3>3. Staged(i)'
      BY <2>1, <3>1, <3>2 DEF Inserting, Staged, Present, Usable
    <3> QED  BY <2>1, <2>4, <3>2, <3>3, StagedOne DEF At
  <2>5. CASE req[r].im \notin Imports
    <3>1. temps' = temps
      BY <2>2, <2>5 DEF TypeOK
    <3> QED  BY <2>1, <2>5, <3>1, StagedElsewhere DEF At
  <2> QED  BY <2>4, <2>5
<1>23. CASE PreviewLoad(r)
  BY <1>23, StagedRests DEF PreviewLoad, Begin, At
<1>24. CASE PreviewMatch(r)
  BY <1>24, StagedRests DEF PreviewMatch, At
<1>25. CASE PreviewUpdate(r)
  <2>1. req[r] # Idle /\ req[r].op = "preview" /\ req[r].pc = "update" /\ UNCHANGED temps
    BY <1>25 DEF PreviewUpdate, At
  <2>2. CASE UNCHANGED manifest
    BY <2>1, <2>2, StagedRests DEF At
  <2>3. ASSUME NEW i \in Imports, req[r].im = i, manifest' # manifest PROVE StagedInv'
    <3>1. Previewing(r, i) /\ Staged(i) /\ temps[i] \cap manifest[i].done = {}
      BY <2>1, <2>3, Known, NoneUsed DEF StagedInv, Sole, At
    <3>2. /\ Present(i) /\ manifest'[i].status \in {manifest[i].status, "previewed"}
          /\ manifest'[i].files = manifest[i].files /\ manifest'[i].done = req[r].done
          /\ manifest'[i].expired = manifest[i].expired
          /\ \A m \in Imports \ {i} : manifest'[m] = manifest[m]
      <4>1. manifest[i] \in Manifest
        BY <2>3 DEF TypeOK
      <4>2. Present(i) /\ manifest' = [manifest EXCEPT
                      ![req[r].im].seen = [q \in People |->
                           IF q \in req[r].who \ req[r].done THEN req[r].prev[q] ELSE @[q]],
                      ![req[r].im].done = req[r].done,
                      ![req[r].im].status = IF req[r].status = "previewed" THEN @ ELSE "previewed"]
        BY <1>25, <2>3 DEF PreviewUpdate
      <4>3. \A m \in Imports \ {i} : manifest'[m] = manifest[m]
        BY <2>3, <4>2 DEF TypeOK
      <4>4. manifest'[i].status \in {manifest[i].status, "previewed"}
        BY <2>3, <4>1, <4>2 DEF TypeOK, Manifest
      <4>5. /\ manifest'[i].files = manifest[i].files /\ manifest'[i].done = req[r].done
            /\ manifest'[i].expired = manifest[i].expired
        BY <2>3, <4>1, <4>2 DEF TypeOK, Manifest
      <4> QED  BY <4>2, <4>3, <4>4, <4>5
    <3>3. Staged(i)'
      BY <2>1, <3>1, <3>2 DEF Previewing, Staged, Present, Usable
    <3> QED  BY <2>1, <2>3, <3>2, <3>3, StagedOne DEF At
  <2>4. CASE req[r].im \notin Imports
    <3>1. \/ UNCHANGED manifest
          \/ manifest' = [manifest EXCEPT
                       ![req[r].im].seen = [q \in People |->
                            IF q \in req[r].who \ req[r].done THEN req[r].prev[q] ELSE @[q]],
                       ![req[r].im].done = req[r].done,
                       ![req[r].im].status = IF req[r].status = "previewed" THEN @ ELSE "previewed"]
      BY <1>25 DEF PreviewUpdate
    <3>0. \A m \in Imports : manifest'[m] = manifest[m]
      BY <2>4, <3>1 DEF TypeOK
    <3>2. manifest' = manifest
      BY <3>0 DEF TypeOK
    <3> QED  BY <2>1, <3>2, StagedRests DEF At
  <2> QED  BY <2>2, <2>3, <2>4
<1>26. CASE ConfirmLoad(r)
  BY <1>26, StagedRests DEF ConfirmLoad, Begin, At
<1>27. CASE ConfirmLock(r)
  BY <1>27, StagedRests DEF ConfirmLock, At
<1>28. CASE ConfirmCommit(r)
  <2>1. /\ req[r] # Idle /\ req[r].op = "confirm" /\ req[r].pc = "commit" /\ UNCHANGED temps
        /\ req[r].who \subseteq Students
    BY <1>28 DEF ConfirmCommit, At
  <2>2. /\ req'[r].op = "confirm" /\ req'[r].pc = "clean" /\ req'[r].im = req[r].im
        /\ req'[r].who = req[r].who /\ req'[r] # Idle
    BY <1>28, <2>1, GoingOn, StillWorking DEF ConfirmCommit
  <2>3. ASSUME NEW i \in Imports, req[r].im = i PROVE StagedInv'
    <3>1. Staged(i)
      BY <2>3 DEF StagedInv, Sole
    <3>2. /\ Present(i) /\ manifest'[i].status = "completed" /\ manifest'[i].done = req[r].who
          /\ manifest'[i].files = manifest[i].files
          /\ \A m \in Imports \ {i} : manifest'[m] = manifest[m]
      <4>1. manifest[i] \in Manifest
        BY <2>3 DEF TypeOK
      <4> QED  BY <1>28, <2>3, <4>1 DEF ConfirmCommit, TypeOK, Manifest
    <3>3. \A p \in req[r].who : BeingCleaned(i, p)'
      BY <2>2, <2>3 DEF BeingCleaned, At
    <3>4. Staged(i)'
      BY <2>1, <3>1, <3>2, <3>3 DEF Staged, Present, Usable
    <3> QED  BY <2>1, <2>3, <3>2, <3>4, StagedOne DEF At
  <2>4. CASE req[r].im \notin Imports
    <3>1. manifest' = manifest
      BY <1>28, <2>4 DEF ConfirmCommit, TypeOK
    <3> QED  BY <2>1, <3>1, StagedRests DEF At
  <2> QED  BY <2>3, <2>4
<1>29. CASE ConfirmFails(r)
  BY <1>29, StagedRests DEF ConfirmFails, At
<1>30. CASE ConfirmClean(r)
  <2>1. req[r] # Idle /\ req[r].op = "confirm" /\ req[r].pc = "clean" /\ UNCHANGED manifest
    BY <1>30 DEF ConfirmClean, At
  <2>2. PICK left \in Left(temps[req[r].im] \cap req[r].who) :
             temps' = [temps EXCEPT ![req[r].im] = (@ \ req[r].who) \cup left]
    BY <1>30 DEF ConfirmClean
  <2>3. left = {}
    BY <2>2, LeftPart DEF Sole
  <2>4. ASSUME NEW i \in Imports, req[r].im = i PROVE StagedInv'
    <3>1. Staged(i) /\ Confirms(r, i)
      BY <2>1, <2>4, Known DEF StagedInv, Sole
    <3>2. temps'[i] = temps[i] \ req[r].who /\ \A m \in Imports \ {i} : temps'[m] = temps[m]
      BY <2>2, <2>3, <2>4 DEF TypeOK
    <3>3. \A p \in temps[i] \cap manifest[i].done : p \in req[r].who
      BY <2>4, <3>1 DEF Staged, BeingCleaned, Sole, At
    <3>4. Present(i) /\ req[r].who \subseteq manifest[i].done
      BY <2>1, <3>1 DEF Confirms
    <3>5. Staged(i)'
      BY <2>1, <3>1, <3>2, <3>3, <3>4 DEF Staged, Present, Usable
    <3> QED  BY <2>1, <2>4, <3>2, <3>5, StagedOne DEF At
  <2>5. CASE req[r].im \notin Imports
    <3>1. temps' = temps
      BY <2>2, <2>5 DEF TypeOK
    <3> QED  BY <2>1, <2>5, <3>1, StagedElsewhere DEF At
  <2> QED  BY <2>4, <2>5
<1>31. CASE ItemsLoad(r)
  BY <1>31, StagedRests DEF ItemsLoad, At
<1>32. CASE ItemLoad(r)
  BY <1>32, StagedRests DEF ItemLoad, At
<1>33. CASE ItemCommit(r)
  <2>1. /\ req[r] # Idle /\ req[r] \in Request /\ req[r].op = "confirm" /\ req[r].pc = "commit"
        /\ UNCHANGED temps /\ req[r].who \subseteq Personnel
    BY <1>33 DEF ItemCommit, At, TypeOK
  <2>2. /\ req'[r].op = "confirm" /\ req'[r].pc = "clean" /\ req'[r].im = req[r].im
        /\ req'[r].who = req[r].who /\ req'[r] # Idle
    <3>1. req'[r] \in Request
      BY <1>33, <2>1 DEF ItemCommit, TypeOK, Request
    <3> QED  BY <1>33, <2>1, <3>1, Working DEF ItemCommit, TypeOK, Request
  <2>3. ASSUME NEW i \in Imports, req[r].im = i PROVE StagedInv'
    <3>1. Staged(i) /\ Confirms(r, i) /\ temps[i] \cap manifest[i].done = {}
      BY <2>1, <2>3, Known, NoneUsed DEF StagedInv, Sole, At
    <3>2. /\ Present(i) /\ manifest'[i].status = manifest[i].status
          /\ manifest'[i].done = req[r].done \cup req[r].who
          /\ manifest'[i].files = manifest[i].files /\ manifest'[i].expired = manifest[i].expired
          /\ \A m \in Imports \ {i} : manifest'[m] = manifest[m]
      <4>1. manifest[i] \in Manifest
        BY <2>3 DEF TypeOK
      <4> QED  BY <1>33, <2>3, <4>1 DEF ItemCommit, TypeOK, Manifest
    <3>3. \A p \in req[r].who : BeingCleaned(i, p)'
      BY <2>2, <2>3 DEF BeingCleaned, At
    <3>4. manifest[i].files # {} /\ req[r].done = manifest[i].done
          /\ manifest[i].files \subseteq Personnel
      BY <2>1, <3>1, <3>2, Basics DEF Confirms, Staged
    <3>5. Staged(i)'
      BY <2>1, <3>1, <3>2, <3>3, <3>4, Basics DEF Staged, Present, Usable
    <3> QED  BY <2>1, <2>3, <3>2, <3>5, StagedOne DEF At
  <2>4. CASE req[r].im \notin Imports
    <3>1. manifest' = manifest
      BY <1>33, <2>4 DEF ItemCommit, TypeOK
    <3> QED  BY <2>1, <3>1, StagedRests DEF At
  <2> QED  BY <2>3, <2>4
<1>34. CASE ItemFails(r)
  BY <1>34, StagedRests DEF ItemFails, At
<1>35. CASE ItemClean(r)
  <2>1. req[r] # Idle /\ req[r].op = "confirm" /\ req[r].pc = "clean" /\ UNCHANGED manifest
    BY <1>35 DEF ItemClean, At
  <2>2. PICK left \in Left(temps[req[r].im] \cap req[r].who) :
             temps' = [temps EXCEPT ![req[r].im] = (@ \ req[r].who) \cup left]
    BY <1>35 DEF ItemClean
  <2>3. left = {}
    BY <2>2, LeftPart DEF Sole
  <2>4. ASSUME NEW i \in Imports, req[r].im = i PROVE StagedInv'
    <3>1. Staged(i) /\ Confirms(r, i)
      BY <2>1, <2>4, Known DEF StagedInv, Sole
    <3>2. temps'[i] = temps[i] \ req[r].who /\ \A m \in Imports \ {i} : temps'[m] = temps[m]
      BY <2>2, <2>3, <2>4 DEF TypeOK
    <3>3. \A p \in temps[i] \cap manifest[i].done : p \in req[r].who
      BY <2>4, <3>1 DEF Staged, BeingCleaned, Sole, At
    <3>4. Present(i) /\ req[r].who \subseteq manifest[i].done
      BY <2>1, <3>1 DEF Confirms
    <3>5. Staged(i)'
      BY <2>1, <3>1, <3>2, <3>3, <3>4 DEF Staged, Present, Usable
    <3> QED  BY <2>1, <2>4, <3>2, <3>5, StagedOne DEF At
  <2>5. CASE req[r].im \notin Imports
    <3>1. temps' = temps
      BY <2>2, <2>5 DEF TypeOK
    <3> QED  BY <2>1, <2>5, <3>1, StagedElsewhere DEF At
  <2> QED  BY <2>4, <2>5
<1>36. CASE ItemsFinish(r)
  <2>1. req[r] # Idle /\ req[r].op = "confirm" /\ req[r].pc = "item" /\ UNCHANGED temps
    BY <1>36 DEF ItemsFinish, At
  <2>2. CASE UNCHANGED manifest
    BY <2>1, <2>2, StagedRests DEF At
  <2>3. ASSUME NEW i \in Imports, req[r].im = i, manifest' # manifest PROVE StagedInv'
    <3>1. Staged(i) /\ Confirms(r, i) /\ temps[i] \cap manifest[i].done = {}
      BY <2>1, <2>3, Known, NoneUsed DEF StagedInv, Sole, At
    <3>2. /\ Present(i) /\ manifest'[i].status = req[r].status
          /\ manifest'[i].done = req[r].done
          /\ manifest'[i].files = manifest[i].files /\ manifest'[i].expired = manifest[i].expired
          /\ \A m \in Imports \ {i} : manifest'[m] = manifest[m]
      <4>1. manifest[i] \in Manifest
        BY <2>3 DEF TypeOK
      <4> QED  BY <1>36, <2>3, <4>1 DEF ItemsFinish, TypeOK, Manifest
    <3>3. /\ manifest[i].files # {} /\ req[r].done = manifest[i].done
          /\ manifest[i].status # "completed" /\ req[r].status \in {"partial", "completed"}
      BY <2>1, <3>1, <3>2 DEF Confirms, Staged
    <3>4. Staged(i)'
      BY <2>1, <3>1, <3>2, <3>3 DEF Staged, Present, Usable
    <3> QED  BY <2>1, <2>3, <3>2, <3>4, StagedOne DEF At
  <2>4. CASE req[r].im \notin Imports
    <3>1. manifest' = manifest
      BY <1>36, <2>4 DEF ItemsFinish, TypeOK
    <3> QED  BY <2>1, <3>1, StagedRests DEF At
  <2> QED  BY <2>2, <2>3, <2>4
<1> QED  BY <1>1, <1>2, <1>3, <1>4, <1>5, <1>6, <1>7, <1>8, <1>9, <1>10, <1>11, <1>12, <1>13,
   <1>14, <1>15, <1>16, <1>17, <1>18, <1>19, <1>20, <1>21, <1>22, <1>23, <1>24, <1>25, <1>26,
   <1>27, <1>28, <1>29, <1>30, <1>31, <1>32, <1>33, <1>34, <1>35, <1>36 DEF OnePhoto, Staging,
   Confirming

(***************************************************************************)
(* Serial behaviours, all steps.                                           *)
(***************************************************************************)
SerialInv == AloneInv /\ BucketInv /\ ImportInv /\ StagedInv

\* Time passes: an import that has expired is not offered any more.
LEMMA ExpireKeeps ==
    ASSUME TypeOK, SerialInv, Expire, UNCHANGED serial
    PROVE  SerialInv'
<1>1. PICK m \in Imports : manifest' = [manifest EXCEPT ![m].expired = TRUE]
  BY DEF Expire
<1>2. UNCHANGED <<path, store, temps, req, exposed, serial>>
  BY DEF Expire
<1>3. \A i \in Imports :
        /\ manifest'[i].status = manifest[i].status /\ manifest'[i].files = manifest[i].files
        /\ manifest'[i].done = manifest[i].done
        /\ manifest[i].expired => manifest'[i].expired
  <2> SUFFICES ASSUME NEW i \in Imports
               PROVE  /\ manifest'[i].status = manifest[i].status
                      /\ manifest'[i].files = manifest[i].files
                      /\ manifest'[i].done = manifest[i].done
                      /\ manifest[i].expired => manifest'[i].expired
    OBVIOUS
  <2>1. manifest[i] \in Manifest
    BY DEF TypeOK
  <2> QED  BY <1>1, <2>1 DEF TypeOK, Manifest
<1>4. AloneInv' /\ BucketInv'
  <2>1. AloneInv'
    BY <1>2 DEF SerialInv, AloneInv
  <2>2. \A o : Kept(o) => Kept(o)'
    BY <1>2 DEF Kept, Storing, Cleaning
  <2>3. \A r \in Requests : Loaded(r) => Loaded(r)'
    BY <1>2 DEF Loaded
  <2> QED  BY <1>2, <2>1, <2>2, <2>3 DEF SerialInv, BucketInv
<1>5. ImportInv'
  <2> SUFFICES ASSUME serial, NEW r \in Requests, NEW i \in Imports,
                      req[r] # Idle, req[r].im = i
               PROVE  /\ Inserting(r, i)' /\ Sweeping(r, i)'
                      /\ Previewing(r, i)' /\ Confirms(r, i)'
    BY <1>2 DEF ImportInv, Knows
  <2>1. Inserting(r, i) /\ Sweeping(r, i) /\ Previewing(r, i) /\ Confirms(r, i)
    BY DEF SerialInv, ImportInv, Knows
  <2>2. Inserting(r, i)'
    BY <1>2, <1>3, <2>1 DEF Inserting
  <2>3. Sweeping(r, i)'
    BY <1>2, <1>3, <2>1 DEF Sweeping
  <2>4. Previewing(r, i)'
    BY <1>2, <1>3, <2>1 DEF Previewing, Present
  <2>5. Confirms(r, i)'
    BY <1>2, <1>3, <2>1 DEF Confirms, Present
  <2> QED  BY <2>2, <2>3, <2>4, <2>5
<1>6. StagedInv'
  <2> SUFFICES ASSUME serial, NEW i \in Imports PROVE Staged(i)'
    BY <1>2 DEF StagedInv
  <2>1. Staged(i)
    BY DEF SerialInv, StagedInv
  <2>2. (BeingInserted(i) => BeingInserted(i)') /\ \A p : BeingCleaned(i, p) => BeingCleaned(i, p)'
    BY <1>2 DEF BeingInserted, BeingCleaned, At
  <2> QED  BY <1>2, <1>3, <2>1, <2>2 DEF Staged, Present, Usable
<1> QED  BY <1>4, <1>5, <1>6 DEF SerialInv

\* Whether a behaviour is serial does not change; where it is not, nothing is said.
LEMMA SerialStep ==
    ASSUME TypeOK, TypeOK', LockInv, SerialInv, [Next]_vars
    PROVE  SerialInv'
<1>1. UNCHANGED serial
  BY DEF Next, vars
<1>2. CASE ~serial
  BY <1>1, <1>2 DEF SerialInv, AloneInv, BucketInv, ImportInv, StagedInv
<1>3. ASSUME serial, NEW r \in Requests, \A q \in Requests \ {r} : req[q] = Idle,
             OnePhoto(r) \/ Staging(r) \/ Confirming(r)
      PROVE  SerialInv'
  <2>1. Sole(r)
    BY <1>1, <1>3, Others DEF Sole
  <2>2. AloneInv' /\ BucketInv'
    BY <1>3, <2>1, AloneKeeps, BucketStep DEF SerialInv
  <2>3. ImportInv' /\ StagedInv'
    BY <1>3, <2>1, ImportStep, StagedStep DEF SerialInv
  <2> QED  BY <2>2, <2>3 DEF SerialInv
<1>4. CASE Expire
  BY <1>1, <1>4, ExpireKeeps
<1>5. CASE UNCHANGED vars
  <2>1. UNCHANGED <<path, store, manifest, temps, req, exposed, serial>>
    BY <1>5 DEF vars
  <2>2. AloneInv'
    BY <2>1 DEF SerialInv, AloneInv
  <2>3. BucketInv'
    BY <2>1 DEF SerialInv, BucketInv, Kept, Storing, Cleaning, Loaded
  <2>4. ImportInv'
    BY <2>1 DEF SerialInv, ImportInv, Knows, Inserting, Sweeping, Previewing, Confirms, Present
  <2>5. StagedInv'
    BY <2>1 DEF SerialInv, StagedInv, Staged, Present, Usable, BeingCleaned, BeingInserted, At
  <2> QED  BY <2>2, <2>3, <2>4, <2>5 DEF SerialInv
<1> QED  BY <1>2, <1>3, <1>4, <1>5 DEF Next

(***************************************************************************)
(* The theorems.                                                           *)
(***************************************************************************)
\* At first there is no photo, no object and no import.
LEMMA InitIInv == Init => IInv
<1> SUFFICES ASSUME Init PROVE IInv
  OBVIOUS
<1>1. TypeOK
  <2>1. fresh \in 0 .. MaxObjects /\ work \in 0 .. MaxWork
    BY PhotosAssumption DEF Init, PhotosAssumption
  <2>2. path \in [People -> 0 .. fresh] /\ Nothing \in Paths
    BY DEF Init, Nothing, None, Paths
  <2>3. manifest \in [Imports -> Manifest]
    BY <2>2 DEF Init, Manifest, Statuses
  <2> QED  BY <2>1, <2>2, <2>3 DEF Init, TypeOK
<1>2. /\ \A r \in Requests : req[r] = Idle
      /\ \A p \in People : path[p] = 0 /\ \A m \in Imports : manifest[m].seen[p] = 0
      /\ \A m \in Imports : /\ manifest[m].files = {} /\ manifest[m].done = {}
                            /\ temps[m] = {} /\ ~Present(m)
      /\ store = {} /\ fresh = 0
  BY DEF Init, Nothing, None, Present
<1>3. RefInv
  <2>1. NamedInv
    BY <1>2 DEF NamedInv
  <2>2. \A p \in People, o \in Objects : ~Names(p, o)
    BY <1>2, PhotosAssumption DEF Names, Objects, PhotosAssumption
  <2>3. OwnInv /\ NewInv /\ CleanInv /\ ReferencesHold
    BY <1>2, <2>2 DEF OwnInv, NewInv, CleanInv, ReferencesHold, Storing, Cleaning, None
  <2> QED  BY <2>1, <2>3 DEF RefInv
<1>4. LockInv /\ AloneInv /\ BucketInv
  BY <1>2 DEF LockInv, Locks, AloneInv, BucketInv, Loaded
<1>5. ImportInv /\ StagedInv
  BY <1>2 DEF ImportInv, Knows, StagedInv, Staged, Usable
<1> QED  BY <1>1, <1>3, <1>4, <1>5 DEF IInv

\* The inductive invariant holds throughout.
LEMMA Invariance == Spec => []IInv
<1>1. ASSUME IInv, [Next]_vars PROVE IInv'
  <2>1. TypeOK' /\ RefInv'
    BY <1>1, RefStep DEF IInv
  <2>2. LockInv'
    BY <1>1, LockStep DEF IInv
  <2>3. SerialInv'
    BY <1>1, <2>1, SerialStep DEF IInv, SerialInv
  <2> QED  BY <2>1, <2>2, <2>3 DEF IInv, SerialInv
<1> QED  BY <1>1, InitIInv, PTL DEF Spec

\* Types: what rows, requests and manifests name are objects that have been put.
THEOREM TypeCorrect == Spec => []TypeOK
<1>1. IInv => TypeOK
  BY DEF IInv
<1> QED  BY <1>1, Invariance, PTL

\* "Cleanup failure ... cannot leave a student pointing at a missing replacement"
\* (README.md:182): whatever fails or overlaps, a photo that is named exists, unless
\* a removal deleted it before its commit or it was named again after its
\* replacement (students.py, bulk_student_photos.py, bulk_personnel_photos.py).
THEOREM ReferencesStay == Spec => []ReferencesHold
<1>1. IInv => ReferencesHold
  BY DEF IInv, RefInv
<1> QED  BY <1>1, Invariance, PTL

\* One request at a time and deletions that succeed leave nothing in the bucket that no
\* row refers to, and nothing staged that its import has used or that has no
\* import, whichever steps of the database and of the bucket fail (README.md:182).
THEOREM NothingStaysBehind == Spec => []NothingLeftBehind
<1>1. IInv => NothingLeftBehind
  <2> SUFFICES ASSUME IInv, serial, Quiescent
               PROVE  /\ store \subseteq Referenced \cup exposed
                      /\ \A m \in Imports : temps[m] # {} =>
                             Present(m) /\ temps[m] \cap manifest[m].done = {}
    BY DEF NothingLeftBehind
  <2>1. \A r \in Requests : ~Storing(r) /\ ~Cleaning(r)
    BY DEF Quiescent, Storing, Cleaning
  <2>2. store \subseteq Referenced \cup exposed
    BY <2>1 DEF IInv, BucketInv, Kept, Referenced
  <2>3. \A m \in Imports : ~BeingInserted(m) /\ \A p : ~BeingCleaned(m, p)
    BY DEF Quiescent, BeingInserted, BeingCleaned, At
  <2>4. \A m \in Imports : temps[m] # {} =>
            Present(m) /\ temps[m] \cap manifest[m].done = {}
    BY <2>3 DEF IInv, StagedInv, Staged
  <2> QED  BY <2>2, <2>4
<1> QED  BY <1>1, Invariance, PTL

\* One request at a time: the staged photos of an import that is offered for
\* confirmation are those of its open entries, none of which was set before
\* (_load_bulk_photo_import, bulk_student_photos.py:574).
THEOREM StagedStays == Spec => []StagedUntilUsed
<1>1. IInv => StagedUntilUsed
  <2> SUFFICES ASSUME IInv, serial, Quiescent, NEW m \in Imports,
                      Usable(m), manifest[m].status # "completed"
               PROVE  /\ temps[m] = manifest[m].files \ manifest[m].done
                      /\ manifest[m].files \subseteq Students => manifest[m].done = {}
    BY DEF StagedUntilUsed
  <2>1. Staged(m)
    BY DEF IInv, StagedInv
  <2>2. temps[m] \cap manifest[m].done = {}
    BY <2>1 DEF Quiescent, Staged, BeingCleaned, At
  <2> QED  BY <2>1, <2>2 DEF Staged
<1> QED  BY <1>1, Invariance, PTL

\* The photos that a confirmation of students replaces are those its preview showed,
\* whatever happened in between: it compares them under FOR UPDATE
\* (confirm_bulk_student_photos, bulk_student_photos.py:696).
THEOREM ShownStays == Spec => ReplacesWhatWasShown
<1>1. ASSUME IInv PROVE ShownReplaced
  <2> SUFFICES ASSUME NEW r \in Requests, At(r, "confirm", "commit"), req[r].who \subseteq Students,
                      NEW p \in req[r].who
               PROVE  path[p] = req[r].prev[p]
    BY DEF ShownReplaced
  <2> QED  BY <1>1 DEF IInv, LockInv, Locks, At
<1>2. IInv => [ShownReplaced]_vars
  BY <1>1
<1>3. ReplacesWhatWasShown <=> [][ShownReplaced]_vars
  BY DEF ReplacesWhatWasShown
<1> QED  BY <1>2, <1>3, Invariance, PTL DEF Spec
=============================================================================
