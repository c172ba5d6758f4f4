# CampusID backend: TLA+ models, checks and proofs

CampusID (`app/`, FastAPI, SQLAlchemy, PostgreSQL, an object store) keeps the
students and personnel of schools and prints their identity cards. The modules
in this directory model the parts of it whose correctness depends on the order
in which requests, transactions, clocks and failures meet; TLC checks them on
small instances and TLAPS proves all but the liveness property for every instance.

1. [How the program runs](#1-how-the-program-runs)
2. [Inventory](#2-inventory)
3. [The modules](#3-the-modules)
4. [The runs, their bounds and the fairness](#4-the-runs-their-bounds-and-the-fairness)
5. [What is proved](#5-what-is-proved)
6. [Where the documents and the code disagree](#6-where-the-documents-and-the-code-disagree)
7. [What is not modelled](#7-what-is-not-modelled)
8. [Plan](#8-plan)

Run everything in this directory: `tlc -workers 2 -config MCX.cfg MCX` for a
run, `tlapm XProofs.tla` for the proofs. `PROJECT.json` maps every definition to
the lines it models and lists runs, mutants, hazards and theorems.

## 1. How the program runs

One uvicorn worker (`OPERATIONS.md:161`). A `def` handler runs in a thread of a
pool, an `async def` handler on the event loop; a request has one SQLAlchemy
session from `get_db`, thus one PostgreSQL transaction at READ COMMITTED until
its `commit`. Four facts about this decide what a model has to look like:

- **A handler is not atomic.** It reads rows, decides, and writes. Another
  transaction can commit between any two of its statements, unless it holds the
  row: `with_for_update()` waits for the lock. So a model splits a handler at each
  unlocked read that later statements rely on and wherever it waits for a lock,
  and nowhere else; everything from the last such point to the `commit` is one
  step.
- **An UPDATE writes the columns that differ from what the request loaded.** Two
  overlapping requests can both succeed and leave a row that neither intended;
  and `with_for_update()` returns an instance that is already loaded *without*
  refreshing it.
- **The query behind `FOR UPDATE` is evaluated again** for a row it had to wait
  for: a row that does not match any more is not returned.
- **Unique constraints are immediate** and checked row by row, rows being written
  in the order of their primary key.

A request may fail at each step (`Abort`, a crash, a refused statement): its
session is closed and its transaction rolled back. PostgreSQL finds lock cycles
and aborts one of the transactions (`DeadlockAbort`). Row locks, the deadlock
detector, the clock and the object store are outside the repository; they are
modelled from how the code uses them and marked `external` in the map.

## 2. Inventory

| component | state it keeps | operations | what is hard | status |
|---|---|---|---|---|
| Durable login sessions (`core/auth_sessions.py`, `api/auth.py`) | `auth_sessions`: digest, expiry, revocation; `users`: hash, `is_active` | login, refresh, logout, password change, account update, self revocation | revocation against logins and rotations in flight; replay; purge of all accounts' expired rows | modelled: `AuthSessions` |
| Second factor, trusted devices (`api/auth.py`, `api/users.py`, `core/mfa.py`) | secrets with last counter, recovery codes, challenges, devices | enroll, enable, regenerate, disable, two-step login, device login, device revocation | one credential spent twice; a factor checked, then replaced, then used | modelled: `MfaLogin` |
| Platform administration of accounts (`api/users.py`) | `users.platform_role`, `is_platform_admin`, `is_active` | create and update an account | two administrators demote each other; lock order | modelled: `AdminGuard` |
| Student records (`api/students.py`, `api/student_grid.py`) | `students`, `student_audit_events` | create, form and grid edit, verify, print, deactivate | column-wise writes of overlapping requests; history from an old load | partly: `StudentRecords` |
| Personnel records, fields and imports (`api/personnel*.py`, `core/custom_fields.py`) | `personnel`, custom values, definitions, manifests, history | as students; change of type; import | values of the former type; numbers that differ in case | modelled: `PersonnelRecords` |
| Student imports, field configuration, admission numbers (`api/student_imports.py`, `api/student_field*.py`, `core/auto_admission.py`) | manifest on disk with a TTL; settings; the school's format | upload, confirm, configure, switch on | validated rows become invalid; confirmed twice; renumbering against creation | modelled, the fields partly: `StudentImports` |
| Academic structure (`api/academic_sessions.py`, `api/classes.py`, `api/sections.py`) | sessions, classes, sections, placement of students | create, order, make current, place, delete | two current sessions; two orders at a time; deletion against use | partly: `AcademicStructure` |
| Photographs and bulk imports (`core/file_storage.py`, `api/bulk_*_photos.py`) | rows, objects in the bucket, manifests, staged objects | upload, remove, stage, preview, confirm, sweep | two stores without a common transaction; crashes; preview against confirmation | partly: `PhotoStorage` |
| Request execution (`core/database.py`, `main.py`) | event loop, connection pool, row locks | every request | the loop blocks on a row whose holder needs the loop | modelled: `RequestScheduling` |
| Card templates and design links (`api/card_templates.py`) | design, version token, public link | save, copy, link settings | stale editors; clock ties; two link changes at a time | partly: `CardTemplates` |
| Public form submissions (`api/public_forms.py`) | submissions, their photographs | submit, approve, reject | review races; numbers taken meanwhile; failure after the commit | partly: `FormSubmissions` |
| Public student verification (`api/public_verification.py`, `core/public_credentials.py`) | token, version, expiry and `enabled` of a student, settings of the school | issue, disable, enable, regenerate, check | two rotations of one version; disabling against regenerating | modelled: `PublicCredentials` |
| Rate limiting (`core/rate_limit.py`) | timestamps of a key | check, purge | clock read outside the lock | modelled: `RateLimiter` |
| School access and roles (`core/school_access.py`, `api/users.py`) | memberships, access requests | register, grant, change, revoke | role and authority read without a lock | modelled: `SchoolAccess` |
| Schools, schemas, security events, configuration, migrations, `api/auth_copy.py` | see `PROJECT.json` | | profiles, pure validation, append-only log, read-once settings, dead code | not modelled |

Interactions: every handler calls `get_current_user`, which reads the session
and the account (`AuthSessions`); `update_account` decides about administrators
(`AdminGuard`), revokes sessions (`AuthSessions`) and trusted devices
(`MfaLogin`), and its administrators are those that `SchoolAccess` asks; an approved
submission creates a student (`FormSubmissions` → `StudentRecords`) in a section
(`AcademicStructure`) with a verification link (`PublicCredentials`) and moves its
photograph (`PhotoStorage`); photographs, record
edits and confirmations lock or write the same student row, and all of them share
the loop and the pool (`RequestScheduling`). There are no callbacks or queues:
components meet only in the database, the bucket and the process.

What makes a component correct, in a line each: a revoked session stays dead and a
revocation misses none; a credential opens one session, and is in force when it
does; an administrator remains; the history tells the row, and an edit undoes no
decision; a reference names an object that exists, and nothing else is left in
the bucket; a request ends and gives back what it took; a design is a versioned
register and a replaced link or credential is dead; a submission is decided once and
becomes at most one student; a school administrator stays within his school and
its ordinary roles; a student is where one request put him; a sheet is imported once,
and one that was validated is refused only for what happened since.

## 3. The modules

Common form: the tables are functions from keys to records, `req` holds the
local state of each request (`pc` is the next statement that can wait or be
overtaken, the other fields are its local variables), and each statement group
of a handler is an action named after it: `XLoad` for the unlocked reads, `XLock`
for a `FOR UPDATE`, `XCommit` for the writes and the commit, `XFails` and
`XRefused` for the error paths. Row locks are not a variable where they follow
from `req` (`HoldsUser`, `held`, `rows`). A definition `Name_Variant` is `Name`
with one plausible fault; the specification does not use it, it shows that a
property would notice the fault (`PROJECT.json`, `mutants`). History variables
and ghost fields are named as such where they are declared.

**AuthSessions.** Accounts carry a version of their password hash, sessions the
number of their newest refresh token. The login checks password and `is_active`
on an unlocked row (`LoginCheck`), purges what has expired (`LoginPurge`, waits
for these rows) and inserts (`LoginCommit`; the foreign key makes it wait for the
`users` row). `Refresh*`, `Logout*`, `Change*` (`change_my_password`), `Update*`
(`update_account`) and `Revoke*` (`revoke_my_session`) lock in the order of the
code: the account first, then sessions; a self revocation only the session.

**MfaLogin.** A TOTP code is its time-step (only the current one is accepted, the
default `valid_window` of `core/mfa.py`), secrets and batches of recovery codes are
versions. `LoginCheck` → `LoginFactor` → `LoginDevice` or `ChallengeCommit`;
`VerifyLock` (the challenge), `VerifyFactor` (secret, or code), `VerifyFail`,
`VerifyCommit`; `Own*` is an operation of the account on itself, in the three
steps all of them share: the account, the secret, the devices and the commit.

**AdminGuard.** `Scan` takes the snapshot of the active administrators,
`LockAdmin` locks them one after the other in the order of their ids (and drops
one that does not match any more), `LockTarget` the target, `UpdateCommit` or
`UpdateRefused` decides. Authority is read before all of it (`Authorize`).

**StudentRecords.** `Load*` is all of a handler before its flush: it reads the
rows and computes new ones; `Commit` writes the columns that differ from those
loaded (`Written`), adds the audit events (`Tells`, of a creation only the columns it
names) and is refused where a unique key is taken (`Conflict`); the rows of a grid are
written in the order of their ids, and every intermediate table has to satisfy the key
(`Prefix`). The history is ordered by `created_at`, which PostgreSQL sets to the start
of the transaction: `told` has per column the event that was inserted last and the one
the history shows first, each with the time its transaction began (`began`, `clock`).

**PhotoStorage.** Objects are numbers that are never used twice. `Upload*`,
`Remove*`, `Import*`/`Sweep*`/`Stage*`/`Insert*`, `Preview*`, `Confirm*` (students:
one transaction for all) and `Item*` (personnel: one per entry). `Faults` switches
the failures: the bucket refuses an object, the database a transaction, a
deletion fails, the process stops, a record edit names an object. `exposed`
records the objects that the code itself makes unreliable: those a removal
deletes before its commit, and those that an edit or a failed entry of a
personnel import names again. `serial` is a ghost, chosen once: a serial behaviour has
one request at a time, deletions that succeed, no such edit and no stop of the
process. `NothingLeftBehind` and `StagedUntilUsed` are about serial behaviours: the
code has no transaction over database and bucket, and cleans up as well as it can.

**RequestScheduling.** Three resources: the loop, the connections, a row. A
threaded handler authenticates, locks the row, and commits or is refused; a
coroutine runs on the loop between its awaits and executes `commit` and `refresh`
there. Both end with `Close`, which needs the loop to be scheduled.

**CardTemplates** and **VersionedDesign.** A design is two opaque sides. A save
carries the token its editor saw, or none; it locks the row, compares, and
commits with `NextToken`, which grows even if the clock does not. A copy reads its
source before it locks its target. The link settings are read and written without
a lock. `VersionedDesign` is the abstract specification: a register per school
whose token grows with each write. `CardTemplates` implements it under the
identity mapping of `card` and `token` (`Design == INSTANCE VersionedDesign`);
everything else a step does has to be a stutter.

**FormSubmissions** and **SubmissionDecisions.** `Submit*` stores the photograph
before the row; a review (`ReviewBegin`, `ReviewLock`) locks the submission,
approves (`ApproveCheck`, `ApproveFlush`, `Promote`, `ApproveCommit`, `Refreshed`)
or rejects (`Reject`), and cleans up. `claim` is the unique key a transaction has
inserted and not committed yet; `TakeKey` stands for all other handlers that take
such keys. `SubmissionDecisions` is what the review promises: a submission is
decided once, and approved in the step that admits its student, under a key that
nobody has. The refinement mapping reads the decision off `status` and who was
admitted off the `students` table (`Decisions == INSTANCE SubmissionDecisions WITH ...`).

**SchoolAccess** extends `AdminGuard`, as the same handlers of `users.py` decide about
both: `Register` with its request; `LoadAccess` reads the target's membership,
`AuthorizeCall` the caller's authority (a platform administrator's flag, or his own
membership of the school), `GrantCheck` the request and the row again;
`GrantCommit`, `ChangeCommit` and `RevokeCommit` write by the primary key that was
loaded. Nothing is locked, so that all of it overlaps with `update_account`. A row has
an id, which a membership granted anew does not share with the one that was withdrawn;
history fields of a call record what was true at some time since it began: that its
caller administered the school (`ruled`), which rows of the target were ordinary
memberships (`plain`), and that the target was asking (`asks`).

**AcademicStructure.** `LoadX` validates what it reads and computes the rows that
`CommitTerm`, `CommitReorder` and `Commit` write, column by column (`Written`). `Commit`
waits for the rows a reordering has locked (`Awaits`) and is refused by the foreign
keys (`References`), which also count inactive students. `gone` remembers the sections
that were deleted: ids are drawn from a sequence and do not come back.

**StudentImports.** The manifest on the disk (`upload`) outlives the database
transaction that uses it; `LoadImport` validates all rows against what it reads,
`Commit` inserts them, and `Discard` removes the manifest after the commit.
`LoadConfig` merges settings and, where it switches the format on, renumbers the
active students; `Prefix` has every row satisfy the unique key at once, and
`Conflict` is the refusal. `fresh` (a ghost) says that nothing has been committed since
the request validated.

**PersonnelRecords** has the column-wise commit of `StudentRecords` in tables of its
own. What differs is modelled here: numbers compared without regard to case
(`Fold`), custom values as rows (`ValueSaved`: the UPDATE of a value that is gone
fails), a change of type (`Retyped`), and imports.

**PublicCredentials.** A credential is the token, version and expiry of a row at a
time; `LoadLink` and `LoadSettings` compute new rows, `CommitLink` and `CommitSettings`
write the columns that differ. `AcceptsSigned` and `AcceptsBare` are the rule of the
public page for the two forms of a link. The clock ticks in fractions (`Second` of them
make a second): the expiry in a signed link is cut to whole seconds and compared with
whole seconds, that of the row in full.

**RateLimiter.** `ReadClock` is the part of `check` before the lock, `Decide` the part
under it: slide, compare, append, and at every `PurgeEvery`-th check the purge.

**IdentityRecords**, **Enrolment** and **PublicPages** put components side by side whose
handlers touch no common table, and whose theorems are about the whole:
`IdentityRecords` is `StudentRecords` with `PersonnelRecords` (`RecordsSpec`),
`Enrolment` is `AcademicStructure` with `StudentImports` (`EnrolmentSpec`), and
`PublicPages` is `CardTemplates` with `FormSubmissions`, `PublicCredentials` and
`RateLimiter` (`PagesSpec`). A step is one of one component and leaves the tables of
the others alone; each composition instantiates all but the first component with
variables of its own.

The runs check these compositions with a variable `at` that says which component a
behaviour is about (`MCPublicPages`, `MCIdentityRecords`, `MCEnrolment`; `MCAdminGuard`
does so for accounts and schools), so that their states add up and do not multiply.
`MCPhotoStorage` confines behaviours that are not serial to one student and one employee
(`few`) with at most `MaxOverlapping` objects; serial ones are about everyone.

## 4. The runs, their bounds and the fairness

| run | instance | shows |
|---|---|---|
| `auth_sessions` | 1 account, 2 sessions, 3 requests, 1 tick, 3 operations | a deactivation, a reset and a password change leave no session open that they should revoke, revocation and expiry are final, only the newest token of a live session of an active account is exchanged |
| `no_session_from_replaced_password` | the same with 2 requests | fails: a login in flight during a reset (section 6) |
| `mfa_login` | 1 account, 3 sessions, 3 challenges, 1 device, 2 codes, 2 requests, 4 operations | a challenge, time-step, code or device token opens one session, and is in force when it does; no device survives its revocation |
| `admin_guard` | 3 accounts, 2 founders, 2 requests, 3 operations; or 1 school with two members besides the administrator, 3 calls and one change of an account | an active administrator remains, an account with the role has the legacy flag, and whoever changes a membership without being a platform administrator has administered that school since his request began, and changes what was then an ordinary membership or a pending request of it |
| `ordinary_roles_only` | the schools part of the same | fails: the role is compared on an unlocked read (section 6) |
| `student_records` | 2 students, 2 users, 2 names, 1 roll, 2 requests, 2 ticks, 3 operations; or 2 persons, 3 numbers of which 2 differ in case, 1 field per type, 1 sheet | the event inserted last tells the row, and so does the one shown first unless a transaction that began later told the column earlier; a validated save is refused exactly when it passes a roll down; edits undo no decision, a decision on current rows is coherent, no values of another type |
| `grid_token_holds` | 1 student | fails: the token is compared on an unlocked read (section 6) |
| `photos` | 2 students, 2 employees, 1 import, 2 requests, all faults, 5 objects, 5 operations; where requests overlap, 1 student, 1 employee and 3 objects | no reference outlives its object but for `exposed`; a confirmation replaces what the preview showed; a serial behaviour leaves nothing that no row names, and open imports keep their staged photographs |
| `request_scheduling` | 3 threads, 2 coroutines, 2 connections, fair | nothing leaks, and each request ends unless the process comes to `Standstill` |
| `liveness_answered` | 1 thread, 1 coroutine, fair | fails: that standstill is reached (section 6) |
| `enrolment` | 2 sessions, 2 dates; 2 classes, 3 sections, 1 student; 3 students, 2 numbers, 1 sheet, 1 built-in and 1 custom field; 2 requests, 3 or 4 operations | one current session and dates in order unless saves overlap, the class order is the one sent, a student moves only to a place that one request asked for, a sheet is imported once, an import is refused only when something was committed since its validation |
| `public_pages` | designs: 2 schools, 2 sides, 2 requests, 3 ticks, 4 operations; form: 2 submissions, 2 keys, 3 requests, 3 objects, 5 operations; links: 1 student, 2 periods, 3 ticks of half a second, 5 operations; limiter: limit and window 2, purge at each third of 7 checks, 6 ticks | refinements of `VersionedDesign` and `SubmissionDecisions`; no design is lost to a stale editor; replaced links and credentials are dead; photographs are kept and cleaned up; the window holds |

Each passing run has between 20,000 and 2,100,000 distinct states.

*Bounds.* `MaxWork` limits how many operations begin, `MaxTime` the clock,
`MaxObjects` the objects; all three are guards of the actions that count. They
leave room for the schedules that matter: every hazard in `PROJECT.json` is
between two requests and the row, counter or object they share, the third request
of `auth_sessions` and of the form is the one that runs into the two that
wait for each other, and the third operation is the one after the race. One
account is enough in `auth_sessions` and `mfa_login` because accounts share only
the purge of expired rows, and two sessions of one account meet there just as well; two
sessions are what "all but the caller's" needs. Three accounts in `admin_guard`
are the two that demote each other and one that is promoted meanwhile; in a school
they are the two kinds of administrators and a user who joins. One student is
enough for credentials, which meet in no table; three half seconds have a link expire
between two whole ones; one sheet confirmed twice is two imports; one roll is enough to
be passed up or down; two ticks order the transactions that overlap; six ticks let a window of two slide over a purge. Each
mutant is found within these bounds, which shows that the interesting cases
occur.

*Deadlock.* All configurations say `CHECK_DEADLOCK FALSE`: the bounds stop every
model when the work is used up, and `RequestScheduling` stops when all requests
are done, or in the standstill that `liveness_answered` reports. That requests do
not wait for each other elsewhere is what `RequestsEnd` is about; lock cycles are
resolved by `DeadlockAbort`, as PostgreSQL does.

*Symmetry* is used where elements are only names. It is not used for
account ids in `AdminGuard` (they order the locks), students and
persons in the record modules (their ids order a flush), nor in a run with a liveness
property.

*Fairness* occurs in `RequestScheduling` only: weak fairness of each request's
next step, `WF_vars(Step(r))`. The code justifies it: the loop runs its callbacks
in turn, the pool runs its threads, PostgreSQL grants a released row and SQLAlchemy's
pool a returned connection, and its `pool_timeout` ends a wait for one. Weak, not
strong: nothing orders requests that compete. All other properties are safety
properties and need none.

## 5. What is proved

TLAPS proves, for every value of the constants that satisfies the named assumptions:

| module | theorems | for every |
|---|---|---|
| `AuthSessionsProofs` | `TypeCorrect`, `ActivationChangeRevokes`, `PasswordChangeKeepsOne`, `ResetRevokes`, `RevocationIsFinal` | set of accounts, sessions and requests |
| `MfaLoginProofs` | `TypeCorrect`, `CredentialsOpenOnce`, `RevocationIsComplete`, `FactorsInForce` | set of accounts, sessions, challenges, devices, codes and requests |
| `AdminGuardProofs` (of `AdminGuard` and `SchoolAccess`) | `TypeCorrect`, `LastAdminStays`, `LastAdminStaysWithSchools`, `ManagementStaysInScope` | finite set of accounts, set of founders, patches, schools and requests |
| `IdentityRecordsProofs` (of `StudentRecords` and `PersonnelRecords`) | `TypeCorrect`, `StudentHistory`, `RefusalsArePassings`, `EditsPreserveDecisions`, `DecisionsStayCoherent`, `PersonnelHistory`, `FieldsStayWithTheirType`, `NumbersStayDifferent` | number of students and persons, folding of case, set of fields, sheets and requests |
| `PhotoStorageProofs` | `TypeCorrect`, `ReferencesStay`, `NothingStaysBehind`, `StagedStays`, `ShownStays` | set of students, personnel, imports, requests and faults |
| `RequestSchedulingProofs` | `TypeCorrect`, `PoolIsKept`, `StepsAdvance`, `OnlyStandstillStops`, `StandstillIsFinal` | finite set of requests, pool size |
| `PublicPagesProofs` (of `CardTemplates`, `FormSubmissions`, `PublicCredentials` and `RateLimiter`) | `TypeCorrect`, `Refinement`, `SavesReplaceWhatWasSeen`, `LinksStayDead`, `DecisionsStand`, `PhotosStay`, `LinksStayRevoked`, `LimitStays` | set of schools, submissions, keys, students, clients and requests; limit and window |
| `EnrolmentProofs` (of `AcademicStructure` and `StudentImports`) | `PlacesChangeAsAsked`, `OrderStays`, `TermsStayCoherent`, `SheetsImportedOnce`, `ImportsRefusedOnlyWhenOvertaken` | set of sessions, classes, sections, students, imports, fields and requests |

The assumptions are the `ASSUME`s of the modules (`UserAssumption`,
`FounderAssumption`, `PatchAssumption`, `SchoolAssumption`, `PersonnelAssumed`,
`StructureAssumption`, `ImportsAssumed`, `CardsAssumption`, `PagesAssumption`,
`PhotosAssumption`, `IdleAssumption`, `SchedulingAssumption`, `StudentsAssumption`,
`NoneAssumption`, `BoundAssumption`): names are distinct, bounds are natural numbers,
a set is finite. TLC evaluates each on a run.

Every theorem follows from an inductive invariant, proved in three parts: it holds at
the start, each action preserves it, and it implies the property. The
strengthening says why the code is right.

- *AuthSessions*: `TypeOK /\ LockInv /\ PurgeInv /\ RefreshInv /\ Safe`. `CommitInv` (in
  `LockInv`) carries the argument: between `revoke_user_sessions` and the commit a
  password change or an account update holds the row lock of *every* session it
  should revoke, since the account's lock keeps logins from inserting another one
  (the foreign key) and other revocations from changing one. Without it the
  commit would revoke what it found and miss what came after. `PurgeInv`: rows
  about to be purged have expired, and stay expired. `RefreshInv`: the account a
  rotation has locked stays active until its commit, since whoever deactivates it
  locks it as well.
- *MfaLogin*: `TypeOK`, `ReqInv`, `LockInv`, `RowInv`, `SpentInv` and the properties
  themselves. `Spent` is the heart: what opened a session cannot come back into force,
  because the secret's counter has passed the time-step, the code is gone from its
  batch or the batch was replaced, the challenge is consumed, or the device has a newer
  token. `ReqInv` and `LockInv`: from its check to its commit a request holds the row
  it presents, so that what it commits is still in force, thus not spent; and one that
  revokes the devices of an account holds all of them.
- *AdminGuard*: `TypeOK /\ LockInv /\ AdminsInv /\ TargetInv /\ ExistsInv /\
  AnAdminRemains`. `AdminsInv`: the rows the query returned are locked by the
  request and still active administrators; so if it returned two, the one that is
  not its target is an administrator after its commit (`AnotherAdmin`); if it
  returned fewer, a target that is an active administrator is refused, and no other
  target can be the last one.
- *SchoolAccess*: the above (a step on a membership changes no account), and
  `SchoolInv`. `Scope` says of each pending call what it may count on: what it has loaded
  of its target was an ordinary membership (`plain`) or a pending request (`asks`) at
  some time since it began, and past `AuthorizeCall` a caller who is no platform
  administrator has been an administrator of the school (`ruled`). `Witnessed` makes
  it inductive: what is so now is among what has been so since. A commit finds the
  row by the id it has loaded, so that no interleaving has to be excepted: the role of
  the row may be another one by then, but not the row.
- *StudentRecords*: `TypeOK /\ AuditInv /\ RollsInv /\ RollPlanInv /\ PlanInv /\
  CohInv`. `AuditInv`: the event of a column that was inserted last states its value,
  since a commit writes and reports the same set of columns, those that differ from
  its own load; the event shown first is that one or has a later time. `RollPlanInv` is
  for `RefusedWhenPassedDown`: rolls are unique in what a request loaded and in what it
  plans, so that only the order of the writes can make two equal. `PlanInv` is for
  `EditsKeepLifecycle`: a pending edit, grid save or deactivation plans no change of
  a lifecycle column, compared with its own load, so that its commit writes none.
  `CohInv` is for `VerificationCoherent`: what a request plans from a coherent row is
  a coherent row. If the rows are still those it saw when it commits, the commit
  writes the plan; otherwise it mixes two rows, which the property leaves out.
- *PersonnelRecords*: `PersonnelInv`, with `HistoryInv` (as `AuditInv`) and with
  `SoundPlan` of every pending request: it
  updates rows that exist, and if nothing has overtaken it its result breaks neither of
  the rules it was checked against (numbers without regard to case, values of
  the person's own type). If something has, what is left is the unique constraint on
  the number as it is written, and `NumbersDiffer` promises no more then.
- *PhotoStorage*: `TypeOK /\ RefInv /\ LockInv`, and for serial behaviours
  `AloneInv /\ BucketInv /\ ImportInv /\ StagedInv`. `RefInv`: an object outside
  `exposed` is the photograph of at most one person (`OwnInv`), one that is stored and not
  yet committed is known to its request alone (`NewInv`), and what is about to be deleted
  is the photograph of no row any more (`CleanInv`); so a deletion strands no
  reference. `LockInv`: past its `FOR UPDATE` a confirmation of students holds its rows,
  whose paths are those the preview showed; this is `ReplacesWhatWasShown`.
  `BucketInv`: every object belongs to a row, to an open import or to the request that
  runs, and that request still knows it. `Moves` keeps the proofs short: every step but
  a store moves existing names only.
- *RequestScheduling*: `TypeOK /\ HoldersInv /\ KindsInv`: at which statement of
  which kind of handler a request has a connection or the row. `LoopInv`: a coroutine is
  on the loop exactly while it executes commit and refresh. From it follows what
  `RequestsEnd` rests on apart from fairness: every step brings its request nearer to its
  end (`Rank`), and unless all have ended or `Standstill` is reached the guard of some
  step holds (`Ready`, which TLC has compared with `ENABLED`), even if no handler refuses:
  whoever holds the row is locked, and can commit, or closing, and needs the loop.
- *CardTemplates*: `DesignInv == TypeOK /\ SaveInv /\ BaseInv /\ LinkInv`. `BaseInv`: a
  request whose token is still the row's saw the row's design. It is inductive because
  tokens only grow, which is also the refinement of `VersionedDesign`. `LinkInv`:
  the tokens in use, about to be used, and revoked are all different.
- *FormSubmissions*: `FormInv == TypeOK /\ HoldInv`, and `PhotoInv`. `Holds`: a review
  past its `FOR UPDATE` holds the lock of a submission that is still pending, and one past
  its insert the key of a student that nobody has; so no two reviews decide one
  submission, and the step that does maps to `Approve` or `Reject` of
  `SubmissionDecisions`. `Alone`: a submission that is being stored has an id of its
  own. `PhotoInv`: every object has one owner, a submission, a student, the request that
  stored it, or the review that will delete it (`RequestsApart`, `Accounted`).
- *PublicCredentials*: `CredentialInv == LinkTypes /\ TokensInv /\ PlanInv /\
  DeniedInv`. The tokens in the rows, about to be written and replaced are all
  different, and none is drawn again. `DeniedInv`: a link that a request has disabled
  is disabled still, as long as no request that has seen it disabled enables it
  (`denied`); a request that loaded the link as enabled and leaves it enabled does not write
  the column. That the two forms are accepted
  alike but for a fraction of a second is arithmetic on the truncated expiry.
- *RateLimiter*: `LimiterInv`: unless a purge has wronged the key, its window is the
  part that is left of the times of all requests let through, every time before it has
  expired, and it is never longer than the limit. The times need not be in order: an
  expired head is dropped whatever follows it, and a live time behind it keeps
  counting. The requests of the last `Window` are therefore all in the window.
- *AcademicStructure*: `StructureInv /\ SectionsInv`. `PlansFit`: the rows that a pending
  plan updates are there, those it inserts are free (`IdsApart`), and the classes it
  reorders are where it found them, which is what their row locks are for
  (`OneReorder`). `TermsFresh`: a plan of sessions that no other save has overtaken breaks
  no rule. `SectionsInv` is for `PlacesAreAsked`: a section is of one class for as long
  as it exists (`Stays`), and a move that keeps the section it saw keeps the class it
  saw (`Whole`). A commit that writes the section alone therefore leaves the class of
  that section, or is refused by the foreign key, and so does one that writes the class
  alone, which could not be planned.
- *StudentImports*: `ImportInv /\ FreshInv`. `OriginsHold`: an imported student has the
  number of the sheet unless it has been changed since; numbers being distinct
  (`Distinct`), no sheet is in the table twice, whatever became of its manifest.
  `ImportPlansFit`: what a request changes is still there. `FreshInv`: the numbers of a
  request that none has overtaken are free and different, so that the table satisfies
  the key after each of its rows.

TLC checked these invariants on the instances of section 4 before they were
proved. They are not listed as properties of a run: their conjuncts are lemmas about
the model, not promises of the code.

*Only model-checked:* `RequestsEnd`, which needs fairness: liveness and `ENABLED` are
beyond this proof system (its safety part is proved, see *RequestScheduling*); and, being false, the properties of the four runs that fail. No
module declares a `RECURSIVE` operator and no proof needs induction over data: the
history of the limiter is a sequence of times for that reason, its promise a count
and not a recursive sum.

## 6. Where the documents and the code disagree

With a run that TLC finds violated:

1. `no_session_from_replaced_password` — `OPERATIONS.md:64`: "Password resets and
   account deactivation revoke every durable session for that account". `login`
   verifies the password on an unlocked row (`auth.py:124`) and inserts the session
   later. If `update_account` commits a reset in between, the session it opens was
   authenticated with the old password and survives. Re-reading the account under its
   lock before the insert, as `refresh_session` does, would close this.
2. `ordinary_roles_only` — `README.md:73`: "School Admins may manage ordinary
   Teacher/Staff roles only". `update_school_access` and `revoke_school_access` check
   the role of a membership they read without a lock (`users.py:1263`) and write it at
   their commit: a role that a platform administrator has raised in between is
   overwritten or removed. `ManagedWithinScope`, which holds, shows that this overlap
   is the only way.
3. `grid_token_holds` — `README.md:192`: the grid compares `expected_updated_at`
   "with the current row to detect optimistic-concurrency conflicts". The row is
   read without a lock (`student_grid.py:306`) and the UPDATE does not repeat the
   condition, so that an edit saved meanwhile is overwritten without a conflict.
4. `liveness_answered` — `OPERATIONS.md:57`: "`GET /health` is a process/liveness
   check. It does not query PostgreSQL." `upload_student_photo` is a coroutine that
   commits on the event loop (`students.py:410`). A confirmation of a bulk import
   that is refused after its `FOR UPDATE` (`bulk_student_photos.py:693`) keeps the
   rows until `get_db` closes its session, which the loop has to schedule. An upload
   for one of those students in between stops the process: the loop waits for the
   row, the row for the loop. No statement timeout is set.

Met while modelling, without a run (a property for them would restate the model):

- `change_my_password` locks an account that `get_current_user` has loaded. The lock
  does not refresh it, so the hash that is verified may be one that a reset has
  just replaced (`users.py:728`), and the reset is overwritten.
- `README.md:373` says that password changes revoke all sessions; the caller's own
  session is kept, on purpose (`users.py:754`).
- "Lock critical administrators in a stable order before the target"
  (`users.py:1433`) does not exclude lock cycles: a target that became an
  administrator after the query is locked last. PostgreSQL aborts one of the two.
- Two verifications that both load an unverified student replace each other's
  verifier; two prints that load the same count are counted once, while the history
  has both.
- A grid that hands a roll number to a student with a lower id is validated against
  the final table and then refused by the immediate constraint (`student_grid.py:438`).
- A preview saved after a confirmation writes the import's status back and reopens it
  (`bulk_student_photos.py:354`); confirmed again it puts the same photographs.
- `README.md:167` speaks of a "Pending student" that a public submission creates; it
  creates a pending submission, and a student on approval.
- The front and back of a card may end with different sizes: the validator compares
  the sides of one request (`schemas/card_template.py:673`), a save may keep the
  stored back.
- Recovery codes that are all expired but not used cannot be renewed (`users.py:346`).
- A challenge issued for a password outlives the password's reset for up to its
  five minutes (`auth.py:200`).
- Two overlapping changes of sessions can leave two current ones, or one that ends
  before it starts (`academic_sessions.py:276`): each is validated against what it
  has read, and no constraint repeats it.
- A class or section whose students are all inactive passes the check before its
  deletion and is refused by the foreign key, with an unhandled error (`classes.py:313`).
- Switching the automatic numbers on compares the new numbers of the active students
  with each other only: a number that an inactive student has, or that another row
  gives up later in the same flush, ends in an unhandled constraint error
  (`core/auto_admission.py`). Imports do not apply the format.
- An approval deletes the photograph of the student it has just admitted when the
  `db.refresh` after its commit fails (`public_forms.py:473`); `lost` records it.
- The history of a student or a person is ordered by the start of the transactions
  (`student_audit_event.py:55`, `students.py:1048`). A request that begins first and
  commits last leaves a row that the event shown first contradicts; no document promises
  the order, and `AuditTellsTheRow` and `HistoryTellsTheRow` except exactly this
  (`Overtaken`).
- A signed link ends up to a second before the bare token of the same credential: its
  expiry is cut to whole seconds (`public_credentials.py:73`, `:94`), that of the row is
  compared in full (`:129`).
- A request that disables a link which it has loaded as already disabled writes nothing;
  if another one enables the link meanwhile, it stays enabled.
- An object that a removal deletes before its commit fails, or that a failed entry of a
  personnel import names again, is lost to a row that names it (`students.py:500`,
  `bulk_personnel_photos.py:456`); `exposed` records it.
- Two overlapping configurations of the built-in fields mix column by column
  (`student_field_config.py:57`); a required field that is disabled by the mixture is
  refused by the constraint.
- An expired link that was disabled is only enabled by the first request that enables
  it; it is rotated by a second one (`public_verification.py:183`).
- The purge judges a window by its last timestamp, which is not the latest one if
  checks took the lock out of the order in which they read the clock: a live window
  can be dropped, and its key admits more than the limit (`rate_limit.py:36`).
  `forgotten` records it.

## 7. What is not modelled

Left out for good: parsing of CSV, XLSX, ZIP and images, validation of design
documents and of request bodies (pure functions of one request); security
events (append-only, read by no decision); configuration, health page, CORS; migrations
and release scripts (run while the service is down); `api/auth_copy.py` (no
router includes it). TOTP arithmetic, hashing and encryption are versions and
time-steps; object names are numbers, as `uuid4` makes them unique.

Abstracted within the modelled components: names and contact data of accounts; all
freely edited columns of a student are one (`name`) and its unique keys are one
(`roll`), as are those of a person (`employee_no`); the two unique keys of a
submission are one (`Key`), and which fields its form asks for, the form's
configuration and its link are left open; names of classes and sections, which a
unique constraint decides, and the two handlers that only change one; the display
order and the data types of custom fields; entries of an archive that match nobody;
background, logo and signature images, which follow the photograph's pattern without
its bulk import; the rows of security events in the MFA handlers.

`Schools` is left out as a component: its profile is overwritten as a whole, and all
that other handlers ask of it is whether it is active.

## 8. Plan

Done, in the order of importance: sessions, second factor, administrators and the
memberships of schools, student and personnel records, photographs, request
execution, card templates, submissions, credentials, the limiter, academic
structure, imports and field settings; two abstract specifications
(`VersionedDesign`, `SubmissionDecisions`), both with a proved refinement; a theorem
for every property the passing runs check but `RequestsEnd`.

What remains: a refinement of an abstract register of photographs by `PhotoStorage`
(a reference and what it shows, without the bucket), and of an abstract session
register by `AuthSessions`.
