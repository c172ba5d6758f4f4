------------------------- MODULE PublicCredentials -------------------------
(***************************************************************************)
(* The verification links of a school's students: issued with the student, *)
(* disabled, enabled and regenerated by administrators, and the rule by    *)
(* which the public page accepts a credential (public_verification.py,     *)
(* public_credentials.py).                                                 *)
(*                                                                         *)
(* No handler locks a row: each loads the student and the school, and its  *)
(* UPDATE names the columns whose new value differs from the loaded one.   *)
(*                                                                         *)
(* Abstracted: a token is its number, never drawn twice; a signature can   *)
(* not be forged, so that signed credentials are those the program has     *)
(* issued; the disclosed fields decide nothing.                            *)
(***************************************************************************)
EXTENDS Naturals

CONSTANTS
    Students,
    Validity,       \* periods of validity a school may choose, in whole seconds
    None,
    Requests,
    MaxTime,        \* bound on the clock
    MaxWork         \* bound: requests ever begun

VARIABLES
    link,       \* the columns of students that make its credential, or None
    school,     \* public_verification_enabled and _validity_days of the school
    now,
    tokens,     \* the last token drawn
    req,
    work,
    superseded, \* history: credentials that a later one has replaced
    denied      \* history: the students whose link is to stay disabled

vars == <<link, school, now, tokens, req, work, superseded, denied>>

\* The clock counts fractions of a second, of which the expiry in a signed
\* credential is rid.
Second == 2

\* live: is_active of the student.
Link == [token : Nat, version : Nat, expires : Nat, enabled : BOOLEAN, live : BOOLEAN]
School == [enabled : BOOLEAN, days : Validity]
Credential == [token : Nat, version : Nat, expires : Nat]

\* old, new: the row as loaded and as it is to become; raced is history: another
\* request has changed the row since.
Request == [op : {"enable", "disable", "regenerate"}, student : Students, old : Link,
            new : Link, raced : BOOLEAN]
        \cup [op : {"settings"}, old : School, new : School]

CredentialsAssumption ==
    Validity \subseteq Nat /\ None \notin Requests \cup Link \cup Request

\* issue_public_credential
Issued(row) ==
    [token |-> row.token, version |-> row.version, expires |-> row.expires \div Second]

\* public_credential_status
Status(row) ==
    IF ~row.enabled THEN "revoked" ELSE IF row.expires <= now THEN "expired" ELSE "active"

-----------------------------------------------------------------------------
\* Mutant: the link keeps its token, its version alone tells the credentials apart.
Rotated_SameToken(row, token, days) ==
    [row EXCEPT !.version = @ + 1, !.expires = now + Second * days, !.enabled = TRUE]
\* rotate_public_credential
Rotated(row, token, days) ==
    [row EXCEPT !.token = token, !.version = @ + 1, !.expires = now + Second * days,
                !.enabled = TRUE]

\* The UPDATE: columns that differ from the loaded row.
Written(row, old, new) == [c \in DOMAIN row |-> IF new[c] # old[c] THEN new[c] ELSE row[c]]

\* A student is created: initialize_public_credential.
Create(s) ==
    /\ work < MaxWork /\ work' = work + 1
    /\ link[s] = None
    /\ tokens' = tokens + 1
    /\ link' = [link EXCEPT ![s] = [token |-> tokens', version |-> 1,
           expires |-> now + Second * school.days, enabled |-> TRUE, live |-> TRUE]]
    /\ UNCHANGED <<school, now, req, superseded, denied>>

Begin(r) == req[r] = None /\ work < MaxWork /\ work' = work + 1

\* update_student_verification_link, regenerate_student_verification_link.  An
\* expired link that is enabled is replaced; one that is disabled is only enabled.
LoadLink(r) ==
    /\ Begin(r)
    /\ \E s \in Students, op \in {"enable", "disable", "regenerate"} :
        /\ link[s] # None /\ link[s].live
        /\ LET rotates == op = "regenerate" \/ (op = "enable" /\ Status(link[s]) = "expired") IN
           /\ tokens' = IF rotates THEN tokens + 1 ELSE tokens
           /\ req' = [req EXCEPT ![r] =
                  [op |-> op, student |-> s, old |-> link[s], raced |-> FALSE,
                   new |-> IF rotates THEN Rotated(link[s], tokens', school.days)
                           ELSE [link[s] EXCEPT !.enabled = op = "enable"]]]
    /\ UNCHANGED <<link, school, now, superseded, denied>>

\* The row of s becomes row; the requests that loaded it before are raced.
SaveLink(s, row, r) ==
    /\ link' = [link EXCEPT ![s] = row]
    /\ superseded' = IF Issued(row) = Issued(link[s]) THEN superseded
                     ELSE superseded \cup {Issued(link[s])}
    /\ req' = [q \in Requests |->
           IF q = r THEN None
           ELSE IF req[q] # None /\ req[q].op # "settings" /\ req[q].student = s
           THEN [req[q] EXCEPT !.raced = TRUE] ELSE req[q]]

\* A link is disabled until a request that has seen it disabled enables it.  One that
\* is to disable a link it has seen disabled writes nothing: what was committed since
\* stands.
Denied(r) ==
    LET s == req[r].student IN
    IF req[r].op = "disable"
    THEN IF req[r].old.enabled \/ ~req[r].raced THEN denied \cup {s} ELSE denied
    ELSE IF req[r].old.enabled THEN denied ELSE denied \ {s}

CommitLink(r) ==
    /\ req[r] # None /\ req[r].op # "settings"
    /\ LET s == req[r].student IN SaveLink(s, Written(link[s], req[r].old, req[r].new), r)
    /\ denied' = Denied(r)
    /\ UNCHANGED <<school, now, tokens, work>>

\* delete_student
Deactivate(s) ==
    /\ work < MaxWork /\ work' = work + 1
    /\ link[s] # None /\ link[s].live
    /\ SaveLink(s, [link[s] EXCEPT !.live = FALSE], None)
    /\ UNCHANGED <<school, now, tokens, denied>>

\* update_public_verification_settings
LoadSettings(r) ==
    /\ Begin(r)
    /\ \E new \in School :
        req' = [req EXCEPT ![r] = [op |-> "settings", old |-> school, new |-> new]]
    /\ UNCHANGED <<link, school, now, tokens, superseded, denied>>

CommitSettings(r) ==
    /\ req[r] # None /\ req[r].op = "settings"
    /\ school' = Written(school, req[r].old, req[r].new)
    /\ req' = [req EXCEPT ![r] = None]
    /\ UNCHANGED <<link, now, tokens, work, superseded, denied>>

Abort(r) ==
    /\ req[r] # None
    /\ req' = [req EXCEPT ![r] = None]
    /\ UNCHANGED <<link, school, now, tokens, work, superseded, denied>>

Tick ==
    /\ now < MaxTime /\ now' = now + 1
    /\ UNCHANGED <<link, school, tokens, req, work, superseded, denied>>

Init ==
    /\ link = [s \in Students |-> None]
    /\ school \in School /\ ~school.enabled
    /\ now = 0 /\ tokens = 0
    /\ req = [r \in Requests |-> None]
    /\ work = 0
    /\ superseded = {} /\ denied = {}

Next ==
    \/ \E s \in Students : Create(s) \/ Deactivate(s)
    \/ \E r \in Requests :
        LoadLink(r) \/ CommitLink(r) \/ LoadSettings(r) \/ CommitSettings(r) \/ Abort(r)
    \/ Tick

Spec == Init /\ [][Next]_vars

-----------------------------------------------------------------------------
\* get_public_student_verification finds the row by the token and then looks at
\* the signed version and expiry, or, for a bare token, at the row's own expiry.
Reachable(row) == row.live /\ row.enabled /\ school.enabled
AcceptsSigned(c, row) ==
    c.expires > now \div Second /\ Reachable(row) /\ c = Issued(row)
AcceptsBare(token, row) == row.token = token /\ Reachable(row) /\ Status(row) = "active"

\* "Disabling the school or student setting revokes access, while regenerating a
\* student's token invalidates the prior link" (docs/DESIGNER_V2.md:96): whatever
\* rotations, disablings, settings and creations overlap, a credential that was
\* replaced is refused for good, as a signed one and as a bare token.  So is every one
\* of a student whose link was disabled, until a request that has seen it disabled
\* enables it: a rotation that overlaps the disabling does not.
\* The two forms of the current credential are accepted alike, but for the last
\* fraction of a second, in which the bare token is and the signed one is not.
RevokedCredentialsRefused ==
    \A s \in Students : link[s] # None =>
        LET row == link[s]
            signed == AcceptsSigned(Issued(row), row)
            bare == AcceptsBare(row.token, row) IN
        /\ \A c \in superseded : ~AcceptsSigned(c, row) /\ ~AcceptsBare(c.token, row)
        /\ s \in denied => ~signed /\ ~bare
        /\ signed => bare
        /\ bare => signed \/ row.expires \div Second = now \div Second
=============================================================================
