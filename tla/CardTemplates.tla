--------------------------- MODULE CardTemplates ---------------------------
(***************************************************************************)
(* The card template of each school and its public link                    *)
(* (card_templates.py).                                                    *)
(*                                                                         *)
(* An editor loads the template, changes it and saves it with the          *)
(* updated_at it saw; a save or a copy from another school locks the row   *)
(* before it compares.  A school without a template has no row to lock:    *)
(* there the unique constraint on the school decides.  The settings of the *)
(* public link are read without a lock and write only the columns whose    *)
(* value differs from the one loaded.                                      *)
(*                                                                         *)
(* Abstracted: a side of the card is a document, valid as it was sent; the *)
(* name goes with the front.  Whether the fields of a copied design exist  *)
(* in the other school is left open.                                       *)
(***************************************************************************)
EXTENDS Naturals

CONSTANTS
    Schools,
    Sides,          \* documents, a side of a card each
    NoSide,         \* no back side
    NoCard, Idle,
    Requests,
    MaxTime,        \* bound: largest updated_at
    MaxWork         \* bound: requests ever begun

ASSUME CardsAssumption ==
    /\ NoSide \notin Sides
    /\ NoCard \notin [front: Sides, back: Sides \cup {NoSide}]
    /\ Idle \notin Requests
    /\ MaxTime \in Nat /\ MaxWork \in Nat

VARIABLES
    card,       \* front and back of card_templates
    token,      \* updated_at, 0 without a row
    share,      \* public_enabled and public_token
    links,      \* the number of the last public token made
    lock,       \* the request that holds the row of a school, or Idle
    req,
    work,
    revoked     \* history: public tokens that were replaced

vars == <<card, token, share, links, lock, req, work, revoked>>

Cards == [front: Sides, back: Sides \cup {NoSide}]
Times == 1 .. MaxTime
Share == [enabled: BOOLEAN, link: Nat]

\* expect: expected_updated_at, or 0 if it is not sent; base: the design the
\* editor saw; keepBack: the request does not name the back side.
Request == [op: {"save", "copy"}, pc: {"source", "lock", "commit"}, school: Schools,
            from: Schools, expect: 0 .. MaxTime, base: Cards \cup {NoCard}, new: Cards \cup {NoCard},
            keepBack: BOOLEAN, found: BOOLEAN]
        \cup [op: {"share"}, pc: {"update"}, school: Schools, enabled: BOOLEAN, link: Nat,
              old: Share]

At(r, pc) == req[r] # Idle /\ req[r].pc = pc
To(r, pc) == req' = [req EXCEPT ![r].pc = pc]
End(r) ==
    /\ req' = [req EXCEPT ![r] = Idle]
    /\ lock' = [s \in Schools |-> IF lock[s] = r THEN Idle ELSE lock[s]]
Begin(r) == req[r] = Idle /\ work < MaxWork /\ work' = work + 1

\* Mutant: a school without a template is let through.
SchoolTemplate_Any(s) == TRUE
\* _school_template: 404 without a row.
SchoolTemplate(s) == card[s] # NoCard

(***************************************************************************)
(* Saving and copying a design.                                            *)
(***************************************************************************)
\* An editor loads the template and sends a save, with or without its token.
LoadSave(r) ==
    /\ Begin(r)
    /\ \E s \in Schools, new \in Cards, keepBack \in BOOLEAN : \E expect \in {0, token[s]} :
        /\ keepBack => new.back = NoSide
        /\ req' = [req EXCEPT ![r] = [op |-> "save", pc |-> "lock", school |-> s, from |-> s,
               expect |-> expect, base |-> card[s], new |-> new, keepBack |-> keepBack,
               found |-> FALSE]]
    /\ UNCHANGED <<card, token, share, links, lock, revoked>>

\* An editor loads the template and asks for a copy of another school's.
LoadCopy(r) ==
    /\ Begin(r)
    /\ \E s, from \in Schools : \E expect \in {0, token[s]} :
        /\ s # from
        /\ req' = [req EXCEPT ![r] = [op |-> "copy", pc |-> "source", school |-> s,
               from |-> from, expect |-> expect, base |-> card[s], new |-> NoCard,
               keepBack |-> FALSE, found |-> FALSE]]
    /\ UNCHANGED <<card, token, share, links, lock, revoked>>

\* The source is read before the target is locked; without one it is a 404.
CopySource(r) ==
    /\ At(r, "source")
    /\ IF SchoolTemplate(req[r].from)
       THEN /\ req' = [req EXCEPT ![r].new = card[req[r].from], ![r].pc = "lock"]
            /\ UNCHANGED lock
       ELSE End(r)
    /\ UNCHANGED <<card, token, share, links, work, revoked>>

\* The token sent is not that of the row.  A copy over a template needs one.
Stale(r) ==
    LET s == req[r].school e == req[r].expect IN
    IF card[s] = NoCard THEN e # 0
    ELSE e # token[s] /\ (e # 0 \/ req[r].op = "copy")

\* Mutant: the row is compared without FOR UPDATE.
LockRow_Unlocked(r) ==
    /\ At(r, "lock")
    /\ IF Stale(r) THEN End(r)
       ELSE /\ req' = [req EXCEPT ![r].pc = "commit", ![r].found = card[req[r].school] # NoCard]
            /\ UNCHANGED lock
    /\ UNCHANGED <<card, token, share, links, work, revoked>>
\* SELECT ... FOR UPDATE and the comparison.
LockRow(r) ==
    LET s == req[r].school IN
    /\ At(r, "lock")
    /\ lock[s] = Idle
    /\ IF Stale(r) THEN End(r)
       ELSE /\ lock' = IF card[s] # NoCard THEN [lock EXCEPT ![s] = r] ELSE lock
            /\ req' = [req EXCEPT ![r].pc = "commit", ![r].found = card[s] # NoCard]
    /\ UNCHANGED <<card, token, share, links, work, revoked>>

\* A field of the copied design has no counterpart in the target.
Unresolved(r) ==
    /\ At(r, "commit") /\ req[r].op = "copy"
    /\ End(r)
    /\ UNCHANGED <<card, token, share, links, work, revoked>>

\* Mutant: the clock alone decides.
NextToken_Clock(current, now) == now
\* _next_updated_at; a new row has the clock of the database.
NextToken(current, now) == IF now > current THEN now ELSE current + 1

Saved(r) ==
    IF req[r].keepBack /\ req[r].found
    THEN [req[r].new EXCEPT !.back = card[req[r].school].back]
    ELSE req[r].new

CommitSave(r) ==
    LET s == req[r].school IN
    /\ At(r, "commit")
    /\ IF req[r].found = (card[s] # NoCard)
       THEN \E now \in Times :
            /\ NextToken(token[s], now) <= MaxTime
            /\ card' = [card EXCEPT ![s] = Saved(r)]
            /\ token' = [token EXCEPT ![s] = NextToken(token[s], now)]
       ELSE UNCHANGED <<card, token>>       \* the unique constraint: 409
    /\ End(r)
    /\ UNCHANGED <<share, links, work, revoked>>

(***************************************************************************)
(* The public link.                                                        *)
(***************************************************************************)
\* update_public_design_share makes a token when there is none,
\* regenerate_public_design_share always.
LoadShare(r) ==
    /\ Begin(r)
    /\ \E s \in Schools, enabled \in BOOLEAN, regenerate \in BOOLEAN :
        /\ SchoolTemplate(s)
        /\ regenerate => enabled
        /\ LET new == regenerate \/ (enabled /\ share[s].link = 0) IN
           /\ links' = IF new THEN links + 1 ELSE links
           /\ req' = [req EXCEPT ![r] = [op |-> "share", pc |-> "update", school |-> s,
                  enabled |-> enabled, link |-> IF new THEN links' ELSE 0, old |-> share[s]]]
    /\ UNCHANGED <<card, token, share, lock, revoked>>

\* Mutant: every column is written.
Shared_WholeRow(r, now) ==
    [enabled |-> req[r].enabled, link |-> IF req[r].link # 0 THEN req[r].link ELSE req[r].old.link]
\* The columns that differ from the ones loaded are written.
Shared(r, now) ==
    [enabled |-> IF req[r].enabled # req[r].old.enabled THEN req[r].enabled ELSE now.enabled,
     link |-> IF req[r].link # 0 THEN req[r].link ELSE now.link]

CommitShare(r) ==
    LET s == req[r].school new == Shared(r, share[s]) IN
    /\ At(r, "update")
    /\ lock[s] = Idle
    /\ share' = [share EXCEPT ![s] = new]
    /\ revoked' = IF new.link # share[s].link THEN revoked \cup ({share[s].link} \ {0}) ELSE revoked
    /\ End(r)
    /\ UNCHANGED <<card, token, links, work>>

Init ==
    /\ card = [s \in Schools |-> NoCard]
    /\ token = [s \in Schools |-> 0]
    /\ share = [s \in Schools |-> [enabled |-> FALSE, link |-> 0]]
    /\ links = 0
    /\ lock = [s \in Schools |-> Idle]
    /\ req = [r \in Requests |-> Idle]
    /\ work = 0
    /\ revoked = {}

Step(r) ==
    \/ LoadSave(r) \/ LoadCopy(r) \/ CopySource(r) \/ LockRow(r) \/ Unresolved(r)
    \/ CommitSave(r) \/ LoadShare(r) \/ CommitShare(r)

Next == \E r \in Requests : Step(r)

Spec == Init /\ [][Next]_vars

(***************************************************************************)
(* Properties.                                                             *)
(***************************************************************************)
\* Types of the state; a row has a token, and only a row is locked or shared.
TypeOK ==
    /\ card \in [Schools -> Cards \cup {NoCard}]
    /\ token \in [Schools -> 0 .. MaxTime]
    /\ \A s \in Schools : card[s] = NoCard <=> token[s] = 0
    /\ share \in [Schools -> Share]
    /\ \A s \in Schools : share[s].enabled => card[s] # NoCard
    /\ links \in Nat
    /\ lock \in [Schools -> Requests \cup {Idle}]
    /\ req \in [Requests -> Request \cup {Idle}]
    /\ work \in 0 .. MaxWork
    /\ revoked \subseteq 1 .. links

\* The design of every school is a versioned register: the sides change together
\* and the token grows with them, whatever saves, copies and link settings
\* overlap and whatever the clock says ("Public-link settings do not advance this
\* design-version token", README.md:135).
Design == INSTANCE VersionedDesign WITH card <- card, token <- token
Versioned == Design!Spec

\* "conditional saves compare expected_updated_at under a row lock and return 409
\* Conflict for stale editors" (README.md:135): a save with a token replaces the
\* very design its editor saw, never one that was saved in between.
NoLostDesign ==
    [][\A r \in Requests :
        At(r, "commit") /\ req[r].expect # 0 /\ card' # card /\ req'[r] # req[r] =>
            card[req[r].school] = req[r].base]_vars

\* "Regeneration invalidates the prior link" (README.md:140): a public token that
\* was replaced never opens a design again.
RevokedLinksStayDead == \A s \in Schools : share[s].link \notin revoked
=============================================================================
