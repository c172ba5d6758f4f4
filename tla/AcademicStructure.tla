-------------------------- MODULE AcademicStructure --------------------------
(***************************************************************************)
(* The academic structure of one school: sessions of which one is current, *)
(* classes in an order the administrator saves, their sections, and the    *)
(* students placed in them (academic_sessions.py, classes.py, sections.py  *)
(* and the foreign keys of models/student.py).                             *)
(*                                                                         *)
(* Every handler but the reordering reads without a lock ("Load...") and   *)
(* commits later; the reordering locks every class it has read, which      *)
(* holds up the deletion of a class and whatever refers to one.            *)
(*                                                                         *)
(* Abstracted: names; they are unique by constraint and decide nothing     *)
(* else here.                                                              *)
(***************************************************************************)
EXTENDS Naturals, FiniteSets

CONSTANTS
    Terms,          \* academic sessions there may be
    Dates,          \* a set of naturals
    Classes,
    Sections,
    Students,
    None,
    Requests,
    MaxWork         \* bound: requests ever begun

VARIABLES
    term,       \* academic_sessions, None: no row
    order,      \* per class its sort_order, None: no row
    section,    \* per section its class, None: no row
    placed,     \* per student [class, section, active], None: no row
    req,        \* what a request will commit: [op, seen, new, fresh]
    work,
    gone,       \* history: the sections that were deleted, whose ids do not come back
    sent        \* history: per class its position in the order last saved

vars == <<term, order, section, placed, req, work, gone, sent>>

\* A student's place.
Place == [class : Classes, section : Sections, active : BOOLEAN]

Dated == Dates \cup {None}
\* A row of academic_sessions.
Term == [start : Dated, end : Dated, current : BOOLEAN]

ASSUME StructureAssumption ==
    /\ Dates \subseteq Nat
    /\ None \notin Nat \cup Classes \cup Place \cup Term
    /\ IsFiniteSet(Classes)

There(table) == {x \in DOMAIN table : table[x] # None}
Plans(r, op) == req[r] # None /\ req[r].op = op

\* A request has read what it needs; fresh (history): no session has been
\* committed since.
Begin(r, op, seen, new) ==
    /\ req[r] = None
    /\ work < MaxWork
    /\ work' = work + 1
    /\ req' = [req EXCEPT ![r] = [op |-> op, seen |-> seen, new |-> new, fresh |-> TRUE]]
    /\ UNCHANGED <<term, order, section, placed, gone, sent>>

\* The values of f where it has one, elsewhere those of g.
Overlay(f, g) == [x \in DOMAIN f \cup DOMAIN g |-> IF x \in DOMAIN f THEN f[x] ELSE g[x]]

\* Only what differs from the load is written to a row.
Written(seen, new, there) ==
    [c \in DOMAIN there |-> IF new[c] # seen[c] THEN new[c] ELSE there[c]]

\* An id that no other request is about to insert: ids come from a sequence.
Unused(r, table, op) == {x \in DOMAIN table \ There(table) :
    \A q \in Requests \ {r} : Plans(q, op) => x \notin DOMAIN req[q].new}

Ends(r) == req' = [req EXCEPT ![r] = None]

(***************************************************************************)
(* Academic sessions.                                                      *)
(***************************************************************************)
InOrder(row) == row.start # None /\ row.end # None => row.start <= row.end

\* The table with the new row; if that is current, the others read as current
\* are unset.
Unset(t, row) ==
    [u \in There(term) \cup {t} |->
        IF u = t THEN row
        ELSE IF row.current THEN [term[u] EXCEPT !.current = FALSE] ELSE term[u]]

\* create_academic_session.
LoadCreateTerm(r) ==
    \E t \in Unused(r, term, "term"), start, end \in Dated, current \in BOOLEAN :
        LET row == [start |-> start, end |-> end, current |-> current] IN
        /\ InOrder(row)
        /\ Begin(r, "term", term, Unset(t, row))

\* Mutant: only the dates that are supplied are compared.
Checked_Supplied(row, given) == InOrder(Overlay([start |-> None, end |-> None], given))
\* The dates are compared as they will be, an omitted one as it was loaded.
Checked(row, given) == InOrder(Overlay(given, row))

\* update_academic_session: the payload has some of the columns.
LoadUpdateTerm(r) ==
    \E t \in There(term), start, end \in Dated, current \in BOOLEAN,
       columns \in SUBSET {"start", "end", "current"} :
        LET payload == [start |-> start, end |-> end, current |-> current]
            given == [c \in columns |-> payload[c]]
            row == Overlay(given, term[t])
        IN  /\ Checked(term[t], given)
            /\ Begin(r, "term", term,
                     IF "current" \in columns THEN Unset(t, row)
                     ELSE [u \in There(term) |-> IF u = t THEN row ELSE term[u]])

CommitTerm(r) ==
    /\ Plans(r, "term")
    /\ LET seen == req[r].seen new == req[r].new IN
       term' = [t \in Terms |-> IF t \notin DOMAIN new THEN term[t]
                                ELSE IF seen[t] = None THEN new[t]
                                ELSE Written(seen[t], new[t], term[t])]
    /\ req' = [q \in Requests |-> IF q = r \/ req[q] = None THEN None
                                  ELSE [req[q] EXCEPT !.fresh = FALSE]]
    /\ UNCHANGED <<order, section, placed, work, gone, sent>>

(***************************************************************************)
(* Classes.                                                                *)
(***************************************************************************)
\* create_class: after the highest order it reads.
NextOrders == LET used == {order[c] + 1 : c \in There(order)} \cup {0}
              IN  {n \in used : \A m \in used : m <= n}
LoadCreateClass(r) ==
    \E c \in Unused(r, order, "create_class"), n \in NextOrders :
        Begin(r, "create_class", None, [d \in {c} |-> n])
CommitCreateClass(r) ==
    /\ Plans(r, "create_class")
    /\ order' = Overlay(req[r].new, order)
    /\ Ends(r)
    /\ UNCHANGED <<term, section, placed, work, gone, sent>>

\* The classes whose rows a reordering holds until it ends.
Locked == UNION {DOMAIN req[r].new : r \in {q \in Requests : Plans(q, "reorder")}}

Orders(S) == {f \in [S -> 0 .. Cardinality(S) - 1] : \A c, d \in S : c # d => f[c] # f[d]}

\* Mutant: the classes are read without FOR UPDATE.
LoadReorder_Unlocked(r) ==
    /\ There(order) # {}
    /\ \E new \in Orders(There(order)) : Begin(r, "reorder", order, new)
\* reorder_classes: every class exactly once, the rows locked from the read on.
LoadReorder(r) ==
    /\ Locked = {} /\ There(order) # {}
    /\ \E new \in Orders(There(order)) : Begin(r, "reorder", order, new)
CommitReorder(r) ==
    /\ Plans(r, "reorder")
    /\ LET seen == req[r].seen new == req[r].new IN
       /\ order' = [c \in Classes |-> IF c \in DOMAIN new /\ new[c] # seen[c] /\ order[c] # None
                                      THEN new[c] ELSE order[c]]
       /\ sent' = [c \in Classes |-> IF c \in DOMAIN new THEN new[c] ELSE None]
    /\ Ends(r)
    /\ UNCHANGED <<term, section, placed, work, gone>>

\* delete_class: refused while active students are in it.
LoadDeleteClass(r) ==
    \E c \in There(order) :
        /\ \A s \in There(placed) : placed[s].class = c => ~ placed[s].active
        /\ Begin(r, "delete_class", None, c)

(***************************************************************************)
(* Sections.                                                               *)
(***************************************************************************)
LoadCreateSection(r) ==
    \E x \in Unused(r, section, "create_section") \ gone, c \in There(order) :
        Begin(r, "create_section", None, [y \in {x} |-> c])
\* delete_section: refused while active students are in it.
LoadDeleteSection(r) ==
    \E x \in There(section) :
        /\ \A s \in There(placed) : placed[s].section = x => ~ placed[s].active
        /\ Begin(r, "delete_section", None, x)

(***************************************************************************)
(* Students.                                                               *)
(***************************************************************************)
\* create_student and the imports: a section of the class, both looked up.
LoadPlace(r) ==
    \E s \in Unused(r, placed, "place"), x \in There(section) :
        Begin(r, "place", None,
              [t \in {s} |-> [class |-> section[x], section |-> x, active |-> TRUE]])
\* update_student: another placement, or the activation.
LoadMove(r) ==
    \E s \in There(placed), x \in There(section), active \in BOOLEAN :
        Begin(r, "move", [t \in {s} |-> placed[s]],
              [t \in {s} |-> [class |-> section[x], section |-> x, active |-> active]])

Placement(r) ==
    [s \in Students |->
        IF s \notin DOMAIN req[r].new THEN placed[s]
        ELSE IF req[r].op = "place" THEN req[r].new[s]
        ELSE Written(req[r].seen[s], req[r].new[s], placed[s])]

(***************************************************************************)
(* Commits that the foreign keys decide.                                   *)
(***************************************************************************)
\* Mutant: class and section are constrained each on its own.
References_Separate(o, x, p) ==
    /\ \A y \in There(x) : o[x[y]] # None
    /\ \A s \in There(p) : o[p[s].class] # None /\ x[p[s].section] # None
\* Sections refer to their class, students to a class and one of its sections.
References(o, x, p) ==
    /\ \A y \in There(x) : o[x[y]] # None
    /\ \A s \in There(p) : o[p[s].class] # None /\ x[p[s].section] = p[s].class

\* The tables after the request; deleting a class deletes its sections.
OrderAfter(r) == IF req[r].op = "delete_class" THEN [order EXCEPT ![req[r].new] = None] ELSE order
SectionAfter(r) ==
    CASE req[r].op = "delete_class" ->
            [x \in Sections |-> IF section[x] = req[r].new THEN None ELSE section[x]]
      [] req[r].op = "delete_section" -> [section EXCEPT ![req[r].new] = None]
      [] req[r].op = "create_section" -> Overlay(req[r].new, section)
      [] OTHER -> section
PlacedAfter(r) == IF req[r].op \in {"place", "move"} THEN Placement(r) ELSE placed

Referring == {"delete_class", "create_section", "delete_section", "place", "move"}
\* The class rows it deletes or refers to anew are not locked.
Awaits(r) ==
    CASE req[r].op = "delete_class" -> {req[r].new}
      [] req[r].op = "create_section" -> {req[r].new[x] : x \in DOMAIN req[r].new}
      [] req[r].op \in {"place", "move"} -> {req[r].new[s].class : s \in DOMAIN req[r].new}
      [] OTHER -> {}

Commit(r) ==
    /\ req[r] # None /\ req[r].op \in Referring
    /\ Awaits(r) \cap Locked = {}
    /\ References(OrderAfter(r), SectionAfter(r), PlacedAfter(r))
    /\ order' = OrderAfter(r)
    /\ section' = SectionAfter(r)
    /\ placed' = PlacedAfter(r)
    /\ gone' = gone \cup {x \in There(section) : SectionAfter(r)[x] = None}
    /\ sent' = [c \in Classes |-> IF OrderAfter(r)[c] = None THEN None ELSE sent[c]]
    /\ Ends(r)
    /\ UNCHANGED <<term, work>>

\* IntegrityError, which these handlers do not catch, or the end of the process.
Abort(r) ==
    /\ req[r] # None
    /\ Ends(r)
    /\ UNCHANGED <<term, order, section, placed, work, gone, sent>>

-----------------------------------------------------------------------------
Init ==
    /\ \E T \in SUBSET Terms :
        term = [t \in Terms |-> IF t \in T THEN [start |-> None, end |-> None, current |-> FALSE]
                                ELSE None]
    /\ \E C \in SUBSET Classes :
        \E f \in Orders(C) : order = [c \in Classes |-> IF c \in C THEN f[c] ELSE None]
    /\ section \in [Sections -> There(order) \cup {None}]
    /\ \E active \in BOOLEAN, x \in There(section) \cup {None} :
        placed = [s \in Students |-> IF x = None THEN None
                     ELSE [class |-> section[x], section |-> x, active |-> active]]
    /\ req = [r \in Requests |-> None]
    /\ work = 0
    /\ gone = {}
    /\ sent = [c \in Classes |-> None]

\* Sessions on the one hand, classes with what they hold on the other share nothing.
TermStep(r) == LoadCreateTerm(r) \/ LoadUpdateTerm(r) \/ CommitTerm(r) \/ Abort(r)
ClassStep(r) ==
    \/ LoadCreateClass(r) \/ LoadReorder(r) \/ LoadDeleteClass(r)
    \/ LoadCreateSection(r) \/ LoadDeleteSection(r)
    \/ LoadPlace(r) \/ LoadMove(r)
    \/ CommitCreateClass(r) \/ CommitReorder(r) \/ Commit(r) \/ Abort(r)

Next == \E r \in Requests : TermStep(r) \/ ClassStep(r)

Spec == Init /\ [][Next]_vars

-----------------------------------------------------------------------------
(***************************************************************************)
(* Properties.                                                             *)
(***************************************************************************)
SamePlace(p, q) == p # None /\ q # None /\ p.class = q.class /\ p.section = q.section

\* A student's place changes only to one that a request asked for as a whole
\* (students.py:1365-1367): two moves that overlap, each of which writes only what it
\* changes, never mix the class of the one with the section of the other, whatever
\* is created and deleted at the same time.
PlacesAreAsked ==
    [][\A s \in Students : placed'[s] # None /\ ~ SamePlace(placed[s], placed'[s]) =>
        \E r \in Requests :
            /\ Plans(r, "place") \/ Plans(r, "move")
            /\ req'[r] = None
            /\ s \in DOMAIN req[r].new /\ SamePlace(req[r].new[s], placed'[s])]_vars

\* The classes stand in the order the administrator saved last, not in a mixture
\* of two, until the next one is saved; classes created since may be anywhere.
OrderIsTheOneSent ==
    \A c, d \in There(sent) : sent[c] < sent[d] => order[c] < order[d]

\* At most one session is current and none ends before it starts ("end_date cannot
\* be earlier than start_date", academic_sessions.py), whatever parts of them are
\* saved, unless another session was saved while the request was at work.
Coherent ==
    /\ \A t, u \in There(term) : term[t].current /\ term[u].current => t = u
    /\ \A t \in There(term) : InOrder(term[t])
TermsCoherent ==
    [][Coherent /\ (\A r \in Requests : CommitTerm(r) => req[r].fresh) => Coherent']_vars
=============================================================================
