-------------------------- MODULE EnrolmentProofs --------------------------
(***************************************************************************)
(* Proofs about AcademicStructure and StudentImports, for any number of    *)
(* sessions, classes, sections, students, fields, sheets and requests.     *)
(*                                                                         *)
(* The invariant of the structure says, beside the types, what a pending   *)
(* plan may count on until it is committed (PlansFit): rows it updates are *)
(* there, rows it inserts are free, and the classes it reorders are where  *)
(* it found them, which is what the row locks are for; and that a plan of  *)
(* sessions which none has overtaken breaks no rule (TermsFresh).  To it   *)
(* comes that a section is of one class for as long as it exists           *)
(* (SectionsInv), so that a move which writes the section alone leaves the *)
(* student in the class it was planned for.  The invariant of the imports  *)
(* says that an imported student has the number of the sheet unless it has *)
(* been changed (OriginsHold), so that with distinct numbers the same      *)
(* sheet cannot be in the table twice, and that the numbers of a request   *)
(* which none has overtaken are free (FreshInv).                           *)
(***************************************************************************)
EXTENDS Enrolment, FiniteSetTheorems, TLAPS

-----------------------------------------------------------------------------
(***************************************************************************)
(* The academic structure.                                                 *)
(***************************************************************************)
\* The tables hold rows.
StructureType ==
    /\ term \in [Terms -> Term \cup {None}]
    /\ order \in [Classes -> Nat \cup {None}]
    /\ section \in [Sections -> Classes \cup {None}]
    /\ placed \in [Students -> Place \cup {None}]
    /\ sent \in [Classes -> Nat \cup {None}]
    /\ DOMAIN req = Requests
    /\ \A r \in Requests : req[r] # None => DOMAIN req[r] = {"op", "seen", "new", "fresh"}

\* Coherent, of rows that are yet to be saved.
RowsCoherent(rows) ==
    /\ \A t, u \in DOMAIN rows : rows[t].current /\ rows[u].current => t = u
    /\ \A t \in DOMAIN rows : InOrder(rows[t])

\* What a pending request carries, against the tables as they are now: rows of the
\* right kind; a row it updates is still there, one it inserts is still free, and
\* the classes it reorders are where it found them.
TermFits(seen, new) ==
    /\ DOMAIN new \subseteq Terms
    /\ \A t \in DOMAIN new :
        /\ new[t] \in Term
        /\ seen[t] # None => seen[t] \in Term /\ term[t] # None
NewClassFits(new) ==
    /\ DOMAIN new \subseteq Classes
    /\ \A c \in DOMAIN new : new[c] \in Nat /\ order[c] = None
ReorderFits(seen, new) ==
    /\ DOMAIN new # {} /\ DOMAIN new \subseteq Classes
    /\ \A c \in DOMAIN new : new[c] \in Nat /\ order[c] = seen[c] /\ order[c] # None
SectionFits(new) ==
    /\ DOMAIN new \subseteq Sections
    /\ \A x \in DOMAIN new : new[x] \in Classes
PlaceFits(new) ==
    /\ DOMAIN new \subseteq Students
    /\ \A s \in DOMAIN new : new[s] \in Place
MoveFits(seen, new) == \A s \in DOMAIN new : seen[s] \in Place /\ placed[s] # None

PlanFits(op, seen, new) ==
    /\ op = "term" => TermFits(seen, new)
    /\ op = "create_class" => NewClassFits(new)
    /\ op = "reorder" => ReorderFits(seen, new)
    /\ op = "delete_class" => new \in Classes
    /\ op = "create_section" => SectionFits(new)
    /\ op = "delete_section" => new \in Sections
    /\ op \in {"place", "move"} => PlaceFits(new)
    /\ op = "move" => MoveFits(seen, new)
PlansFit == \A r \in Requests : req[r] # None => PlanFits(req[r].op, req[r].seen, req[r].new)

\* A plan of sessions that none has overtaken: it is for the table as it is, and
\* breaks no rule the table keeps.
Timely(seen, new) ==
    /\ seen = term
    /\ There(term) \subseteq DOMAIN new
    /\ Coherent => RowsCoherent(new)
TermsFresh ==
    \A r \in Requests : Plans(r, "term") /\ req[r].fresh => Timely(req[r].seen, req[r].new)

\* No two requests are about to insert the same class.
IdsApart == \A q, r \in Requests : Plans(q, "create_class") /\ Plans(r, "create_class") /\ q # r
    => DOMAIN req[q].new \cap DOMAIN req[r].new = {}
\* One reordering at a time.
OneReorder == \A q, r \in Requests : Plans(q, "reorder") /\ Plans(r, "reorder") => q = r
\* What was sent for a class goes with the class.
SentThere == \A c \in Classes : sent[c] # None => order[c] # None

\* Every student is in a section that exists and in the class of that section, and
\* every section in a class that exists: the foreign keys.
PlacesExist ==
    /\ \A x \in There(section) : section[x] \in There(order)
    /\ \A s \in There(placed) :
        placed[s].section \in There(section) /\ section[placed[s].section] = placed[s].class

StructureInv ==
    /\ StructureType /\ PlansFit /\ TermsFresh /\ IdsApart /\ OneReorder
    /\ SentThere /\ PlacesExist /\ OrderIsTheOneSent

-----------------------------------------------------------------------------
\* What the assumption says of None.
LEMMA NoneIsNoRow ==
    None \notin Nat /\ None \notin Classes /\ None \notin Place /\ None \notin Term
BY StructureAssumption

\* Recording a plan that fits keeps the invariant.
LEMMA BeginStep ==
    ASSUME StructureInv, NEW r \in Requests, NEW op, NEW seen, NEW new,
           Begin(r, op, seen, new),
           PlanFits(op, seen, new),
           op = "term" => Timely(seen, new),
           op = "create_class" => \A q \in Requests \ {r} :
               Plans(q, "create_class") => DOMAIN new \cap DOMAIN req[q].new = {},
           op = "reorder" => \A q \in Requests : ~ Plans(q, "reorder")
    PROVE  StructureInv'
<1> DEFINE p == [op |-> op, seen |-> seen, new |-> new, fresh |-> TRUE]
<1>1. UNCHANGED <<term, order, section, placed, sent>> /\ req' = [req EXCEPT ![r] = p]
  BY DEF Begin
<1>2. p.op = op /\ p.seen = seen /\ p.new = new /\ DOMAIN p = {"op", "seen", "new", "fresh"}
  OBVIOUS
<1> HIDE DEF p
<1>3. DOMAIN req' = Requests /\ req'[r] = p /\ \A q \in Requests \ {r} : req'[q] = req[q]
  BY <1>1 DEF StructureInv, StructureType
<1>4. StructureType'
  BY <1>1, <1>2, <1>3 DEF StructureInv, StructureType
<1>5. PlansFit'
  <2> SUFFICES ASSUME NEW q \in Requests, req'[q] # None
               PROVE  PlanFits(req[q].op, req[q].seen, req[q].new)'
    BY DEF PlansFit
  <2>1. CASE q = r
    BY <1>1, <1>2, <1>3, <2>1
       DEF PlanFits, TermFits, NewClassFits, ReorderFits, SectionFits, PlaceFits, MoveFits
  <2>2. CASE q # r
    BY <1>1, <1>3, <2>2 DEF StructureInv, PlansFit,
       PlanFits, TermFits, NewClassFits, ReorderFits, SectionFits, PlaceFits, MoveFits
  <2> QED
    BY <2>1, <2>2
<1>6. TermsFresh'
  <2> SUFFICES ASSUME NEW q \in Requests, Plans(q, "term")', req'[q].fresh
               PROVE  Timely(req[q].seen, req[q].new)'
    BY DEF TermsFresh
  <2>1. CASE q = r
    BY <1>1, <1>2, <1>3, <2>1 DEF Timely, There, Coherent, Plans
  <2>2. CASE q # r
    <3>1. Timely(req[q].seen, req[q].new)
      BY <1>3, <2>2 DEF StructureInv, TermsFresh, Plans
    <3> QED
      BY <1>1, <1>3, <2>2, <3>1 DEF Timely, There, Coherent
  <2> QED
    BY <2>1, <2>2
<1>7. IdsApart'
  BY <1>2, <1>3 DEF StructureInv, IdsApart, Plans
<1>8. OneReorder'
  BY <1>2, <1>3 DEF StructureInv, OneReorder, Plans
<1>9. SentThere' /\ PlacesExist' /\ OrderIsTheOneSent'
  BY <1>1 DEF StructureInv, SentThere, PlacesExist, OrderIsTheOneSent, There
<1> QED
  BY <1>4, <1>5, <1>6, <1>7, <1>8, <1>9 DEF StructureInv

-----------------------------------------------------------------------------
\* Columns of a payload over those of a row make a row.
LEMMA OverlayRow ==
    ASSUME NEW row \in Term, NEW columns \in SUBSET {"start", "end", "current"},
           NEW start \in Dated, NEW end \in Dated, NEW current \in BOOLEAN
    PROVE  LET payload == [start |-> start, end |-> end, current |-> current]
               n == Overlay([c \in columns |-> payload[c]], row)
           IN  /\ n \in Term
               /\ "current" \notin columns => n.current = row.current
<1> DEFINE payload == [start |-> start, end |-> end, current |-> current]
           given == [c \in columns |-> payload[c]]
           n == Overlay(given, row)
<1>1. payload.start = start /\ payload.end = end /\ payload.current = current
  OBVIOUS
<1> HIDE DEF payload
<1>2. DOMAIN row = {"start", "end", "current"} /\ row.start \in Dated /\ row.end \in Dated
      /\ row.current \in BOOLEAN
  BY DEF Term
<1>3. n = [c \in {"start", "end", "current"} |-> IF c \in columns THEN payload[c] ELSE row[c]]
  BY <1>2 DEF Overlay
<1>4. n \in Term
  BY <1>1, <1>2, <1>3 DEF Term
<1>5. "current" \notin columns => n.current = row.current
  BY <1>3
<1> QED
  BY <1>4, <1>5 DEF payload

\* The table with a new row has rows, and is coherent if the table is and the
\* row's dates are in order.
LEMMA UnsetFits ==
    ASSUME StructureInv, NEW t \in Terms, NEW row \in Term, InOrder(row)
    PROVE  /\ TermFits(term, Unset(t, row))
           /\ Timely(term, Unset(t, row))
<1> DEFINE rows == Unset(t, row)
<1>1. DOMAIN rows = There(term) \cup {t} /\ There(term) \subseteq Terms
  BY DEF Unset, There, StructureInv, StructureType
<1>2. \A u \in There(term) : term[u] \in Term
  BY DEF There, StructureInv, StructureType
<1>3. ASSUME NEW u \in There(term), u # t
      PROVE  /\ rows[u] \in Term /\ rows[u].start = term[u].start /\ rows[u].end = term[u].end
             /\ rows[u].current <=> term[u].current /\ ~ row.current
  <2>1. rows[u] = IF row.current THEN [term[u] EXCEPT !.current = FALSE] ELSE term[u]
    BY <1>3 DEF Unset
  <2>2. PICK old \in Term : old = term[u]
    BY <1>2
  <2>3. rows[u] = IF row.current THEN [old EXCEPT !.current = FALSE] ELSE old
    BY <2>1, <2>2
  <2>4. /\ rows[u] \in Term /\ rows[u].start = old.start /\ rows[u].end = old.end
        /\ rows[u].current <=> old.current /\ ~ row.current
    BY <2>3 DEF Term
  <2> QED
    BY <2>2, <2>4
<1>4. rows[t] = row
  BY DEF Unset
<1> HIDE DEF rows
<1>5. \A u \in DOMAIN rows : rows[u] \in Term
  BY <1>1, <1>3, <1>4
<1>6. TermFits(term, rows)
  BY <1>1, <1>2, <1>5 DEF TermFits, StructureInv, StructureType
<1>7. ASSUME Coherent
      PROVE  RowsCoherent(rows)
  <2>1. ASSUME NEW u \in DOMAIN rows, NEW v \in DOMAIN rows, rows[u].current, rows[v].current
        PROVE  u = v
    BY <1>1, <1>3, <1>4, <1>7, <2>1 DEF Coherent
  <2>2. ASSUME NEW u \in DOMAIN rows
        PROVE  InOrder(rows[u])
    BY <1>1, <1>3, <1>4, <1>7 DEF Coherent, InOrder
  <2> QED
    BY <2>1, <2>2 DEF RowsCoherent
<1>8. Timely(term, rows)
  BY <1>1, <1>7 DEF Timely
<1> QED
  BY <1>6, <1>8 DEF rows

\* Creating a session plans what fits.
LEMMA CreateTermStep ==
    ASSUME StructureInv, NEW r \in Requests, LoadCreateTerm(r)
    PROVE  StructureInv'
<1>1. PICK t \in Unused(r, term, "term"), start \in Dated, end \in Dated, current \in BOOLEAN :
        LET row == [start |-> start, end |-> end, current |-> current] IN
        InOrder(row) /\ Begin(r, "term", term, Unset(t, row))
  BY DEF LoadCreateTerm
<1> DEFINE row == [start |-> start, end |-> end, current |-> current]
           rows == Unset(t, row)
<1>2. t \in Terms
  BY DEF Unused, StructureInv, StructureType
<1>3. row \in Term
  BY DEF Term
<1>4. InOrder(row) /\ Begin(r, "term", term, rows)
  BY <1>1
<1> HIDE DEF row
<1>5. TermFits(term, rows) /\ Timely(term, rows)
  BY <1>2, <1>3, <1>4, UnsetFits
<1> HIDE DEF rows
<1>6. PlanFits("term", term, rows)
  BY <1>5 DEF PlanFits
<1> QED
  BY <1>4, <1>5, <1>6, BeginStep

\* So does updating one.
LEMMA UpdateTermStep ==
    ASSUME StructureInv, NEW r \in Requests, LoadUpdateTerm(r)
    PROVE  StructureInv'
<1>1. PICK t \in There(term), start \in Dated, end \in Dated, current \in BOOLEAN,
           columns \in SUBSET {"start", "end", "current"} :
        LET payload == [start |-> start, end |-> end, current |-> current]
            given == [c \in columns |-> payload[c]]
            row == Overlay(given, term[t])
        IN  /\ Checked(term[t], given)
            /\ Begin(r, "term", term,
                     IF "current" \in columns THEN Unset(t, row)
                     ELSE [u \in There(term) |-> IF u = t THEN row ELSE term[u]])
  BY DEF LoadUpdateTerm
<1> DEFINE payload == [start |-> start, end |-> end, current |-> current]
           given == [c \in columns |-> payload[c]]
           row == Overlay(given, term[t])
           rows == [u \in There(term) |-> IF u = t THEN row ELSE term[u]]
           new == IF "current" \in columns THEN Unset(t, row) ELSE rows
<1>2. There(term) \subseteq Terms /\ \A u \in There(term) : term[u] \in Term
  BY DEF There, StructureInv, StructureType
<1>3. row \in Term /\ ("current" \notin columns => row.current = term[t].current)
  BY <1>2, OverlayRow
<1>4. InOrder(row) /\ Begin(r, "term", term, new)
  BY <1>1 DEF Checked
<1> HIDE DEF row
<1>5. CASE "current" \in columns
  <2>1. new = Unset(t, row) /\ t \in Terms
    BY <1>2, <1>5
  <2>2. TermFits(term, new) /\ Timely(term, new)
    BY <1>3, <1>4, <2>1, UnsetFits
  <2> HIDE DEF new
  <2>3. PlanFits("term", term, new)
    BY <2>2 DEF PlanFits
  <2> QED
    BY <1>4, <2>2, <2>3, BeginStep
<1>6. CASE "current" \notin columns
  <2>1. new = rows
    BY <1>6
  <2>2. DOMAIN rows = There(term) /\ rows[t] = row
        /\ \A u \in There(term) \ {t} : rows[u] = term[u]
    OBVIOUS
  <2> HIDE DEF new, rows
  <2>3. \A u \in DOMAIN rows : rows[u] \in Term /\ rows[u].current = term[u].current
    BY <1>2, <1>3, <1>6, <2>2
  <2>4. TermFits(term, rows)
    BY <1>2, <2>2, <2>3 DEF TermFits, There
  <2>5. Coherent => RowsCoherent(rows)
    BY <1>4, <2>2, <2>3 DEF Coherent, RowsCoherent
  <2>6. Timely(term, rows)
    BY <2>2, <2>5 DEF Timely
  <2>7. PlanFits("term", term, rows)
    BY <2>4 DEF PlanFits
  <2> QED
    BY <1>4, <2>1, <2>6, <2>7, BeginStep
<1> QED
  BY <1>5, <1>6

-----------------------------------------------------------------------------
\* Creating a class plans a row that is free.
LEMMA CreateClassStep ==
    ASSUME StructureInv, NEW r \in Requests, LoadCreateClass(r)
    PROVE  StructureInv'
<1>1. PICK c \in Unused(r, order, "create_class"), n \in NextOrders :
          Begin(r, "create_class", None, [d \in {c} |-> n])
  BY DEF LoadCreateClass
<1> DEFINE new == [d \in {c} |-> n]
<1>2. n \in Nat
  BY DEF NextOrders, There, StructureInv, StructureType
<1>3. c \in Classes /\ order[c] = None
      /\ \A q \in Requests \ {r} : Plans(q, "create_class") => c \notin DOMAIN req[q].new
  BY DEF Unused, There, StructureInv, StructureType
<1>4. DOMAIN new = {c} /\ new[c] = n
  OBVIOUS
<1>5. Begin(r, "create_class", None, new)
  BY <1>1
<1> HIDE DEF new
<1>6. PlanFits("create_class", None, new)
  BY <1>2, <1>3, <1>4 DEF PlanFits, NewClassFits
<1>7. \A q \in Requests \ {r} :
          Plans(q, "create_class") => DOMAIN new \cap DOMAIN req[q].new = {}
  BY <1>3, <1>4
<1> QED
  BY <1>5, <1>6, <1>7, BeginStep

\* A reordering plans positions for the classes there are, alone.
LEMMA ReorderStep ==
    ASSUME StructureInv, NEW r \in Requests, LoadReorder(r)
    PROVE  StructureInv'
<1>1. PICK new \in Orders(There(order)) : Begin(r, "reorder", order, new)
  BY DEF LoadReorder
<1>2. Locked = {} /\ There(order) # {}
  BY DEF LoadReorder
<1>3. There(order) \subseteq Classes
  BY DEF There, StructureInv, StructureType
<1>4. Cardinality(There(order)) \in Nat
  <2>1. IsFiniteSet(There(order))
    BY <1>3, StructureAssumption, FS_Subset
  <2> QED
    BY <2>1, FS_CardinalityType
<1>5. DOMAIN new = There(order) /\ \A c \in There(order) : new[c] \in Nat
  BY <1>4 DEF Orders
<1>6. PlanFits("reorder", order, new)
  BY <1>2, <1>3, <1>5 DEF PlanFits, ReorderFits, There
<1>7. ASSUME NEW q \in Requests, Plans(q, "reorder")
      PROVE  FALSE
  <2>1. DOMAIN req[q].new # {}
    BY <1>7 DEF StructureInv, PlansFit, PlanFits, ReorderFits, Plans
  <2>2. DOMAIN req[q].new \subseteq Locked
    BY <1>7 DEF Locked
  <2> QED
    BY <1>2, <2>1, <2>2
<1> QED
  BY <1>1, <1>6, <1>7, BeginStep

\* The deletions and the creation of a section plan what fits.
LEMMA SectionLoadStep ==
    ASSUME StructureInv, NEW r \in Requests,
           LoadDeleteClass(r) \/ LoadCreateSection(r) \/ LoadDeleteSection(r)
    PROVE  StructureInv'
<1>1. CASE LoadDeleteClass(r)
  <2>1. PICK c \in There(order) : Begin(r, "delete_class", None, c)
    BY <1>1 DEF LoadDeleteClass
  <2>2. PlanFits("delete_class", None, c)
    BY DEF PlanFits, There, StructureInv, StructureType
  <2> QED
    BY <2>1, <2>2, BeginStep
<1>2. CASE LoadCreateSection(r)
  <2>1. PICK x \in Unused(r, section, "create_section"), c \in There(order) :
            Begin(r, "create_section", None, [y \in {x} |-> c])
    BY <1>2 DEF LoadCreateSection
  <2>2. x \in Sections /\ c \in Classes
    BY DEF Unused, There, StructureInv, StructureType
  <2>3. PlanFits("create_section", None, [y \in {x} |-> c])
    BY <2>2 DEF PlanFits, SectionFits
  <2> QED
    BY <2>1, <2>3, BeginStep
<1>3. CASE LoadDeleteSection(r)
  <2>1. PICK x \in There(section) : Begin(r, "delete_section", None, x)
    BY <1>3 DEF LoadDeleteSection
  <2>2. PlanFits("delete_section", None, x)
    BY DEF PlanFits, There, StructureInv, StructureType
  <2> QED
    BY <2>1, <2>2, BeginStep
<1> QED
  BY <1>1, <1>2, <1>3

\* So do the placement and the move of a student.
LEMMA StudentLoadStep ==
    ASSUME StructureInv, NEW r \in Requests, LoadPlace(r) \/ LoadMove(r)
    PROVE  StructureInv'
<1>1. ASSUME NEW x \in There(section), NEW active \in BOOLEAN
      PROVE  [class |-> section[x], section |-> x, active |-> active] \in Place
  BY DEF Place, There, StructureInv, StructureType
<1>2. CASE LoadPlace(r)
  <2>1. PICK s \in Unused(r, placed, "place"), x \in There(section) :
            Begin(r, "place", None,
                  [t \in {s} |-> [class |-> section[x], section |-> x, active |-> TRUE]])
    BY <1>2 DEF LoadPlace
  <2> DEFINE n == [class |-> section[x], section |-> x, active |-> TRUE]
             new == [t \in {s} |-> n]
  <2>2. n \in Place
    BY <1>1
  <2>3. s \in Students
    BY DEF Unused, StructureInv, StructureType
  <2>4. Begin(r, "place", None, new)
    BY <2>1
  <2> HIDE DEF n
  <2>5. PlanFits("place", None, new)
    BY <2>2, <2>3 DEF PlanFits, PlaceFits
  <2> HIDE DEF new
  <2> QED
    BY <2>4, <2>5, BeginStep
<1>3. CASE LoadMove(r)
  <2>1. PICK s \in There(placed), x \in There(section), active \in BOOLEAN :
            Begin(r, "move", [t \in {s} |-> placed[s]],
                  [t \in {s} |-> [class |-> section[x], section |-> x, active |-> active]])
    BY <1>3 DEF LoadMove
  <2> DEFINE n == [class |-> section[x], section |-> x, active |-> active]
             new == [t \in {s} |-> n]
             seen == [t \in {s} |-> placed[s]]
  <2>2. n \in Place
    BY <1>1
  <2>3. s \in Students /\ placed[s] \in Place /\ placed[s] # None
    BY DEF There, StructureInv, StructureType
  <2>4. Begin(r, "move", seen, new)
    BY <2>1
  <2> HIDE DEF n
  <2>5. PlanFits("move", seen, new)
    BY <2>2, <2>3 DEF PlanFits, PlaceFits, MoveFits
  <2> HIDE DEF new, seen
  <2> QED
    BY <2>4, <2>5, BeginStep
<1> QED
  BY <1>2, <1>3

-----------------------------------------------------------------------------
\* What the commits do to the plans of the others: a table keeps what they rely on.
LEMMA PlansStayFit ==
    ASSUME NEW op, NEW seen, NEW new, PlanFits(op, seen, new),
           op = "term" => \A t \in DOMAIN new : term[t] # None => term'[t] # None,
           op = "create_class" => \A c \in DOMAIN new : order[c] = None => order'[c] = None,
           op = "reorder" => \A c \in DOMAIN new : order'[c] = order[c],
           op = "move" => \A s \in DOMAIN new : placed[s] # None => placed'[s] # None
    PROVE  PlanFits(op, seen, new)'
BY DEF PlanFits, TermFits, NewClassFits, ReorderFits, SectionFits, PlaceFits, MoveFits

\* The end of a request that leaves the sessions alone.
LEMMA EndStep ==
    ASSUME StructureInv, NEW r \in Requests, Ends(r), term' = term,
           order' \in [Classes -> Nat \cup {None}], section' \in [Sections -> Classes \cup {None}],
           placed' \in [Students -> Place \cup {None}], sent' \in [Classes -> Nat \cup {None}],
           \A q \in Requests \ {r} : Plans(q, "create_class") =>
               \A c \in DOMAIN req[q].new : order[c] = None => order'[c] = None,
           \A q \in Requests \ {r} : Plans(q, "reorder") =>
               \A c \in DOMAIN req[q].new : order'[c] = order[c],
           \A s \in Students : placed[s] # None => placed'[s] # None,
           SentThere', PlacesExist', OrderIsTheOneSent'
    PROVE  StructureInv'
<1>1. DOMAIN req' = Requests /\ req'[r] = None /\ \A q \in Requests \ {r} : req'[q] = req[q]
  BY DEF Ends, StructureInv, StructureType
<1>2. StructureType'
  BY <1>1 DEF StructureInv, StructureType
<1>3. PlansFit'
  <2> SUFFICES ASSUME NEW q \in Requests, req'[q] # None
               PROVE  PlanFits(req[q].op, req[q].seen, req[q].new)'
    BY DEF PlansFit
  <2>1. q # r /\ req'[q] = req[q]
    BY <1>1
  <2>2. PICK op, seen, new : op = req[q].op /\ seen = req[q].seen /\ new = req[q].new
    OBVIOUS
  <2>3. PlanFits(op, seen, new)
    BY <2>1, <2>2 DEF StructureInv, PlansFit
  <2>4. op = "create_class" => \A c \in DOMAIN new : order[c] = None => order'[c] = None
    BY <2>1, <2>2 DEF Plans
  <2>5. op = "reorder" => \A c \in DOMAIN new : order'[c] = order[c]
    BY <2>1, <2>2 DEF Plans
  <2>6. op = "move" => \A s \in DOMAIN new : placed[s] # None => placed'[s] # None
    BY <2>3 DEF PlanFits, PlaceFits
  <2>7. PlanFits(op, seen, new)'
    BY <2>3, <2>4, <2>5, <2>6, PlansStayFit
  <2> QED
    BY <2>1, <2>2, <2>7
<1>4. TermsFresh'
  BY <1>1 DEF StructureInv, TermsFresh, Plans, Timely, There, Coherent
<1>5. IdsApart' /\ OneReorder'
  BY <1>1 DEF StructureInv, IdsApart, OneReorder, Plans
<1> QED
  BY <1>2, <1>3, <1>4, <1>5 DEF StructureInv

\* The columns that differ from the load, written over a row, leave a row.
LEMMA WrittenTerm ==
    ASSUME NEW seen \in Term, NEW new \in Term, NEW there \in Term
    PROVE  /\ Written(seen, new, there) \in Term
           /\ seen = there => Written(seen, new, there) = new
<1>1. DOMAIN new = {"start", "end", "current"} /\ DOMAIN there = {"start", "end", "current"}
  BY DEF Term
<1>2. Written(seen, new, there) \in Term
  BY DEF Written, Term
<1>3. seen = there => Written(seen, new, there) = new
  BY <1>1 DEF Written, Term
<1> QED
  BY <1>2, <1>3

\* Saving sessions: rows stay rows, and no other plan counts as timely any more.
LEMMA CommitTermStep ==
    ASSUME StructureInv, NEW r \in Requests, CommitTerm(r)
    PROVE  StructureInv'
<1> DEFINE seen == req[r].seen
           new == req[r].new
<1>1. /\ term' = [t \in Terms |-> IF t \notin DOMAIN new THEN term[t]
                                  ELSE IF seen[t] = None THEN new[t]
                                  ELSE Written(seen[t], new[t], term[t])]
      /\ UNCHANGED <<order, section, placed, work, sent>>
  BY DEF CommitTerm
<1>2. TermFits(seen, new)
  BY DEF CommitTerm, Plans, StructureInv, PlansFit, PlanFits
<1> HIDE DEF seen, new
<1>3. ASSUME NEW t \in Terms
      PROVE  /\ term'[t] \in Term \cup {None}
             /\ term[t] # None => term'[t] # None
  <2>1. term[t] \in Term \cup {None}
    BY DEF StructureInv, StructureType
  <2>2. CASE t \notin DOMAIN new
    BY <1>1, <2>1, <2>2
  <2>3. CASE t \in DOMAIN new /\ seen[t] = None
    BY <1>1, <1>2, <2>3, NoneIsNoRow DEF TermFits
  <2>4. CASE t \in DOMAIN new /\ seen[t] # None
    <3>1. seen[t] \in Term /\ new[t] \in Term /\ term[t] \in Term
      BY <1>2, <2>1, <2>4 DEF TermFits
    <3>2. Written(seen[t], new[t], term[t]) \in Term
      BY <3>1, WrittenTerm
    <3> QED
      BY <1>1, <2>4, <3>2, NoneIsNoRow
  <2> QED
    BY <2>2, <2>3, <2>4
<1>4. DOMAIN req' = Requests
      /\ \A q \in Requests : req'[q] # None =>
            /\ req[q] # None
            /\ DOMAIN req'[q] = {"op", "seen", "new", "fresh"}
            /\ req'[q].op = req[q].op /\ req'[q].seen = req[q].seen /\ req'[q].new = req[q].new
            /\ req'[q].fresh = FALSE
  <2>1. req' = [q \in Requests |-> IF q = r \/ req[q] = None THEN None
                                   ELSE [req[q] EXCEPT !.fresh = FALSE]]
    BY DEF CommitTerm
  <2>2. ASSUME NEW q \in Requests, req'[q] # None
        PROVE  /\ req[q] # None
               /\ DOMAIN req'[q] = {"op", "seen", "new", "fresh"}
               /\ req'[q].op = req[q].op /\ req'[q].seen = req[q].seen
               /\ req'[q].new = req[q].new /\ req'[q].fresh = FALSE
    <3>1. req[q] # None /\ req'[q] = [req[q] EXCEPT !.fresh = FALSE]
      BY <2>1, <2>2
    <3>2. DOMAIN req[q] = {"op", "seen", "new", "fresh"}
      BY <3>1 DEF StructureInv, StructureType
    <3> QED
      BY <3>1, <3>2
  <2> QED
    BY <2>1, <2>2
<1>5. StructureType'
  <2>1. term' \in [Terms -> Term \cup {None}]
    BY <1>1, <1>3
  <2> QED
    BY <1>1, <1>4, <2>1 DEF StructureInv, StructureType
<1>6. PlansFit'
  <2> SUFFICES ASSUME NEW q \in Requests, req'[q] # None
               PROVE  PlanFits(req[q].op, req[q].seen, req[q].new)'
    BY DEF PlansFit
  <2>1. PICK o, s, n : o = req[q].op /\ s = req[q].seen /\ n = req[q].new
    OBVIOUS
  <2>2. PlanFits(o, s, n)
    BY <1>4, <2>1 DEF StructureInv, PlansFit
  <2>3. o = "term" => \A t \in DOMAIN n : term[t] # None => term'[t] # None
    BY <1>3, <2>2 DEF PlanFits, TermFits
  <2>4. PlanFits(o, s, n)'
    BY <1>1, <2>2, <2>3, PlansStayFit
  <2> QED
    BY <1>4, <2>1, <2>4
<1>7. TermsFresh'
  BY <1>4 DEF TermsFresh, Plans
<1>8. IdsApart' /\ OneReorder'
  BY <1>4 DEF StructureInv, IdsApart, OneReorder, Plans
<1>9. SentThere' /\ PlacesExist' /\ OrderIsTheOneSent'
  BY <1>1 DEF StructureInv, SentThere, PlacesExist, OrderIsTheOneSent, There
<1> QED
  BY <1>5, <1>6, <1>7, <1>8, <1>9 DEF StructureInv

\* A new class takes a free row: the sections, the students and the order that was
\* sent are about other rows.
LEMMA CommitCreateClassStep ==
    ASSUME StructureInv, NEW r \in Requests, CommitCreateClass(r)
    PROVE  StructureInv'
<1> DEFINE new == req[r].new
<1>1. order' = Overlay(new, order) /\ Ends(r) /\ UNCHANGED <<term, section, placed, sent>>
  BY DEF CommitCreateClass
<1>2. NewClassFits(new)
  BY DEF CommitCreateClass, Plans, StructureInv, PlansFit, PlanFits
<1>3. \A q \in Requests \ {r} : Plans(q, "create_class") => DOMAIN req[q].new \cap DOMAIN new = {}
  BY DEF CommitCreateClass, StructureInv, IdsApart
<1> HIDE DEF new
<1>4. order \in [Classes -> Nat \cup {None}]
  BY DEF StructureInv, StructureType
<1>5. /\ order' \in [Classes -> Nat \cup {None}]
      /\ \A c \in Classes : c \notin DOMAIN new => order'[c] = order[c]
      /\ \A c \in Classes : order[c] # None => order'[c] = order[c]
  BY <1>1, <1>2, <1>4 DEF Overlay, NewClassFits
<1>6. \A q \in Requests \ {r} : Plans(q, "create_class") =>
          \A c \in DOMAIN req[q].new : order[c] = None => order'[c] = None
  BY <1>3, <1>5 DEF Plans, StructureInv, PlansFit, PlanFits, NewClassFits
<1>7. \A q \in Requests \ {r} : Plans(q, "reorder") =>
          \A c \in DOMAIN req[q].new : order'[c] = order[c]
  BY <1>5 DEF Plans, StructureInv, PlansFit, PlanFits, ReorderFits
<1>8. SentThere' /\ OrderIsTheOneSent'
  BY <1>1, <1>5 DEF StructureInv, StructureType, SentThere, OrderIsTheOneSent, There
<1>9. PlacesExist'
  BY <1>1, <1>5 DEF StructureInv, StructureType, PlacesExist, There
<1> QED
  BY <1>1, <1>5, <1>6, <1>7, <1>8, <1>9, EndStep DEF StructureInv, StructureType

\* The classes get the positions that were sent, all of them: none has been moved or
\* deleted since the reordering read it.
LEMMA CommitReorderStep ==
    ASSUME StructureInv, NEW r \in Requests, CommitReorder(r)
    PROVE  StructureInv'
<1> DEFINE seen == req[r].seen
           new == req[r].new
<1>1. /\ order' = [c \in Classes |-> IF c \in DOMAIN new /\ new[c] # seen[c] /\ order[c] # None
                                     THEN new[c] ELSE order[c]]
      /\ sent' = [c \in Classes |-> IF c \in DOMAIN new THEN new[c] ELSE None]
      /\ Ends(r) /\ UNCHANGED <<term, section, placed>>
  BY DEF CommitReorder
<1>2. ReorderFits(seen, new)
  BY DEF CommitReorder, Plans, StructureInv, PlansFit, PlanFits
<1>3. \A q \in Requests \ {r} : ~ Plans(q, "reorder")
  BY DEF CommitReorder, StructureInv, OneReorder
<1> HIDE DEF seen, new
<1>4. order \in [Classes -> Nat \cup {None}]
  BY DEF StructureInv, StructureType
<1>5. /\ order' \in [Classes -> Nat \cup {None}]
      /\ sent' \in [Classes -> Nat \cup {None}]
      /\ \A c \in Classes : order[c] = None <=> order'[c] = None
      /\ \A c \in DOMAIN new : order'[c] = new[c] /\ sent'[c] = new[c]
  BY <1>1, <1>2, <1>4, NoneIsNoRow DEF ReorderFits
<1>6. SentThere' /\ OrderIsTheOneSent'
  BY <1>1, <1>2, <1>5, NoneIsNoRow DEF SentThere, OrderIsTheOneSent, There, ReorderFits
<1>7. PlacesExist'
  BY <1>1, <1>5 DEF StructureInv, StructureType, PlacesExist, There
<1>8. \A q \in Requests \ {r} : Plans(q, "create_class") =>
          \A c \in DOMAIN req[q].new : order[c] = None => order'[c] = None
  BY <1>5 DEF Plans, StructureInv, PlansFit, PlanFits, NewClassFits
<1> QED
  BY <1>1, <1>3, <1>5, <1>6, <1>7, <1>8, EndStep DEF StructureInv, StructureType

\* The row of a student after an update is a place.
LEMMA WrittenPlace ==
    ASSUME NEW seen \in Place, NEW new \in Place, NEW there \in Place
    PROVE  Written(seen, new, there) \in Place
BY DEF Written, Place

\* The students after a placement or a move: all have places, and none disappears.
LEMMA PlacementFits ==
    ASSUME StructureInv, NEW r \in Requests, req[r] # None, req[r].op \in {"place", "move"}
    PROVE  /\ Placement(r) \in [Students -> Place \cup {None}]
           /\ \A s \in Students : placed[s] # None => Placement(r)[s] # None
<1>1. PlaceFits(req[r].new) /\ (req[r].op = "move" => MoveFits(req[r].seen, req[r].new))
  BY DEF StructureInv, PlansFit, PlanFits
<1>2. placed \in [Students -> Place \cup {None}]
  BY DEF StructureInv, StructureType
<1>3. ASSUME NEW s \in Students
      PROVE  /\ Placement(r)[s] \in Place \cup {None}
             /\ placed[s] # None => Placement(r)[s] # None
  <2>1. CASE s \notin DOMAIN req[r].new
    BY <1>2, <2>1 DEF Placement
  <2>2. CASE s \in DOMAIN req[r].new /\ req[r].op = "place"
    BY <1>1, <2>2, NoneIsNoRow DEF Placement, PlaceFits
  <2>3. CASE s \in DOMAIN req[r].new /\ req[r].op = "move"
    <3>1. Written(req[r].seen[s], req[r].new[s], placed[s]) \in Place
      BY <1>1, <1>2, <2>3, WrittenPlace DEF PlaceFits, MoveFits
    <3> QED
      BY <2>3, <3>1, NoneIsNoRow DEF Placement
  <2> QED
    BY <2>1, <2>2, <2>3
<1>4. Placement(r) = [s \in Students |-> Placement(r)[s]]
  BY DEF Placement
<1> QED
  BY <1>3, <1>4

\* Whatever a commit refers to is there, by the foreign keys; the classes of a
\* reordering are not deleted, by its locks.
LEMMA CommitStep ==
    ASSUME StructureInv, NEW r \in Requests, Commit(r)
    PROVE  StructureInv'
<1>1. /\ req[r] # None /\ req[r].op \in Referring
      /\ Awaits(r) \cap Locked = {}
      /\ References(order', section', placed')
      /\ order' = OrderAfter(r) /\ section' = SectionAfter(r) /\ placed' = PlacedAfter(r)
      /\ sent' = [c \in Classes |-> IF OrderAfter(r)[c] = None THEN None ELSE sent[c]]
      /\ Ends(r) /\ term' = term
  BY DEF Commit
<1>2. /\ order \in [Classes -> Nat \cup {None}] /\ section \in [Sections -> Classes \cup {None}]
      /\ placed \in [Students -> Place \cup {None}] /\ sent \in [Classes -> Nat \cup {None}]
  BY DEF StructureInv, StructureType
<1>3. PlanFits(req[r].op, req[r].seen, req[r].new)
  BY <1>1 DEF StructureInv, PlansFit
<1>4. /\ order' \in [Classes -> Nat \cup {None}]
      /\ \A c \in Classes : order[c] = None => order'[c] = None
      /\ \A c \in Classes : c \in Locked => order'[c] = order[c]
      /\ \A c \in Classes : order'[c] # None => order'[c] = order[c]
  <2>1. CASE req[r].op = "delete_class"
    <3>1. req[r].new \in Classes /\ order' = [order EXCEPT ![req[r].new] = None]
      BY <1>1, <1>3, <2>1 DEF PlanFits, OrderAfter
    <3>2. req[r].new \notin Locked
      BY <1>1, <2>1 DEF Awaits
    <3> QED
      BY <1>2, <3>1, <3>2
  <2>2. CASE req[r].op # "delete_class"
    BY <1>1, <1>2, <2>2 DEF OrderAfter
  <2> QED
    BY <2>1, <2>2
<1>5. section' \in [Sections -> Classes \cup {None}]
  <2>1. CASE req[r].op = "delete_class"
    BY <1>1, <1>2, <2>1 DEF SectionAfter
  <2>2. CASE req[r].op = "delete_section"
    <3>1. section' = [section EXCEPT ![req[r].new] = None]
      BY <1>1, <2>2 DEF SectionAfter
    <3> QED
      BY <1>2, <3>1
  <2>3. CASE req[r].op = "create_section"
    <3>1. SectionFits(req[r].new) /\ section' = Overlay(req[r].new, section)
      BY <1>1, <1>3, <2>3 DEF PlanFits, SectionAfter
    <3> QED
      BY <1>2, <3>1 DEF SectionFits, Overlay
  <2>4. CASE req[r].op \in {"place", "move"}
    BY <1>1, <1>2, <2>4 DEF SectionAfter
  <2> QED
    BY <1>1, <2>1, <2>2, <2>3, <2>4 DEF Referring
<1>6. /\ placed' \in [Students -> Place \cup {None}]
      /\ \A s \in Students : placed[s] # None => placed'[s] # None
  <2>1. CASE req[r].op \in {"place", "move"}
    BY <1>1, <2>1, PlacementFits DEF PlacedAfter
  <2>2. CASE req[r].op \notin {"place", "move"}
    BY <1>1, <1>2, <2>2 DEF PlacedAfter
  <2> QED
    BY <2>1, <2>2
<1>7. sent' \in [Classes -> Nat \cup {None}]
  BY <1>1, <1>2
<1>8. PlacesExist'
  <2>1. \A y \in There(section)' : section'[y] \in Classes /\ order'[section'[y]] # None
    BY <1>1, <1>5 DEF References, There
  <2>2. ASSUME NEW s \in There(placed)'
        PROVE  /\ placed'[s].section \in There(section)'
               /\ section'[placed'[s].section] = placed'[s].class
    <3>1. placed'[s] \in Place
      BY <1>6 DEF There
    <3>2. placed'[s].class \in Classes /\ placed'[s].section \in Sections
      BY <3>1 DEF Place
    <3>3. section'[placed'[s].section] = placed'[s].class
      BY <1>1 DEF References
    <3> QED
      BY <1>5, <3>2, <3>3, NoneIsNoRow DEF There
  <2>3. \A y \in There(section)' : section'[y] \in There(order)'
    BY <1>4, <2>1 DEF There
  <2> QED
    BY <2>2, <2>3 DEF PlacesExist
<1>9. SentThere' /\ OrderIsTheOneSent'
  <2>1. sent' = [c \in Classes |-> IF order'[c] = None THEN None ELSE sent[c]]
    BY <1>1
  <2> QED
    BY <1>2, <1>4, <2>1 DEF StructureInv, SentThere, OrderIsTheOneSent, There
<1>10. \A q \in Requests \ {r} : Plans(q, "create_class") =>
          \A c \in DOMAIN req[q].new : order[c] = None => order'[c] = None
  BY <1>4 DEF Plans, StructureInv, PlansFit, PlanFits, NewClassFits
<1>11. ASSUME NEW q \in Requests \ {r}, Plans(q, "reorder"), NEW c \in DOMAIN req[q].new
       PROVE  order'[c] = order[c]
  <2>1. c \in Classes
    BY <1>11 DEF Plans, StructureInv, PlansFit, PlanFits, ReorderFits
  <2>2. c \in Locked
    BY <1>11 DEF Locked
  <2> QED
    BY <1>4, <2>1, <2>2
<1> QED
  BY <1>1, <1>4, <1>5, <1>6, <1>7, <1>8, <1>9, <1>10, <1>11, EndStep

\* A request that fails leaves nothing.
LEMMA AbortStep ==
    ASSUME StructureInv, NEW r \in Requests, Abort(r)
    PROVE  StructureInv'
<1>1. Ends(r) /\ UNCHANGED <<term, order, section, placed, sent>>
  BY DEF Abort
<1>2. SentThere' /\ PlacesExist' /\ OrderIsTheOneSent'
  BY <1>1 DEF StructureInv, SentThere, PlacesExist, OrderIsTheOneSent, There
<1> QED
  BY <1>1, <1>2, EndStep DEF StructureInv, StructureType

\* The initial tables have the invariant.
LEMMA StructureInit ==
    ASSUME Init
    PROVE  StructureInv
<1>1. req = [r \in Requests |-> None] /\ sent = [c \in Classes |-> None]
  BY DEF Init
<1>2. term \in [Terms -> Term \cup {None}]
  <2>1. PICK T \in SUBSET Terms :
      term = [t \in Terms |-> IF t \in T THEN [start |-> None, end |-> None, current |-> FALSE]
                              ELSE None]
    BY DEF Init
  <2>2. [start |-> None, end |-> None, current |-> FALSE] \in Term
    BY DEF Term, Dated
  <2> QED
    BY <2>1, <2>2
<1>3. order \in [Classes -> Nat \cup {None}]
  <2>1. PICK C \in SUBSET Classes :
      \E f \in Orders(C) : order = [c \in Classes |-> IF c \in C THEN f[c] ELSE None]
    BY DEF Init
  <2>2. Cardinality(C) \in Nat
    BY StructureAssumption, FS_Subset, FS_CardinalityType
  <2> QED
    BY <2>1, <2>2 DEF Orders
<1>4. section \in [Sections -> Classes \cup {None}]
      /\ \A x \in There(section) : section[x] \in There(order)
  BY <1>3 DEF Init, There
<1>5. PICK active \in BOOLEAN, x \in There(section) \cup {None} :
        placed = [s \in Students |-> IF x = None THEN None
                     ELSE [class |-> section[x], section |-> x, active |-> active]]
  BY DEF Init
<1>6. /\ placed \in [Students -> Place \cup {None}]
      /\ \A s \in There(placed) : placed[s].section = x /\ placed[s].class = section[x]
                                  /\ x \in There(section)
  <2>1. CASE x = None
    BY <1>5, <2>1 DEF There
  <2>2. CASE x # None
    <3>1. x \in There(section) /\ section[x] \in Classes /\ x \in Sections
      BY <1>4, <2>2 DEF There
    <3>2. [class |-> section[x], section |-> x, active |-> active] \in Place
      BY <3>1 DEF Place
    <3> QED
      BY <1>5, <2>2, <3>1, <3>2 DEF There
  <2> QED
    BY <2>1, <2>2
<1>7. PlacesExist
  BY <1>4, <1>6 DEF PlacesExist
<1> QED
  BY <1>1, <1>2, <1>3, <1>4, <1>6, <1>7 DEF StructureInv, StructureType, PlansFit, TermsFresh,
     IdsApart, OneReorder, Plans, SentThere, OrderIsTheOneSent, There

\* Every step keeps the invariant.
LEMMA StructureNext ==
    ASSUME StructureInv, [Next]_vars
    PROVE  StructureInv'
<1>1. CASE UNCHANGED vars
  BY <1>1 DEF vars, StructureInv, StructureType, PlansFit, PlanFits, TermFits, NewClassFits,
     ReorderFits, SectionFits, PlaceFits, MoveFits, TermsFresh, Timely, Coherent, IdsApart,
     OneReorder, Plans, SentThere, PlacesExist, OrderIsTheOneSent, There
<1>2. ASSUME NEW r \in Requests, TermStep(r)
      PROVE  StructureInv'
  BY <1>2, CreateTermStep, UpdateTermStep, CommitTermStep, AbortStep DEF TermStep
<1>3. ASSUME NEW r \in Requests, ClassStep(r)
      PROVE  StructureInv'
  BY <1>3, CreateClassStep, ReorderStep, SectionLoadStep, StudentLoadStep, CommitCreateClassStep,
     CommitReorderStep, CommitStep, AbortStep DEF ClassStep
<1> QED
  BY <1>1, <1>2, <1>3 DEF Next

\* No step but the saving of sessions touches them.
LEMMA OthersLeaveTerms ==
    ASSUME [Next]_vars, \A r \in Requests : ~ CommitTerm(r)
    PROVE  term' = term
<1>2. ASSUME NEW r \in Requests, LoadCreateTerm(r) \/ LoadUpdateTerm(r)
      PROVE  term' = term
  BY <1>2 DEF LoadCreateTerm, LoadUpdateTerm, Begin
<1>3. ASSUME NEW r \in Requests, LoadCreateClass(r) \/ LoadReorder(r) \/ LoadDeleteClass(r)
      PROVE  term' = term
  BY <1>3 DEF LoadCreateClass, LoadReorder, LoadDeleteClass, Begin
<1>4. ASSUME NEW r \in Requests,
             LoadCreateSection(r) \/ LoadDeleteSection(r) \/ LoadPlace(r) \/ LoadMove(r)
      PROVE  term' = term
  BY <1>4 DEF LoadCreateSection, LoadDeleteSection, LoadPlace, LoadMove, Begin
<1>5. ASSUME NEW r \in Requests,
             CommitCreateClass(r) \/ CommitReorder(r) \/ Commit(r) \/ Abort(r)
      PROVE  term' = term
  BY <1>5 DEF CommitCreateClass, CommitReorder, Commit, Abort
<1> QED
  BY <1>2, <1>3, <1>4, <1>5 DEF Next, TermStep, ClassStep, vars

\* Saving what was planned for the table as it is leaves what was planned.
LEMMA TimelySave ==
    ASSUME StructureInv, NEW r \in Requests, CommitTerm(r), req[r].fresh, Coherent
    PROVE  Coherent'
<1> DEFINE new == req[r].new
<1>1. req[r].seen = term /\ There(term) \subseteq DOMAIN new /\ RowsCoherent(new)
  BY DEF CommitTerm, StructureInv, TermsFresh, Timely
<1>2. TermFits(term, new)
  BY <1>1 DEF CommitTerm, Plans, StructureInv, PlansFit, PlanFits
<1>3. term' = [t \in Terms |-> IF t \notin DOMAIN new THEN term[t]
                               ELSE IF term[t] = None THEN new[t]
                               ELSE Written(term[t], new[t], term[t])]
  BY <1>1 DEF CommitTerm
<1> HIDE DEF new
<1>4. ASSUME NEW t \in There(term)'
      PROVE  t \in DOMAIN new /\ term'[t] = new[t]
  <2>1. t \in Terms /\ term'[t] # None
    BY <1>3 DEF There
  <2>2. t \in DOMAIN new
    BY <1>1, <1>3, <2>1 DEF There, StructureInv, StructureType
  <2>3. CASE term[t] = None
    BY <1>3, <2>1, <2>2, <2>3
  <2>4. CASE term[t] # None
    <3>1. term[t] \in Term /\ new[t] \in Term
      BY <1>2, <2>2, <2>4 DEF TermFits
    <3>2. Written(term[t], new[t], term[t]) = new[t]
      BY <3>1, WrittenTerm
    <3> QED
      BY <1>3, <2>1, <2>2, <2>4, <3>2
  <2> QED
    BY <2>2, <2>3, <2>4
<1> QED
  BY <1>1, <1>4 DEF Coherent, RowsCoherent, InOrder

-----------------------------------------------------------------------------
\* A section is of one class from its creation on; when it is deleted its id is gone.
Stays(p) == section[p.section] = p.class \/ (section[p.section] = None /\ p.section \in gone)

\* The sections about to be created are new, and no two are the same; a placement is
\* to a section of its class, and one that keeps the section keeps the class.
NewSections(new) == \A x \in DOMAIN new : section[x] = None /\ x \notin gone
Whole(seen, new) == new.section = seen.section => new.class = seen.class
SectionPlan(op, seen, new) ==
    /\ op = "create_section" => NewSections(new)
    /\ op \in {"place", "move"} => \A s \in DOMAIN new : Stays(new[s])
    /\ op = "move" => \A s \in DOMAIN new : Whole(seen[s], new[s])
SectionsInv ==
    /\ \A r \in Requests : req[r] # None => SectionPlan(req[r].op, req[r].seen, req[r].new)
    /\ \A q, r \in Requests : Plans(q, "create_section") /\ Plans(r, "create_section") /\ q # r
           => DOMAIN req[q].new \cap DOMAIN req[r].new = {}

\* Recording a plan about sections that are as it says.
LEMMA SectionsBegin ==
    ASSUME StructureInv, SectionsInv, NEW r \in Requests, NEW op, NEW seen, NEW new,
           Begin(r, op, seen, new), gone' = gone, SectionPlan(op, seen, new),
           op = "create_section" => \A q \in Requests \ {r} :
               Plans(q, "create_section") => DOMAIN new \cap DOMAIN req[q].new = {}
    PROVE  SectionsInv'
<1> DEFINE p == [op |-> op, seen |-> seen, new |-> new, fresh |-> TRUE]
<1>1. section' = section /\ req' = [req EXCEPT ![r] = p]
  BY DEF Begin
<1>2. p.op = op /\ p.seen = seen /\ p.new = new
  OBVIOUS
<1> HIDE DEF p
<1>3. req'[r] = p /\ \A q \in Requests \ {r} : req'[q] = req[q]
  BY <1>1 DEF StructureInv, StructureType
<1>4. ASSUME NEW q \in Requests, req'[q] # None
      PROVE  SectionPlan(req[q].op, req[q].seen, req[q].new)'
  <2>1. PICK o, s, n : o = req'[q].op /\ s = req'[q].seen /\ n = req'[q].new
    OBVIOUS
  <2>2. SectionPlan(o, s, n)
    BY <1>2, <1>3, <1>4, <2>1 DEF SectionsInv
  <2>3. SectionPlan(o, s, n)'
    BY <1>1, <2>2 DEF SectionPlan, NewSections, Stays, Whole
  <2> QED
    BY <2>1, <2>3
<1> QED
  BY <1>2, <1>3, <1>4 DEF SectionsInv, Plans

\* A plan that is not about sections.
LEMMA SectionsBeginOther ==
    ASSUME StructureInv, SectionsInv, NEW r \in Requests, NEW op, NEW seen, NEW new,
           Begin(r, op, seen, new), gone' = gone,
           op \notin {"create_section", "place", "move"}
    PROVE  SectionsInv'
<1>1. SectionPlan(op, seen, new)
  BY DEF SectionPlan
<1> QED
  BY <1>1, SectionsBegin

\* The sections and students that the load steps plan for.
LEMMA SectionsLoad ==
    ASSUME StructureInv, SectionsInv, NEW r \in Requests, gone' = gone,
           \/ LoadCreateTerm(r) \/ LoadUpdateTerm(r)
           \/ LoadCreateClass(r) \/ LoadReorder(r) \/ LoadDeleteClass(r)
           \/ LoadCreateSection(r) \/ LoadDeleteSection(r) \/ LoadPlace(r) \/ LoadMove(r)
    PROVE  SectionsInv'
<1>1. CASE LoadCreateTerm(r)
  BY <1>1, SectionsBeginOther DEF LoadCreateTerm
<1>2. CASE LoadUpdateTerm(r)
  BY <1>2, SectionsBeginOther DEF LoadUpdateTerm
<1>3. CASE LoadCreateClass(r)
  BY <1>3, SectionsBeginOther DEF LoadCreateClass
<1>4. CASE LoadReorder(r) \/ LoadDeleteClass(r) \/ LoadDeleteSection(r)
  BY <1>4, SectionsBeginOther DEF LoadReorder, LoadDeleteClass, LoadDeleteSection
<1>5. CASE LoadCreateSection(r)
  <2>1. PICK x \in Unused(r, section, "create_section") \ gone, c \in There(order) :
            Begin(r, "create_section", None, [y \in {x} |-> c])
    BY <1>5 DEF LoadCreateSection
  <2>2. PICK new : new = [y \in {x} |-> c]
    OBVIOUS
  <2>3. section[x] = None /\ x \notin gone
    BY DEF Unused, There
  <2>4. SectionPlan("create_section", None, new)
    BY <2>2, <2>3 DEF SectionPlan, NewSections
  <2>5. \A q \in Requests \ {r} :
            Plans(q, "create_section") => DOMAIN new \cap DOMAIN req[q].new = {}
    BY <2>2 DEF Unused
  <2> QED
    BY <2>1, <2>2, <2>4, <2>5, SectionsBegin
<1>6. CASE LoadPlace(r)
  <2>1. PICK s \in Unused(r, placed, "place"), x \in There(section) :
            Begin(r, "place", None,
                  [t \in {s} |-> [class |-> section[x], section |-> x, active |-> TRUE]])
    BY <1>6 DEF LoadPlace
  <2>2. PICK new : new = [t \in {s} |-> [class |-> section[x], section |-> x, active |-> TRUE]]
    OBVIOUS
  <2>3. \A t \in DOMAIN new : new[t].class = section[x] /\ new[t].section = x
    BY <2>2
  <2>4. SectionPlan("place", None, new)
    BY <2>3 DEF SectionPlan, Stays
  <2> QED
    BY <2>1, <2>2, <2>4, SectionsBegin
<1>7. CASE LoadMove(r)
  <2>1. PICK s \in There(placed), x \in There(section), active \in BOOLEAN :
            Begin(r, "move", [t \in {s} |-> placed[s]],
                  [t \in {s} |-> [class |-> section[x], section |-> x, active |-> active]])
    BY <1>7 DEF LoadMove
  <2>2. PICK new, seen :
            /\ new = [t \in {s} |-> [class |-> section[x], section |-> x, active |-> active]]
            /\ seen = [t \in {s} |-> placed[s]]
    OBVIOUS
  <2>3. \A t \in DOMAIN new : /\ new[t].class = section[x] /\ new[t].section = x
                             /\ seen[t] = placed[s]
    BY <2>2
  <2>4. section[placed[s].section] = placed[s].class
    BY DEF StructureInv, PlacesExist
  <2>5. SectionPlan("move", seen, new)
    BY <2>3, <2>4 DEF SectionPlan, Stays, Whole
  <2> QED
    BY <2>1, <2>2, <2>5, SectionsBegin
<1> QED
  BY <1>1, <1>2, <1>3, <1>4, <1>5, <1>6, <1>7

\* Requests that go on have the plans they had, and the sections are the same.
LEMMA SectionsKept ==
    ASSUME SectionsInv, UNCHANGED <<section, gone>>,
           \A q \in Requests : req'[q] # None =>
               /\ req[q] # None /\ req'[q].op = req[q].op
               /\ req'[q].seen = req[q].seen /\ req'[q].new = req[q].new
    PROVE  SectionsInv'
<1>1. ASSUME NEW q \in Requests, req'[q] # None
      PROVE  SectionPlan(req[q].op, req[q].seen, req[q].new)'
  <2>1. PICK o, s, n : o = req[q].op /\ s = req[q].seen /\ n = req[q].new
    OBVIOUS
  <2>2. SectionPlan(o, s, n)
    BY <1>1, <2>1 DEF SectionsInv
  <2>3. SectionPlan(o, s, n)'
    BY <2>2 DEF SectionPlan, NewSections, Stays, Whole
  <2> QED
    BY <1>1, <2>1, <2>3
<1> QED
  BY <1>1 DEF SectionsInv, Plans

\* A commit creates sections that are new, and those it deletes are gone.
LEMMA SectionsCommit ==
    ASSUME StructureInv, SectionsInv, NEW r \in Requests, Commit(r)
    PROVE  SectionsInv'
<1>1. /\ req[r] # None /\ req[r].op \in Referring /\ section' = SectionAfter(r)
      /\ gone' = gone \cup {x \in There(section) : section'[x] = None} /\ Ends(r)
  BY DEF Commit
<1>2. req'[r] = None /\ \A q \in Requests \ {r} : req'[q] = req[q]
  BY <1>1 DEF Ends, StructureInv, StructureType
<1>3. section \in [Sections -> Classes \cup {None}]
  BY DEF StructureInv, StructureType
<1>4. /\ SectionPlan(req[r].op, req[r].seen, req[r].new)
      /\ PlanFits(req[r].op, req[r].seen, req[r].new)
  BY <1>1 DEF SectionsInv, StructureInv, PlansFit
<1> DEFINE Created == IF req[r].op = "create_section" THEN DOMAIN req[r].new ELSE {}
<1>5. ASSUME NEW x \in Sections
      PROVE  /\ x \notin Created => section'[x] \in {section[x], None}
             /\ x \in Created => section[x] = None /\ x \notin gone
  <2>1. CASE req[r].op = "delete_class"
    BY <1>1, <2>1 DEF SectionAfter
  <2>2. CASE req[r].op = "delete_section"
    <3>1. section' = [section EXCEPT ![req[r].new] = None]
      BY <1>1, <2>2 DEF SectionAfter
    <3> QED
      BY <1>3, <2>2, <3>1
  <2>3. CASE req[r].op = "create_section"
    <3>1. SectionFits(req[r].new) /\ section' = Overlay(req[r].new, section)
      BY <1>1, <1>4, <2>3 DEF PlanFits, SectionAfter
    <3>2. x \notin Created => section'[x] = section[x]
      BY <1>3, <2>3, <3>1 DEF SectionFits, Overlay
    <3> QED
      BY <1>4, <2>3, <3>2 DEF SectionPlan, NewSections
  <2>4. CASE req[r].op \in {"place", "move"}
    BY <1>1, <2>4 DEF SectionAfter
  <2> QED
    BY <1>1, <2>1, <2>2, <2>3, <2>4 DEF Referring
<1>6. ASSUME NEW p \in Place, Stays(p)
      PROVE  Stays(p)'
  <2>1. p.section \in Sections /\ p.class \in Classes
    BY DEF Place
  <2>2. p.section \notin Created
    BY <1>5, <1>6, <2>1, NoneIsNoRow DEF Stays
  <2>3. section'[p.section] \in {section[p.section], None}
    BY <1>5, <2>1, <2>2
  <2> QED
    BY <1>1, <1>3, <1>6, <2>1, <2>3, NoneIsNoRow DEF Stays, There
<1>7. ASSUME NEW q \in Requests, req'[q] # None
      PROVE  SectionPlan(req[q].op, req[q].seen, req[q].new)'
  <2>1. q # r /\ req[q] # None
    BY <1>2, <1>7
  <2>2. PICK o, s, n : o = req[q].op /\ s = req[q].seen /\ n = req[q].new
    OBVIOUS
  <2>3. SectionPlan(o, s, n) /\ PlanFits(o, s, n)
    BY <2>1, <2>2 DEF SectionsInv, StructureInv, PlansFit
  <2>4. ASSUME o = "create_section"
        PROVE  NewSections(n)'
    <3>1. DOMAIN n \cap Created = {}
      BY <1>1, <2>1, <2>2, <2>4 DEF SectionsInv, Plans
    <3>2. DOMAIN n \subseteq Sections /\ NewSections(n)
      BY <2>3, <2>4 DEF PlanFits, SectionFits, SectionPlan
    <3>3. \A x \in DOMAIN n : section'[x] = None
      BY <1>5, <3>1, <3>2 DEF NewSections
    <3> QED
      BY <1>1, <3>2, <3>3 DEF NewSections, There
  <2>5. ASSUME o \in {"place", "move"}, NEW x \in DOMAIN n
        PROVE  Stays(n[x])'
    <3>1. n[x] \in Place /\ Stays(n[x])
      BY <2>3, <2>5 DEF PlanFits, PlaceFits, SectionPlan
    <3> QED
      BY <1>6, <3>1
  <2>6. SectionPlan(o, s, n)'
    BY <2>3, <2>4, <2>5 DEF SectionPlan, Whole
  <2> QED
    BY <1>2, <2>1, <2>2, <2>6
<1> QED
  BY <1>2, <1>7 DEF SectionsInv, Plans

\* Every step keeps the sections in their classes.
LEMMA SectionsNext ==
    ASSUME StructureInv, SectionsInv, [Next]_vars
    PROVE  SectionsInv'
<1>1. CASE UNCHANGED vars
  BY <1>1, SectionsKept DEF vars
<1>2. ASSUME NEW r \in Requests,
             \/ LoadCreateTerm(r) \/ LoadUpdateTerm(r)
             \/ LoadCreateClass(r) \/ LoadReorder(r) \/ LoadDeleteClass(r)
             \/ LoadCreateSection(r) \/ LoadDeleteSection(r) \/ LoadPlace(r) \/ LoadMove(r)
      PROVE  SectionsInv'
  <2>1. gone' = gone
    BY <1>2 DEF LoadCreateTerm, LoadUpdateTerm, LoadCreateClass, LoadReorder, LoadDeleteClass,
       LoadCreateSection, LoadDeleteSection, LoadPlace, LoadMove, Begin
  <2> QED
    BY <1>2, <2>1, SectionsLoad
<1>3. ASSUME NEW r \in Requests, Ends(r), UNCHANGED <<section, gone>>
      PROVE  SectionsInv'
  BY <1>3, SectionsKept DEF Ends, StructureInv, StructureType
<1>4. ASSUME NEW r \in Requests, CommitCreateClass(r) \/ CommitReorder(r) \/ Abort(r)
      PROVE  SectionsInv'
  BY <1>3, <1>4 DEF CommitCreateClass, CommitReorder, Abort
<1>5. ASSUME NEW r \in Requests, CommitTerm(r)
      PROVE  SectionsInv'
  <2>1. /\ req' = [q \in Requests |-> IF q = r \/ req[q] = None THEN None
                                      ELSE [req[q] EXCEPT !.fresh = FALSE]]
        /\ UNCHANGED <<section, gone>>
    BY <1>5 DEF CommitTerm
  <2>2. ASSUME NEW q \in Requests, req'[q] # None
        PROVE  /\ req[q] # None /\ req'[q].op = req[q].op
               /\ req'[q].seen = req[q].seen /\ req'[q].new = req[q].new
    <3>1. req[q] # None /\ req'[q] = [req[q] EXCEPT !.fresh = FALSE]
      BY <2>1, <2>2
    <3>2. DOMAIN req[q] = {"op", "seen", "new", "fresh"}
      BY <3>1 DEF StructureInv, StructureType
    <3> QED
      BY <3>1, <3>2
  <2> QED
    BY <2>1, <2>2, SectionsKept
<1> QED
  BY <1>1, <1>2, <1>4, <1>5, SectionsCommit DEF Next, TermStep, ClassStep

\* What a commit leaves of a student's place is what its request asked for, or what
\* was there: a section that is written brings its class with it.
LEMMA CommitAsks ==
    ASSUME StructureInv, SectionsInv, NEW r \in Requests, Commit(r), NEW s \in Students,
           placed'[s] # None, ~ SamePlace(placed[s], placed'[s])
    PROVE  /\ Plans(r, "place") \/ Plans(r, "move")
           /\ req'[r] = None
           /\ s \in DOMAIN req[r].new /\ SamePlace(req[r].new[s], placed'[s])
<1>1. /\ req[r] # None /\ req'[r] = None
      /\ References(order', section', placed')
      /\ section' = SectionAfter(r) /\ placed' = PlacedAfter(r)
  BY DEF Commit, Ends, StructureInv, StructureType
<1>2. placed \in [Students -> Place \cup {None}] /\ section \in [Sections -> Classes \cup {None}]
  BY DEF StructureInv, StructureType
<1>3. /\ SectionPlan(req[r].op, req[r].seen, req[r].new)
      /\ PlanFits(req[r].op, req[r].seen, req[r].new)
  BY <1>1 DEF SectionsInv, StructureInv, PlansFit
<1>4. /\ req[r].op \in {"place", "move"} /\ s \in DOMAIN req[r].new
      /\ placed' = Placement(r) /\ section' = section
  <2>1. placed'[s] # placed[s]
    BY DEF SamePlace
  <2>2. req[r].op \in {"place", "move"} /\ placed' = Placement(r)
    BY <1>1, <2>1 DEF PlacedAfter
  <2> QED
    BY <1>1, <2>1, <2>2 DEF Placement, SectionAfter
<1>5. PICK new \in Place : new = req[r].new[s] /\ Stays(new)
  BY <1>3, <1>4 DEF PlanFits, PlaceFits, SectionPlan
<1>6. CASE req[r].op = "place"
  BY <1>1, <1>4, <1>5, <1>6, NoneIsNoRow DEF Placement, SamePlace, Plans
<1>7. CASE req[r].op = "move"
  <2>1. PICK seen \in Place : seen = req[r].seen[s] /\ Whole(seen, new)
    BY <1>3, <1>4, <1>5, <1>7 DEF PlanFits, MoveFits, SectionPlan
  <2>2. PICK there \in Place : there = placed[s]
    BY <1>2, <1>3, <1>4, <1>7 DEF PlanFits, MoveFits
  <2>3. placed'[s] = Written(seen, new, there)
    BY <1>4, <1>5, <1>7, <2>1, <2>2 DEF Placement
  <2>4. /\ placed'[s].section = IF new.section # seen.section THEN new.section ELSE there.section
        /\ placed'[s].class = IF new.class # seen.class THEN new.class ELSE there.class
    BY <2>3 DEF Written, Place
  <2>5. section[placed'[s].section] = placed'[s].class
    BY <1>1, <1>4 DEF References, There, Placement
  <2>6. placed'[s].class \in Classes
    BY <2>4 DEF Place
  <2>7. new.section # seen.section
    BY <2>1, <2>2, <2>4, NoneIsNoRow DEF Whole, SamePlace
  <2>8. new.class = placed'[s].class
    BY <1>5, <2>4, <2>5, <2>6, <2>7, NoneIsNoRow DEF Stays
  <2> QED
    BY <1>1, <1>4, <1>5, <1>7, <2>4, <2>7, <2>8, NoneIsNoRow DEF SamePlace, Plans
<1> QED
  BY <1>4, <1>6, <1>7

\* No other step touches the students' places.
LEMMA OthersLeavePlaces ==
    ASSUME [Next]_vars, \A r \in Requests : ~ Commit(r)
    PROVE  placed' = placed
<1>1. ASSUME NEW r \in Requests, LoadCreateTerm(r) \/ LoadUpdateTerm(r) \/ LoadCreateClass(r)
      PROVE  placed' = placed
  BY <1>1 DEF LoadCreateTerm, LoadUpdateTerm, LoadCreateClass, Begin
<1>2. ASSUME NEW r \in Requests, LoadReorder(r) \/ LoadDeleteClass(r)
      PROVE  placed' = placed
  BY <1>2 DEF LoadReorder, LoadDeleteClass, Begin
<1>3. ASSUME NEW r \in Requests,
             LoadCreateSection(r) \/ LoadDeleteSection(r) \/ LoadPlace(r) \/ LoadMove(r)
      PROVE  placed' = placed
  BY <1>3 DEF LoadCreateSection, LoadDeleteSection, LoadPlace, LoadMove, Begin
<1>4. ASSUME NEW r \in Requests,
             CommitTerm(r) \/ CommitCreateClass(r) \/ CommitReorder(r) \/ Abort(r)
      PROVE  placed' = placed
  BY <1>4 DEF CommitTerm, CommitCreateClass, CommitReorder, Abort
<1> QED
  BY <1>1, <1>2, <1>3, <1>4 DEF Next, TermStep, ClassStep, vars

-----------------------------------------------------------------------------
(***************************************************************************)
(* The imports.                                                            *)
(***************************************************************************)
\* Where a student was inserted from.
Origin == [upload : Uploads, no : Numbers, moved : BOOLEAN]

\* What a pending request carries.
Fields == {"op", "rows", "seen", "settings", "config", "switch", "format", "upload", "fresh"}

\* The students and their origins are rows.
ImportTables ==
    /\ student \in [Imports!Ids -> Imports!Row \cup {None}]
    /\ from \in [Imports!Ids -> Origin \cup {None}]
    /\ DOMAIN intake = Requests
    /\ \A r \in Requests : Imports!Pending(r) => DOMAIN intake[r] = Fields

\* The rows a pending request inserts or changes; one it changes is still there.
RowsFit(rows, seen) ==
    /\ DOMAIN rows \subseteq Imports!Ids
    /\ \A s \in DOMAIN rows :
        /\ rows[s] \in Imports!Row
        /\ seen[s] # None => seen[s] \in Imports!Row /\ student[s] # None
ImportFits(rows, seen, u) == u \in Uploads /\ \A s \in DOMAIN rows : seen[s] = None
ImportPlansFit ==
    \A r \in Requests : Imports!Pending(r) =>
        /\ RowsFit(intake[r].rows, intake[r].seen)
        /\ intake[r].op = "import" =>
               ImportFits(intake[r].rows, intake[r].seen, intake[r].upload)

\* A student who was imported has a row, and the number of the sheet unless it has
\* been changed.
OriginsHold ==
    \A s \in Imports!Ids : from[s] # None =>
        student[s] # None /\ (~ from[s].moved => student[s].no = from[s].no)

\* A required built-in field is enabled.
SettingsHold ==
    \A f \in Builtins : builtin[f] # None => (builtin[f].required => builtin[f].enabled)

ImportInv == ImportTables /\ ImportPlansFit /\ OriginsHold /\ Imports!Distinct(student)
    /\ SettingsHold

-----------------------------------------------------------------------------
\* Recording rows that fit keeps the invariant.
LEMMA ImportBeginStep ==
    ASSUME ImportInv, NEW r \in Requests, NEW op, NEW rows, NEW settings, NEW switch, NEW u,
           Imports!Begin(r, op, rows, settings, switch, u),
           DOMAIN rows \subseteq Imports!Ids, \A s \in DOMAIN rows :
               rows[s] \in Imports!Row,
           op = "import" => u \in Uploads /\ \A s \in DOMAIN rows : student[s] = None
    PROVE  ImportInv'
<1> DEFINE seen == [s \in DOMAIN rows |-> student[s]]
           p == [op |-> op, rows |-> rows, seen |-> seen,
                 settings |-> settings, config |-> builtin,
                 switch |-> switch, format |-> format, upload |-> u, fresh |-> TRUE]
<1>1. intake' = [intake EXCEPT ![r] = p] /\ UNCHANGED <<student, builtin, from>>
  BY DEF Imports!Begin
<1>2. p.op = op /\ p.rows = rows /\ p.seen = seen /\ p.upload = u /\ DOMAIN p = Fields
  BY DEF Fields
<1> HIDE DEF p
<1>3. DOMAIN intake' = Requests /\ intake'[r] = p /\ \A q \in Requests \ {r} :
    intake'[q] = intake[q]
  BY <1>1 DEF ImportInv, ImportTables
<1>4. ImportTables'
  BY <1>1, <1>2, <1>3 DEF ImportInv, ImportTables, Imports!Pending
<1>5. RowsFit(rows, seen) /\ (op = "import" => ImportFits(rows, seen, u))
  BY DEF RowsFit, ImportFits, ImportInv, ImportTables
<1> HIDE DEF seen
<1>6. ImportPlansFit'
  <2> SUFFICES ASSUME NEW q \in Requests, Imports!Pending(q)'
               PROVE  /\ RowsFit(intake[q].rows, intake[q].seen)'
                      /\ intake'[q].op = "import" =>
                           ImportFits(intake[q].rows, intake[q].seen, intake[q].upload)'
    BY DEF ImportPlansFit
  <2>1. CASE q = r
    BY <1>1, <1>2, <1>3, <1>5, <2>1 DEF RowsFit, ImportFits
  <2>2. CASE q # r
    <3>1. Imports!Pending(q) /\ intake'[q] = intake[q]
      BY <1>3, <2>2 DEF Imports!Pending
    <3> QED
      BY <1>1, <3>1 DEF ImportInv, ImportPlansFit, RowsFit, ImportFits
  <2> QED
    BY <2>1, <2>2
<1>7. OriginsHold' /\ Imports!Distinct(student)' /\ SettingsHold'
  BY <1>1 DEF ImportInv, OriginsHold, Imports!Distinct, SettingsHold, Imports!There
<1> QED
  BY <1>4, <1>6, <1>7 DEF ImportInv

\* The renumbering plans rows of students.
LEMMA ConfigStep ==
    ASSUME ImportInv, NEW r \in Requests, Imports!LoadConfig(r)
    PROVE  ImportInv'
<1>1. PICK settings, switch :
         LET on == switch = "on" /\ ~ format IN
         Imports!Begin(r, "config", IF on THEN Imports!Formatted ELSE <<>>, settings,
             switch, None)
  BY DEF Imports!LoadConfig
<1>2. DOMAIN Imports!Formatted \subseteq Imports!Ids /\ \A s \in DOMAIN Imports!Formatted :
    Imports!Formatted[s] \in Imports!Row
  <2> DEFINE T ==
      {t \in Imports!There(student) : student[t].active /\ student[t].auto # None}
  <2>1. Imports!Formatted = [s \in T |-> [student[s] EXCEPT !.no = student[s].auto]]
    BY DEF Imports!Formatted
  <2>2. ASSUME NEW s \in T
        PROVE  s \in Imports!Ids
            /\ [student[s] EXCEPT !.no = student[s].auto] \in Imports!Row
    <3>1. s \in Imports!Ids /\ student[s] \in Imports!Row /\ student[s].auto # None
      BY DEF Imports!There, ImportInv, ImportTables
    <3>2. PICK old \in Imports!Row : old = student[s]
      BY <3>1
    <3>3. [old EXCEPT !.no = old.auto] \in Imports!Row
      BY <3>1, <3>2 DEF Imports!Row
    <3> QED
      BY <3>1, <3>2, <3>3
  <2> HIDE DEF T
  <2> QED
    BY <2>1, <2>2
<1>3. PICK rows : /\ Imports!Begin(r, "config", rows, settings, switch, None)
                  /\ rows = Imports!Formatted \/ DOMAIN rows = {}
  BY <1>1
<1>4. DOMAIN rows \subseteq Imports!Ids /\ \A s \in DOMAIN rows : rows[s] \in Imports!Row
  BY <1>2, <1>3
<1> QED
  BY <1>3, <1>4, ImportBeginStep

\* An import plans rows that are free, with numbers of its sheet.
LEMMA ImportStep ==
    ASSUME ImportInv, NEW r \in Requests, Imports!LoadImport(r)
    PROVE  ImportInv'
<1>1. PICK u \in Uploads, S \in SUBSET Imports!Unused :
        \E no \in [S -> Sheet[u]], auto \in [S -> Numbers \cup {None}] :
            Imports!Begin(r, "import",
                  [s \in S |-> [active |-> TRUE, no |-> no[s], auto |-> auto[s]]],
                  <<>>, "omitted", u)
  BY DEF Imports!LoadImport
<1>2. PICK no \in [S -> Sheet[u]], auto \in [S -> Numbers \cup {None}] :
            Imports!Begin(r, "import",
                  [s \in S |-> [active |-> TRUE, no |-> no[s], auto |-> auto[s]]],
                  <<>>, "omitted", u)
  BY <1>1
<1> DEFINE rows == [s \in S |-> [active |-> TRUE, no |-> no[s], auto |-> auto[s]]]
<1>3. S \subseteq Imports!Ids /\ \A s \in S : student[s] = None
  BY DEF Imports!Unused, Imports!There, ImportInv, ImportTables
<1>4. Sheet[u] \subseteq Numbers
  BY ImportsAssumed DEF Imports!ImportsAssumption
<1>5. DOMAIN rows = S /\ \A s \in S : rows[s] \in Imports!Row
  BY <1>4 DEF Imports!Row
<1>6. Imports!Begin(r, "import", rows, <<>>, "omitted", u)
  BY <1>2
<1> HIDE DEF rows
<1> QED
  BY <1>3, <1>5, <1>6, ImportBeginStep

\* An edit plans the row of a student.
LEMMA EditStep ==
    ASSUME ImportInv, NEW r \in Requests, Imports!LoadEdit(r)
    PROVE  ImportInv'
<1>1. PICK s \in Imports!There(student), no \in Numbers, auto \in Numbers \cup {None},
    active \in BOOLEAN :
        Imports!Begin(r, "edit",
            [t \in {s} |-> [active |-> active, no |-> no, auto |-> auto]],
              <<>>, "omitted", None)
  BY DEF Imports!LoadEdit
<1> DEFINE n == [active |-> active, no |-> no, auto |-> auto]
           rows == [t \in {s} |-> n]
<1>2. n \in Imports!Row
  BY DEF Imports!Row
<1>3. s \in Imports!Ids
  BY DEF Imports!There, ImportInv, ImportTables
<1>4. Imports!Begin(r, "edit", rows, <<>>, "omitted", None)
  BY <1>1
<1> HIDE DEF n
<1>5. DOMAIN rows \subseteq Imports!Ids /\ \A t \in DOMAIN rows : rows[t] \in Imports!Row
  BY <1>2, <1>3
<1> HIDE DEF rows
<1> QED
  BY <1>4, <1>5, ImportBeginStep

-----------------------------------------------------------------------------
\* What an UPDATE leaves of a row is a row.
LEMMA WrittenRow ==
    ASSUME NEW seen \in Imports!Row, NEW new \in Imports!Row, NEW there \in Imports!Row
    PROVE  Imports!Written(seen, new, there) \in Imports!Row
BY DEF Imports!Written, Imports!Row

\* So is what a request leaves of a student, who does not disappear.
LEMMA ResultRow ==
    ASSUME ImportInv, NEW r \in Requests, Imports!Pending(r), NEW s \in Imports!Ids
    PROVE  /\ Imports!Result(r, s) \in Imports!Row \cup {None}
           /\ student[s] # None => Imports!Result(r, s) # None
           /\ s \in DOMAIN intake[r].rows => Imports!Result(r, s) \in Imports!Row
<1>1. RowsFit(intake[r].rows, intake[r].seen)
  BY DEF ImportInv, ImportPlansFit
<1>2. student[s] \in Imports!Row \cup {None} /\ None \notin Imports!Row
  BY ImportsAssumed DEF Imports!ImportsAssumption, ImportInv, ImportTables
<1>3. CASE s \notin DOMAIN intake[r].rows
  BY <1>2, <1>3 DEF Imports!Result
<1>4. CASE s \in DOMAIN intake[r].rows /\ intake[r].seen[s] = None
  BY <1>1, <1>2, <1>4 DEF Imports!Result, RowsFit
<1>5. CASE s \in DOMAIN intake[r].rows /\ intake[r].seen[s] # None
  <2>1. Imports!Written(intake[r].seen[s], intake[r].rows[s], student[s]) \in Imports!Row
    BY <1>1, <1>2, <1>5, WrittenRow DEF RowsFit
  <2> QED
    BY <1>2, <1>5, <2>1 DEF Imports!Result
<1> QED
  BY <1>3, <1>4, <1>5

\* The constraint, checked at the last row, is about the table that is left.
LEMMA AcceptedDistinct ==
    ASSUME NEW r \in Requests, Imports!Accepted(r),
        student' = [s \in Imports!Ids |-> Imports!Result(r, s)]
    PROVE  Imports!Distinct(student)'
<1>1. StudentCount \in Imports!Ids /\ \A s \in Imports!Ids : s <= StudentCount
  BY ImportsAssumed DEF Imports!ImportsAssumption, Imports!Ids
<1>2. Imports!Prefix(r, StudentCount) = student'
  BY <1>1 DEF Imports!Prefix
<1>3. Imports!Distinct(Imports!Prefix(r, StudentCount))
  BY <1>1 DEF Imports!Accepted
<1>4. PICK table : table = student' /\ table = Imports!Prefix(r, StudentCount)
  BY <1>2
<1>5. Imports!Distinct(table)
  BY <1>3, <1>4
<1> QED
  BY <1>4, <1>5 DEF Imports!Distinct, Imports!There

\* A commit keeps the invariant: the constraints accept it, and whatever gives an
\* imported student another number is remembered.
LEMMA ImportCommitStep ==
    ASSUME ImportInv, NEW r \in Requests, Imports!Commit(r)
    PROVE  ImportInv'
<1>1. /\ Imports!Pending(r) /\ Imports!Accepted(r)
      /\ student' = [s \in Imports!Ids |-> Imports!Result(r, s)]
      /\ builtin' = Imports!Configured(r)
      /\ from' = [s \in Imports!Ids |->
             IF intake[r].op = "import" /\ s \in DOMAIN intake[r].rows
             THEN [upload |-> intake[r].upload, no |-> intake[r].rows[s].no,
                 moved |-> FALSE]
             ELSE IF from[s] # None /\ Imports!Result(r, s).no # student[s].no
             THEN [from[s] EXCEPT !.moved = TRUE] ELSE from[s]]
      /\ intake' = [q \in Requests |->
             IF q = r THEN IF intake[r].op = "import"
                           THEN [op |-> "discard", upload |-> intake[r].upload] ELSE None
             ELSE IF Imports!Pending(q) THEN [intake[q] EXCEPT !.fresh = FALSE]
             ELSE intake[q]]
  BY DEF Imports!Commit
<1>2. RowsFit(intake[r].rows, intake[r].seen)
      /\ (intake[r].op = "import" =>
             ImportFits(intake[r].rows, intake[r].seen, intake[r].upload))
  BY <1>1 DEF ImportInv, ImportPlansFit
<1>3. /\ student \in [Imports!Ids -> Imports!Row \cup {None}]
      /\ from \in [Imports!Ids -> Origin \cup {None}]
      /\ None \notin Imports!Row
  BY ImportsAssumed DEF Imports!ImportsAssumption, ImportInv, ImportTables
<1>4. ASSUME NEW q \in Requests, Imports!Pending(q)'
      PROVE  /\ Imports!Pending(q) /\ DOMAIN intake'[q] = Fields
             /\ intake'[q].op = intake[q].op /\ intake'[q].rows = intake[q].rows
             /\ intake'[q].seen = intake[q].seen /\ intake'[q].upload = intake[q].upload
  <2>1. q # r /\ Imports!Pending(q) /\ intake'[q] = [intake[q] EXCEPT !.fresh = FALSE]
    BY <1>1, <1>4 DEF Imports!Pending
  <2>2. DOMAIN intake[q] = Fields
    BY <2>1 DEF ImportInv, ImportTables
  <2> QED
    BY <2>1, <2>2 DEF Fields
<1>5. student' \in [Imports!Ids -> Imports!Row \cup {None}] /\ \A s \in Imports!Ids :
    student[s] # None => student'[s] # None
  BY <1>1, ResultRow
<1>6. ASSUME NEW s \in Imports!Ids
      PROVE  /\ from'[s] \in Origin \cup {None}
             /\ from'[s] # None => student'[s] # None
                                   /\ (~ from'[s].moved => student'[s].no = from'[s].no)
  <2>1. CASE intake[r].op = "import" /\ s \in DOMAIN intake[r].rows
    <3>1. student'[s] = intake[r].rows[s] /\ intake[r].rows[s] \in Imports!Row
      BY <1>1, <1>2, <2>1 DEF Imports!Result, RowsFit, ImportFits
    <3>2. from'[s] = [upload |-> intake[r].upload, no |-> intake[r].rows[s].no,
        moved |-> FALSE]
      BY <1>1, <2>1
    <3>3. intake[r].upload \in Uploads /\ intake[r].rows[s].no \in Numbers
      BY <1>2, <2>1, <3>1 DEF ImportFits, Imports!Row
    <3> QED
      BY <1>3, <3>1, <3>2, <3>3 DEF Origin
  <2>2. CASE ~ (intake[r].op = "import" /\ s \in DOMAIN intake[r].rows)
    <3>1. from'[s] = IF from[s] # None /\ student'[s].no # student[s].no
                     THEN [from[s] EXCEPT !.moved = TRUE] ELSE from[s]
      BY <1>1, <2>2
    <3>2. CASE from[s] = None
      BY <3>1, <3>2
    <3>3. CASE from[s] # None /\ student'[s].no # student[s].no
      <4>1. PICK old \in Origin : old = from[s]
        BY <1>3, <3>3
      <4>2. from'[s] = [old EXCEPT !.moved = TRUE]
        BY <3>1, <3>3, <4>1
      <4>3. from'[s] \in Origin /\ from'[s].moved
        BY <4>2 DEF Origin
      <4> QED
        BY <1>5, <3>3, <4>3 DEF ImportInv, OriginsHold
    <3>4. CASE from[s] # None /\ student'[s].no = student[s].no
      <4>1. from'[s] = from[s]
        BY <3>1, <3>4
      <4> QED
        BY <1>3, <1>5, <3>4, <4>1 DEF ImportInv, OriginsHold
    <3> QED
      BY <3>2, <3>3, <3>4
  <2> QED
    BY <2>1, <2>2
<1>7. from' \in [Imports!Ids -> Origin \cup {None}]
  BY <1>1, <1>6
<1>8. ImportPlansFit'
  <2> SUFFICES ASSUME NEW q \in Requests, Imports!Pending(q)'
               PROVE  /\ RowsFit(intake[q].rows, intake[q].seen)'
                      /\ intake'[q].op = "import" =>
                           ImportFits(intake[q].rows, intake[q].seen, intake[q].upload)'
    BY DEF ImportPlansFit
  <2>1. PICK op, rows, seen, u :
            /\ op = intake'[q].op /\ rows = intake'[q].rows
            /\ seen = intake'[q].seen /\ u = intake'[q].upload
    OBVIOUS
  <2>2. RowsFit(rows, seen) /\ (op = "import" => ImportFits(rows, seen, u))
    BY <1>4, <2>1 DEF ImportInv, ImportPlansFit
  <2> QED
    BY <1>5, <2>1, <2>2 DEF RowsFit, ImportFits
<1>9. SettingsHold'
  BY <1>1 DEF SettingsHold, Imports!Accepted
<1>10. Imports!Distinct(student)'
  BY <1>1, AcceptedDistinct
<1>11. DOMAIN intake' = Requests
  BY <1>1
<1> QED
  BY <1>4, <1>5, <1>6, <1>7, <1>8, <1>9, <1>10, <1>11 DEF ImportInv, ImportTables, OriginsHold

\* A request that ends without a commit leaves the tables.
LEMMA ImportEndStep ==
    ASSUME ImportInv, NEW r \in Requests, intake' = [intake EXCEPT ![r] = None],
           UNCHANGED <<student, builtin, from>>
    PROVE  ImportInv'
<1>1. DOMAIN intake' = Requests /\ intake'[r] = None /\ \A q \in Requests \ {r} :
    intake'[q] = intake[q]
  BY DEF ImportInv, ImportTables
<1>2. ImportPlansFit'
  BY <1>1 DEF ImportInv, ImportPlansFit, RowsFit, ImportFits, Imports!Pending
<1> QED
  BY <1>1, <1>2 DEF ImportInv, ImportTables, OriginsHold, Imports!Distinct, Imports!There,
      SettingsHold, Imports!Pending

\* Whatever leaves the students, the settings and the requests alone keeps the
\* invariant.
LEMMA ImportFrame ==
    ASSUME ImportInv, UNCHANGED <<student, builtin, intake, from>>
    PROVE  ImportInv'
BY DEF ImportInv, ImportTables, ImportPlansFit, RowsFit, ImportFits, Imports!Pending,
    OriginsHold, Imports!Distinct, Imports!There, SettingsHold

\* The initial tables have the invariant.
LEMMA ImportInit ==
    ASSUME Imports!Init
    PROVE  ImportInv
<1>1. /\ intake = [r \in Requests |-> None] /\ from = [s \in Imports!Ids |-> None]
      /\ builtin = [f \in Builtins |-> None]
  BY DEF Imports!Init
<1>2. student \in [Imports!Ids -> Imports!Row \cup {None}] /\ \A s,
    t \in Imports!There(student) : s = t
  <2>1. PICK active \in BOOLEAN, no \in Numbers, there \in BOOLEAN :
        student = [s \in Imports!Ids |-> IF there /\ s = 1
                      THEN [active |-> active, no |-> no, auto |-> None] ELSE None]
    BY DEF Imports!Init
  <2>2. [active |-> active, no |-> no, auto |-> None] \in Imports!Row
    BY DEF Imports!Row
  <2> QED
    BY <2>1, <2>2 DEF Imports!There
<1> QED
  BY <1>1, <1>2 DEF ImportInv, ImportTables, ImportPlansFit, Imports!Pending, OriginsHold,
      Imports!Distinct, SettingsHold, Imports!There

\* Every step keeps the invariant.
LEMMA ImportNext ==
    ASSUME ImportInv, [Imports!Next]_importVars
    PROVE  ImportInv'
<1>1. ASSUME NEW r \in Requests, Imports!LoadConfig(r) \/ Imports!LoadImport(r)
    \/ Imports!LoadEdit(r) \/ Imports!Commit(r)
      PROVE  ImportInv'
  BY <1>1, ConfigStep, ImportStep, EditStep, ImportCommitStep
<1>2. ASSUME NEW r \in Requests, Imports!Conflict(r) \/ Imports!Abort(r)
    \/ Imports!Discard(r)
      PROVE  ImportInv'
  BY <1>2, ImportEndStep DEF Imports!Conflict, Imports!Abort, Imports!Discard
<1>3. ASSUME NEW f \in Customs, Imports!CreateField(f) \/ Imports!UpdateField(f)
      PROVE  ImportInv'
  BY <1>3, ImportFrame DEF Imports!CreateField, Imports!UpdateField
<1>4. ASSUME NEW u \in Uploads, Imports!Upload(u) \/ Imports!Expire(u)
      PROVE  ImportInv'
  BY <1>4, ImportFrame DEF Imports!Upload, Imports!Expire
<1>5. CASE UNCHANGED importVars
  BY <1>5, ImportFrame DEF Imports!vars, importVars
<1> QED
  BY <1>1, <1>2, <1>3, <1>4, <1>5 DEF Imports!Next

\* Two students with numbers of their own were not inserted with the same one, unless
\* one of them has another now.
LEMMA OriginsDiffer ==
    ASSUME ImportInv
    PROVE  Imports!ImportedOnce
BY DEF ImportInv, OriginsHold, Imports!Distinct, Imports!ImportedOnce, Imports!There,
    ImportTables

-----------------------------------------------------------------------------
\* No other student has the numbers that are planned, and they are all different.
NumbersFit(rows) ==
    /\ \A s \in DOMAIN rows : \A t \in Imports!There(student) \ {s} :
           rows[s].no # student[t].no
    /\ \A s, t \in DOMAIN rows : s # t => rows[s].no # rows[t].no
\* A request that none has overtaken: its rows are as it saw them, their numbers are
\* free, and it sends no settings.
FreshFits(rows, seen, settings) ==
    /\ DOMAIN settings = {}
    /\ DOMAIN seen = DOMAIN rows /\ \A s \in DOMAIN rows : seen[s] = student[s]
    /\ NumbersFit(rows)
Sheets(r) == Imports!Plans(r, "import") \/ Imports!Plans(r, "edit")
FreshInv ==
    \A r \in Requests : Sheets(r) /\ intake[r].fresh =>
        FreshFits(intake[r].rows, intake[r].seen, intake[r].settings)

\* Recording rows whose numbers are free.
LEMMA FreshBegin ==
    ASSUME ImportInv, FreshInv,
           NEW r \in Requests, NEW op, NEW rows, NEW settings, NEW switch, NEW u,
           Imports!Begin(r, op, rows, settings, switch, u),
           op \in {"import", "edit"} => DOMAIN settings = {} /\ NumbersFit(rows)
    PROVE  FreshInv'
<1> DEFINE seen == [s \in DOMAIN rows |-> student[s]]
           p == [op |-> op, rows |-> rows, seen |-> seen,
                 settings |-> settings, config |-> builtin,
                 switch |-> switch, format |-> format, upload |-> u, fresh |-> TRUE]
<1>1. intake' = [intake EXCEPT ![r] = p] /\ student' = student
  BY DEF Imports!Begin
<1>2. p.op = op /\ p.rows = rows /\ p.seen = seen /\ p.settings = settings
  OBVIOUS
<1>3. DOMAIN seen = DOMAIN rows /\ \A s \in DOMAIN rows : seen[s] = student[s]
  OBVIOUS
<1> HIDE DEF p, seen
<1>4. intake'[r] = p /\ \A q \in Requests \ {r} : intake'[q] = intake[q]
  BY <1>1 DEF ImportInv, ImportTables
<1> SUFFICES ASSUME NEW q \in Requests, Sheets(q)', intake'[q].fresh
             PROVE  FreshFits(intake[q].rows, intake[q].seen, intake[q].settings)'
  BY DEF FreshInv
<1>5. CASE q = r
  BY <1>1, <1>2, <1>3, <1>4, <1>5
     DEF FreshFits, NumbersFit, Sheets, Imports!Plans, Imports!There
<1>6. CASE q # r
  <2>1. intake'[q] = intake[q] /\ Sheets(q)
    BY <1>4, <1>6 DEF Sheets, Imports!Plans
  <2>2. FreshFits(intake[q].rows, intake[q].seen, intake[q].settings)
    BY <2>1 DEF FreshInv
  <2> QED
    BY <1>1, <2>1, <2>2 DEF FreshFits, NumbersFit, Imports!There
<1> QED
  BY <1>5, <1>6

\* The validation leaves an import with numbers that are free (_validate_import).
LEMMA FreshImport ==
    ASSUME ImportInv, FreshInv, NEW r \in Requests, Imports!LoadImport(r)
    PROVE  FreshInv'
<1>1. PICK u \in Uploads, S \in SUBSET Imports!Unused :
        /\ Imports!Importable(u)
        /\ \E no \in [S -> Sheet[u]], auto \in [S -> Numbers \cup {None}] :
            /\ \A s, t \in S : s # t => no[s] # no[t]
            /\ Imports!Begin(r, "import",
                  [s \in S |-> [active |-> TRUE, no |-> no[s], auto |-> auto[s]]],
                  <<>>, "omitted", u)
  BY DEF Imports!LoadImport
<1>2. PICK no \in [S -> Sheet[u]], auto \in [S -> Numbers \cup {None}] :
            /\ \A s, t \in S : s # t => no[s] # no[t]
            /\ Imports!Begin(r, "import",
                  [s \in S |-> [active |-> TRUE, no |-> no[s], auto |-> auto[s]]],
                  <<>>, "omitted", u)
  BY <1>1
<1>3. PICK rows : rows = [s \in S |-> [active |-> TRUE, no |-> no[s], auto |-> auto[s]]]
  OBVIOUS
<1>4. DOMAIN rows = S /\ \A s \in S : rows[s].no = no[s] /\ no[s] \in Sheet[u]
  BY <1>3
<1>5. \A t \in Imports!There(student) : student[t].no \notin Sheet[u]
  BY <1>1 DEF Imports!Importable
<1>6. NumbersFit(rows)
  BY <1>2, <1>4, <1>5 DEF NumbersFit
<1>7. Imports!Begin(r, "import", rows, <<>>, "omitted", u)
  BY <1>2, <1>3
<1> QED
  BY <1>6, <1>7, FreshBegin

\* So does the check that a change of one student makes (update_student).
LEMMA FreshEdit ==
    ASSUME ImportInv, FreshInv, NEW r \in Requests, Imports!LoadEdit(r)
    PROVE  FreshInv'
<1>1. PICK s \in Imports!There(student), no \in Numbers, auto \in Numbers \cup {None},
           active \in BOOLEAN :
        /\ \A t \in Imports!There(student) \ {s} : student[t].no # no
        /\ Imports!Begin(r, "edit",
               [t \in {s} |-> [active |-> active, no |-> no, auto |-> auto]],
               <<>>, "omitted", None)
  BY DEF Imports!LoadEdit
<1>2. PICK rows : rows = [t \in {s} |-> [active |-> active, no |-> no, auto |-> auto]]
  OBVIOUS
<1>3. DOMAIN rows = {s} /\ rows[s].no = no
  BY <1>2
<1>4. NumbersFit(rows)
  BY <1>1, <1>3 DEF NumbersFit
<1>5. Imports!Begin(r, "edit", rows, <<>>, "omitted", None)
  BY <1>1, <1>2
<1> QED
  BY <1>4, <1>5, FreshBegin

\* Requests that go on are as they were, and so are the students.
LEMMA FreshKept ==
    ASSUME FreshInv, student' = student,
           \A q \in Requests : intake'[q] = intake[q] \/ intake'[q] = None
    PROVE  FreshInv'
<1> SUFFICES ASSUME NEW q \in Requests, Sheets(q)', intake'[q].fresh
             PROVE  FreshFits(intake[q].rows, intake[q].seen, intake[q].settings)'
  BY DEF FreshInv
<1>1. intake'[q] = intake[q] /\ Sheets(q)
  BY DEF Sheets, Imports!Plans
<1>2. FreshFits(intake[q].rows, intake[q].seen, intake[q].settings)
  BY <1>1 DEF FreshInv
<1> QED
  BY <1>1, <1>2 DEF FreshFits, NumbersFit, Imports!There

\* Every step keeps the numbers of a request free until it is overtaken.
LEMMA FreshNext ==
    ASSUME ImportInv, FreshInv, [Imports!Next]_importVars
    PROVE  FreshInv'
<1>1. ASSUME NEW r \in Requests, Imports!LoadConfig(r)
      PROVE  FreshInv'
  BY <1>1, FreshBegin DEF Imports!LoadConfig
<1>2. ASSUME NEW r \in Requests, Imports!Commit(r)
      PROVE  FreshInv'
  <2> SUFFICES ASSUME NEW q \in Requests, Sheets(q)'
               PROVE  ~ intake'[q].fresh
    BY DEF FreshInv
  <2>1. intake' = [t \in Requests |->
             IF t = r THEN IF intake[r].op = "import"
                           THEN [op |-> "discard", upload |-> intake[r].upload] ELSE None
             ELSE IF Imports!Pending(t) THEN [intake[t] EXCEPT !.fresh = FALSE]
             ELSE intake[t]]
    BY <1>2 DEF Imports!Commit
  <2>2. Imports!Pending(q) /\ intake'[q] = [intake[q] EXCEPT !.fresh = FALSE]
    BY <2>1 DEF Sheets, Imports!Plans, Imports!Pending
  <2>3. "fresh" \in DOMAIN intake[q]
    BY <2>2 DEF ImportInv, ImportTables, Fields
  <2> QED
    BY <2>2, <2>3
<1>3. ASSUME NEW r \in Requests, Imports!Conflict(r) \/ Imports!Abort(r) \/ Imports!Discard(r)
      PROVE  FreshInv'
  <2>1. intake' = [intake EXCEPT ![r] = None] /\ student' = student
    BY <1>3 DEF Imports!Conflict, Imports!Abort, Imports!Discard
  <2> QED
    BY <2>1, FreshKept DEF ImportInv, ImportTables
<1>4. ASSUME NEW f \in Customs, Imports!CreateField(f) \/ Imports!UpdateField(f)
      PROVE  FreshInv'
  BY <1>4, FreshKept DEF Imports!CreateField, Imports!UpdateField
<1>5. ASSUME NEW u \in Uploads, Imports!Upload(u) \/ Imports!Expire(u)
      PROVE  FreshInv'
  BY <1>5, FreshKept DEF Imports!Upload, Imports!Expire
<1>6. CASE UNCHANGED importVars
  BY <1>6, FreshKept DEF Imports!vars, importVars
<1> QED
  BY <1>1, <1>2, <1>3, <1>4, <1>5, <1>6, FreshImport, FreshEdit DEF Imports!Next

\* A column is either one that the request changes or one that it found as it leaves it.
LEMMA WrittenAll ==
    ASSUME NEW seen \in Imports!Row, NEW new \in Imports!Row
    PROVE  Imports!Written(seen, new, seen) = new
<1>1. DOMAIN new = {"active", "no", "auto"} /\ new = [c \in DOMAIN new |-> new[c]]
  BY DEF Imports!Row
<1> QED
  BY <1>1 DEF Imports!Written

\* What a request that none has overtaken leaves of each student is what it planned.
LEMMA FreshResult ==
    ASSUME ImportInv, FreshInv, NEW r \in Requests, Sheets(r), intake[r].fresh,
           NEW s \in Imports!Ids
    PROVE  Imports!Result(r, s) = IF s \in DOMAIN intake[r].rows THEN intake[r].rows[s]
                                  ELSE student[s]
<1>1. FreshFits(intake[r].rows, intake[r].seen, intake[r].settings)
  BY DEF FreshInv
<1>2. RowsFit(intake[r].rows, intake[r].seen)
  BY DEF ImportInv, ImportPlansFit, Sheets, Imports!Plans, Imports!Pending
<1>3. CASE s \in DOMAIN intake[r].rows /\ intake[r].seen[s] # None
  BY <1>1, <1>2, <1>3, WrittenAll DEF FreshFits, RowsFit, Imports!Result
<1> QED
  BY <1>3 DEF Imports!Result

\* The constraints accept it: whichever rows have been written, the numbers are
\* different.
LEMMA FreshAccepted ==
    ASSUME ImportInv, FreshInv, NEW r \in Requests, Sheets(r), intake[r].fresh
    PROVE  Imports!Accepted(r)
<1> DEFINE rows == intake[r].rows
<1>1. FreshFits(rows, intake[r].seen, intake[r].settings)
  BY DEF FreshInv
<1>2. /\ DOMAIN rows \subseteq Imports!Ids /\ None \notin Imports!Row
      /\ \A s \in DOMAIN rows : rows[s] \in Imports!Row
  BY ImportsAssumed DEF Imports!ImportsAssumption, ImportInv, ImportPlansFit, RowsFit, Sheets,
     Imports!Plans, Imports!Pending
<1> HIDE DEF rows
<1>3. ASSUME NEW i \in Imports!Ids
      PROVE  Imports!Distinct(Imports!Prefix(r, i))
  <2>1. PICK table : table = Imports!Prefix(r, i)
    OBVIOUS
  <2>2. /\ DOMAIN table = Imports!Ids
        /\ \A s \in Imports!Ids :
               \/ table[s] = student[s]
               \/ s \in DOMAIN rows /\ table[s] = rows[s]
    BY <2>1, FreshResult DEF Imports!Prefix, rows
  <2>3. ASSUME NEW s \in Imports!There(table), NEW t \in Imports!There(table), s # t
        PROVE  table[s].no # table[t].no
    <3>1. /\ s \in Imports!Ids /\ t \in Imports!Ids /\ table[s] # None /\ table[t] # None
          /\ DOMAIN student = Imports!Ids
      BY <2>2 DEF Imports!There, ImportInv, ImportTables
    <3>2. CASE table[s] = student[s] /\ table[t] = student[t]
      BY <2>3, <3>1, <3>2 DEF ImportInv, Imports!Distinct, Imports!There
    <3>3. CASE table[s] = student[s] /\ t \in DOMAIN rows /\ table[t] = rows[t]
      BY <1>1, <2>3, <3>1, <3>3 DEF FreshFits, NumbersFit, Imports!There
    <3>4. CASE s \in DOMAIN rows /\ table[s] = rows[s] /\ table[t] = student[t]
      BY <1>1, <2>3, <3>1, <3>4 DEF FreshFits, NumbersFit, Imports!There
    <3>5. CASE s \in DOMAIN rows /\ table[s] = rows[s] /\ t \in DOMAIN rows /\ table[t] = rows[t]
      BY <1>1, <2>3, <3>5 DEF FreshFits, NumbersFit
    <3> QED
      BY <2>2, <3>1, <3>2, <3>3, <3>4, <3>5
  <2> QED
    BY <2>1, <2>3 DEF Imports!Distinct
<1>4. \A f \in Builtins : Imports!Configured(r)[f] = builtin[f]
  BY <1>1 DEF FreshFits, Imports!Configured
<1> QED
  BY <1>1, <1>3, <1>4 DEF Imports!Accepted, FreshFits, ImportInv, SettingsHold

-----------------------------------------------------------------------------
(***************************************************************************)
(* The theorems.                                                           *)
(***************************************************************************)
\* A step of the whole is one of the structure, or changes nothing there; so it is
\* for the imports.
LEMMA EnrolmentStep ==
    [EnrolmentNext]_<<vars, importVars>> => [Next]_vars /\ [Imports!Next]_importVars
BY DEF EnrolmentNext, vars, importVars

\* The invariants hold throughout.
LEMMA EnrolmentInvariance ==
    EnrolmentSpec => [](StructureInv /\ SectionsInv /\ ImportInv /\ FreshInv)
<1>1. Init /\ Imports!Init => StructureInv /\ SectionsInv /\ ImportInv /\ FreshInv
  <2> SUFFICES ASSUME Init, Imports!Init
               PROVE  StructureInv /\ SectionsInv /\ ImportInv /\ FreshInv
    OBVIOUS
  <2>1. \A r \in Requests : req[r] = None /\ intake[r] = None
    BY DEF Init, Imports!Init
  <2> QED
    BY <2>1, StructureInit, ImportInit
       DEF SectionsInv, Plans, FreshInv, Sheets, Imports!Plans
<1>2. /\ StructureInv /\ SectionsInv /\ ImportInv /\ FreshInv
      /\ [EnrolmentNext]_<<vars, importVars>>
      => StructureInv' /\ SectionsInv' /\ ImportInv' /\ FreshInv'
  BY EnrolmentStep, StructureNext, SectionsNext, ImportNext, FreshNext
<1> QED
  BY <1>1, <1>2, PTL DEF EnrolmentSpec

\* A student's place changes only to one that a request asked for as a whole, although
\* an UPDATE writes the class or the section alone (update_student): the section that
\* a move writes brings its class with it, because the foreign key refuses the other.
THEOREM PlacesChangeAsAsked == EnrolmentSpec => PlacesAreAsked
<1> DEFINE Asked ==
        \A s \in Students : placed'[s] # None /\ ~ SamePlace(placed[s], placed'[s]) =>
            \E r \in Requests :
                /\ Plans(r, "place") \/ Plans(r, "move")
                /\ req'[r] = None
                /\ s \in DOMAIN req[r].new /\ SamePlace(req[r].new[s], placed'[s])
<1>1. ASSUME StructureInv, SectionsInv, [Next]_vars
      PROVE  Asked
  <2>1. CASE \E r \in Requests : Commit(r)
    BY <1>1, <2>1, CommitAsks
  <2>2. CASE \A r \in Requests : ~ Commit(r)
    <3>1. placed' = placed
      BY <1>1, <2>2, OthersLeavePlaces
    <3> QED
      BY <3>1 DEF SamePlace
  <2> QED
    BY <2>1, <2>2
<1>2. /\ StructureInv /\ SectionsInv /\ ImportInv /\ FreshInv
      /\ [EnrolmentNext]_<<vars, importVars>>
      => [Asked]_vars
  BY <1>1, EnrolmentStep
<1>3. PlacesAreAsked <=> [][Asked]_vars
  BY DEF PlacesAreAsked
<1> QED
  BY <1>2, <1>3, EnrolmentInvariance, PTL DEF EnrolmentSpec

\* The classes stand in the order that was sent last, because a reordering locks the
\* rows it has read (reorder_classes).
THEOREM OrderStays == EnrolmentSpec => []OrderIsTheOneSent
<1>1. StructureInv => OrderIsTheOneSent
  BY DEF StructureInv
<1> QED
  BY <1>1, EnrolmentInvariance, PTL

\* Sessions stay coherent as long as none is saved between a load and its commit
\* (academic_sessions.py).
THEOREM TermsStayCoherent == EnrolmentSpec => TermsCoherent
<1> DEFINE Kept == Coherent /\ (\A r \in Requests : CommitTerm(r) => req[r].fresh) => Coherent'
<1>1. ASSUME StructureInv, [Next]_vars
      PROVE  Kept
  <2>1. CASE \E r \in Requests : CommitTerm(r)
    BY <1>1, <2>1, TimelySave
  <2>2. CASE \A r \in Requests : ~ CommitTerm(r)
    BY <1>1, <2>2, OthersLeaveTerms DEF Coherent, There
  <2> QED
    BY <2>1, <2>2
<1>2. /\ StructureInv /\ SectionsInv /\ ImportInv /\ FreshInv
      /\ [EnrolmentNext]_<<vars, importVars>>
      => [Kept]_vars
  BY <1>1, EnrolmentStep
<1>3. TermsCoherent <=> [][Kept]_vars
  BY DEF TermsCoherent
<1> QED
  BY <1>2, <1>3, EnrolmentInvariance, PTL DEF EnrolmentSpec

\* A sheet confirmed twice is inserted twice only if numbers have changed in between:
\* the unique constraint on admission numbers (models/student.py) stands for the
\* check that _validate_import makes too early.
THEOREM SheetsImportedOnce == EnrolmentSpec => []ImportedOnce
<1>1. ImportInv => ImportedOnce
  BY OriginsDiffer DEF ImportedOnce
<1> QED
  BY <1>1, EnrolmentInvariance, PTL

\* An import, or a change of one student, is refused only because something was
\* committed since it was validated (commit_student_import, update_student): what the
\* handlers check leaves nothing to the constraints but what other requests do.
THEOREM ImportsRefusedOnlyWhenOvertaken == EnrolmentSpec => []RefusedOnlyWhenOvertaken
<1>1. ImportInv /\ FreshInv => RefusedOnlyWhenOvertaken
  BY FreshAccepted
     DEF RefusedOnlyWhenOvertaken, Imports!RefusedOnlyWhenOvertaken, Sheets
<1> QED
  BY <1>1, EnrolmentInvariance, PTL
=============================================================================
