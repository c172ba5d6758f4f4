------------------------ MODULE PublicPagesProofs ------------------------
(***************************************************************************)
(* Proofs about CardTemplates, FormSubmissions, PublicCredentials and      *)
(* RateLimiter, for any number of schools, submissions, students and       *)
(* requests.                                                               *)
(*                                                                         *)
(* Designs: a token names one design, and every public token has been made *)
(* once.  Forms: a review past its lock holds the row of a pending         *)
(* submission, one past its insert the key, and every object in the bucket *)
(* has one owner: a submission, a student, the request that has stored it, *)
(* or the review that will delete it.  Verification: the tokens in rows,   *)
(* those about to be written and those replaced are all different.         *)
(* Limiter: a window is what is left of the times let through, once those  *)
(* before it have expired.                                                 *)
(***************************************************************************)
EXTENDS PublicPages, Sequences, FiniteSetTheorems, TLAPS

-----------------------------------------------------------------------------
(***************************************************************************)
(* The designs of cards and their links.                                   *)
(***************************************************************************)
Designs(r) == req[r] # Idle /\ req[r].op # "share"
Shares(r) == req[r] # Idle /\ req[r].op = "share"

\* What a save or copy that is past its checks has: a design to store, the row
\* it found under its lock, and the token it was given.
SaveInv ==
    \A r \in Requests : Designs(r) =>
        /\ req[r].pc # "source" => req[r].new \in Cards
        /\ req[r].expect <= token[req[r].school]
        /\ req[r].pc = "commit" /\ req[r].found =>
            lock[req[r].school] = r /\ card[req[r].school] # NoCard
        /\ req[r].pc = "commit" /\ req[r].expect # 0 =>
            req[r].found /\ req[r].expect = token[req[r].school]

\* A token names one design: the one the editor saw under it.
BaseInv ==
    \A r \in Requests : Designs(r) /\ req[r].expect # 0
            /\ req[r].expect = token[req[r].school] =>
        req[r].base = card[req[r].school]

\* Every public token has been made, once: those in use, those about to be used
\* and those revoked are all different.
LinkInv ==
    /\ \A s \in Schools : share[s].link <= links
    /\ \A s, t \in Schools : s # t /\ share[s].link = share[t].link => share[s].link = 0
    /\ \A r \in Requests : Shares(r) =>
        /\ card[req[r].school] # NoCard
        /\ req[r].link <= links
        /\ req[r].link # 0 =>
            /\ req[r].link \notin revoked
            /\ \A s \in Schools : share[s].link # req[r].link
            /\ \A q \in Requests \ {r} : Shares(q) => req[q].link # req[r].link
    /\ RevokedLinksStayDead

\* The inductive invariant of CardTemplates.
DesignInv == TypeOK /\ SaveInv /\ BaseInv /\ LinkInv

DesignRequest == [op: {"save", "copy"}, pc: {"source", "lock", "commit"}, school: Schools,
    from: Schools, expect: 0 .. MaxTime, base: Cards \cup {NoCard}, new: Cards \cup {NoCard},
    keepBack: BOOLEAN, found: BOOLEAN]
ShareRequest == [op: {"share"}, pc: {"update"}, school: Schools, enabled: BOOLEAN, link: Nat,
    old: Share]

\* A request is about a design or about the link.
LEMMA DesignKinds ==
    ASSUME TypeOK, NEW r \in Requests, req[r] # Idle
    PROVE  /\ req[r].op # "share" => req[r] \in DesignRequest
           /\ req[r].op = "share" => req[r] \in ShareRequest
           /\ req[r].pc # "update" => req[r].op # "share"
           /\ req[r].pc = "update" => req[r].op = "share"
           /\ req[r].school \in Schools
<1>1. req[r] \in DesignRequest \/ req[r] \in ShareRequest
    BY DEF TypeOK, Request, DesignRequest, ShareRequest
<1>2. CASE req[r] \in DesignRequest
    BY <1>2 DEF DesignRequest
<1>3. CASE req[r] \in ShareRequest
    BY <1>3 DEF ShareRequest
<1> QED BY <1>1, <1>2, <1>3

\* No template, request or public token at the start.
LEMMA DesignInit == Init => DesignInv
BY CardsAssumption DEF Init, DesignInv, TypeOK, SaveInv, BaseInv, LinkInv, Share, Times,
    RevokedLinksStayDead, Designs, Shares

\* Beginning to save or to copy: nothing but the request changes.
LEMMA BeginDesign ==
    ASSUME DesignInv, NEW r \in Requests, NEW q \in DesignRequest,
           req' = [req EXCEPT ![r] = q], work' \in 0 .. MaxWork,
           UNCHANGED <<card, token, share, links, lock, revoked>>,
           q.pc # "source" => q.new \in Cards,
           q.pc # "commit", q.expect \in {0, token[q.school]}, q.base = card[q.school]
    PROVE  DesignInv'
<1> USE DEF DesignInv
<1>1. q \in Request /\ q.op # "share" /\ q.school \in Schools
    BY DEF DesignRequest, Request
<1>2. \A p \in Requests : req'[p] = IF p = r THEN q ELSE req[p]
    BY DEF TypeOK
<1>3. TypeOK'
    BY <1>1, <1>2 DEF TypeOK
<1>4. SaveInv'
    BY <1>1, <1>2 DEF SaveInv, Designs, TypeOK
<1>5. BaseInv'
    BY <1>1, <1>2 DEF BaseInv, Designs
<1>6. LinkInv'
    BY <1>1, <1>2 DEF LinkInv, Shares, RevokedLinksStayDead
<1> QED BY <1>3, <1>4, <1>5, <1>6

\* A request that ends without writing.
LEMMA EndInv ==
    ASSUME DesignInv, NEW r \in Requests, End(r),
           UNCHANGED <<card, token, share, links, work, revoked>>
    PROVE  DesignInv'
<1> USE DEF DesignInv
<1>1. \A p \in Requests : req'[p] = IF p = r THEN Idle ELSE req[p]
    BY DEF End, TypeOK
<1>2. \A s \in Schools : lock'[s] = IF lock[s] = r THEN Idle ELSE lock[s]
    BY DEF End
<1>3. TypeOK'
    BY <1>1, <1>2 DEF TypeOK, End
<1>4. SaveInv'
    BY <1>1, <1>2, DesignKinds DEF SaveInv, Designs
<1>5. BaseInv'
    BY <1>1 DEF BaseInv, Designs
<1>6. LinkInv'
    BY <1>1 DEF LinkInv, Shares, RevokedLinksStayDead
<1> QED BY <1>3, <1>4, <1>5, <1>6

\* A request past its first check that stays: what it may become.
LEMMA LoadSaveInv ==
    ASSUME DesignInv, NEW r \in Requests, LoadSave(r)
    PROVE  DesignInv'
<1>1. PICK s \in Schools, new \in Cards, keepBack \in BOOLEAN :
        \E expect \in {0, token[s]} :
            req' = [req EXCEPT ![r] = [op |-> "save", pc |-> "lock", school |-> s, from |-> s,
               expect |-> expect, base |-> card[s], new |-> new, keepBack |-> keepBack,
               found |-> FALSE]]
    BY DEF LoadSave
<1>2. PICK expect \in {0, token[s]} :
            req' = [req EXCEPT ![r] = [op |-> "save", pc |-> "lock", school |-> s, from |-> s,
               expect |-> expect, base |-> card[s], new |-> new, keepBack |-> keepBack,
               found |-> FALSE]]
    BY <1>1
<1> DEFINE q == [op |-> "save", pc |-> "lock", school |-> s, from |-> s,
               expect |-> expect, base |-> card[s], new |-> new, keepBack |-> keepBack,
               found |-> FALSE]
<1>3. expect \in 0 .. MaxTime /\ card[s] \in Cards \cup {NoCard}
    BY CardsAssumption DEF DesignInv, TypeOK
<1>4. q \in DesignRequest
    BY <1>3 DEF DesignRequest
<1>5. work' \in 0 .. MaxWork
    BY CardsAssumption DEF LoadSave, Begin, DesignInv, TypeOK
<1>6. /\ q.pc = "lock" /\ q.new = new /\ q.school = s /\ q.expect = expect
      /\ q.base = card[s]
    OBVIOUS
<1>7. req' = [req EXCEPT ![r] = q]
    BY <1>2
<1>8. UNCHANGED <<card, token, share, links, lock, revoked>>
    BY DEF LoadSave
<1> HIDE DEF q
<1> QED BY <1>4, <1>5, <1>6, <1>7, <1>8, BeginDesign

\* The same for a copy.
LEMMA LoadCopyInv ==
    ASSUME DesignInv, NEW r \in Requests, LoadCopy(r)
    PROVE  DesignInv'
<1>1. PICK s \in Schools, from \in Schools :
        \E expect \in {0, token[s]} :
            req' = [req EXCEPT ![r] = [op |-> "copy", pc |-> "source", school |-> s,
               from |-> from, expect |-> expect, base |-> card[s], new |-> NoCard,
               keepBack |-> FALSE, found |-> FALSE]]
    BY DEF LoadCopy
<1>2. PICK expect \in {0, token[s]} :
            req' = [req EXCEPT ![r] = [op |-> "copy", pc |-> "source", school |-> s,
               from |-> from, expect |-> expect, base |-> card[s], new |-> NoCard,
               keepBack |-> FALSE, found |-> FALSE]]
    BY <1>1
<1> DEFINE q == [op |-> "copy", pc |-> "source", school |-> s,
               from |-> from, expect |-> expect, base |-> card[s], new |-> NoCard,
               keepBack |-> FALSE, found |-> FALSE]
<1>3. expect \in 0 .. MaxTime /\ card[s] \in Cards \cup {NoCard}
    BY CardsAssumption DEF DesignInv, TypeOK
<1>4. q \in DesignRequest
    BY <1>3 DEF DesignRequest
<1>5. work' \in 0 .. MaxWork
    BY CardsAssumption DEF LoadCopy, Begin, DesignInv, TypeOK
<1>6. q.pc = "source" /\ q.school = s /\ q.expect = expect /\ q.base = card[s]
    OBVIOUS
<1>7. req' = [req EXCEPT ![r] = q]
    BY <1>2
<1>8. UNCHANGED <<card, token, share, links, lock, revoked>>
    BY DEF LoadCopy
<1> HIDE DEF q
<1> QED BY <1>4, <1>5, <1>6, <1>7, <1>8, BeginDesign

\* Reading the design to copy.
LEMMA CopySourceInv ==
    ASSUME DesignInv, NEW r \in Requests, CopySource(r)
    PROVE  DesignInv'
<1>1. CASE End(r)
    BY <1>1, EndInv DEF CopySource
<1>2. CASE /\ SchoolTemplate(req[r].from)
           /\ req' = [req EXCEPT ![r].new = card[req[r].from], ![r].pc = "lock"]
           /\ UNCHANGED lock
    <2> DEFINE q == [req[r] EXCEPT !.new = card[req[r].from], !.pc = "lock"]
    <2>1. req[r] \in DesignRequest /\ req[r] # Idle /\ req[r].op # "share"
        BY DesignKinds DEF CopySource, At, DesignInv
    <2>2. card[req[r].from] \in Cards
        BY <1>2, <2>1 DEF SchoolTemplate, DesignInv, TypeOK, DesignRequest
    <2>3. /\ q \in DesignRequest /\ q.pc = "lock" /\ q.new \in Cards
          /\ q.school = req[r].school /\ q.expect = req[r].expect /\ q.base = req[r].base
          /\ q.op # "share" /\ q.op = req[r].op
        BY <2>1, <2>2 DEF DesignRequest
    <2>4. req' = [req EXCEPT ![r] = q]
        BY <1>2
    <2> HIDE DEF q
    <2>5. \A p \in Requests : req'[p] = IF p = r THEN q ELSE req[p]
        BY <2>4 DEF DesignInv, TypeOK
    <2>6. TypeOK'
        BY <1>2, <2>3, <2>4 DEF CopySource, DesignInv, TypeOK, Request, DesignRequest
    <2>7. SaveInv'
        <3>1. UNCHANGED <<card, token, lock>>
            BY <1>2 DEF CopySource
        <3>2. req[r].expect <= token[req[r].school]
            BY <2>1 DEF DesignInv, SaveInv, Designs
        <3>3. \A p \in Requests \ {r} : Designs(p)' => Designs(p) /\ req'[p] = req[p]
            BY <2>5 DEF Designs
        <3> QED BY <2>3, <2>5, <3>1, <3>2, <3>3 DEF DesignInv, SaveInv
    <2>8. BaseInv'
        BY <2>3, <2>5 DEF CopySource, At, DesignInv, BaseInv, Designs
    <2>9. LinkInv'
        BY <2>3, <2>5 DEF CopySource, DesignInv, LinkInv, Shares, RevokedLinksStayDead
    <2> QED BY <2>6, <2>7, <2>8, <2>9 DEF DesignInv
<1> QED BY <1>1, <1>2 DEF CopySource

\* The comparison of the token under the lock.
LEMMA LockRowInv ==
    ASSUME DesignInv, NEW r \in Requests, LockRow(r)
    PROVE  DesignInv'
<1> DEFINE s == req[r].school
<1>1. CASE Stale(r)
    BY <1>1, EndInv DEF LockRow
<1>2. CASE ~Stale(r)
    <2> DEFINE q == [req[r] EXCEPT !.pc = "commit", !.found = card[s] # NoCard]
    <2>1. req[r] \in DesignRequest /\ req[r].pc = "lock" /\ req[r] # Idle
        BY DesignKinds DEF LockRow, At, DesignInv
    <2>2. /\ q \in DesignRequest /\ q.pc = "commit" /\ q.new = req[r].new
          /\ q.school = s /\ q.expect = req[r].expect /\ q.base = req[r].base
          /\ q.op # "share" /\ q.op = req[r].op /\ q.found = (card[s] # NoCard)
        BY <2>1 DEF DesignRequest
    <2>3. req' = [req EXCEPT ![r] = q]
        BY <1>2 DEF LockRow
    <2>4. lock' = IF card[s] # NoCard THEN [lock EXCEPT ![s] = r] ELSE lock
        BY <1>2 DEF LockRow
    <2>5. s \in Schools /\ lock[s] = Idle
        BY <2>1 DEF DesignRequest, LockRow
    <2>6. req[r].expect # 0 => card[s] # NoCard /\ req[r].expect = token[s]
        BY <1>2 DEF Stale
    <2> HIDE DEF q
    <2>7. \A p \in Requests : req'[p] = IF p = r THEN q ELSE req[p]
        BY <2>3 DEF DesignInv, TypeOK
    <2>8. \A t \in Schools : lock'[t] = IF t = s /\ card[s] # NoCard THEN r ELSE lock[t]
        BY <2>4, <2>5 DEF DesignInv, TypeOK
    <2>9. TypeOK'
        BY <2>2, <2>3, <2>4 DEF LockRow, DesignInv, TypeOK, Request, DesignRequest
    <2>10. SaveInv'
        <3> SUFFICES ASSUME NEW p \in Requests, Designs(p)'
                     PROVE  /\ req'[p].pc # "source" => req'[p].new \in Cards
                            /\ req'[p].expect <= token[req'[p].school]
                            /\ req'[p].pc = "commit" /\ req'[p].found =>
                                lock'[req'[p].school] = p /\ card[req'[p].school] # NoCard
                            /\ req'[p].pc = "commit" /\ req'[p].expect # 0 =>
                                req'[p].found /\ req'[p].expect = token[req'[p].school]
            BY DEF SaveInv, LockRow
        <3>1. CASE p = r
            BY <3>1, <2>1, <2>2, <2>5, <2>6, <2>7, <2>8 DEF DesignInv, SaveInv, Designs,
                DesignRequest
        <3>2. CASE p # r
            <4>1. req'[p] = req[p] /\ Designs(p)
                BY <3>2, <2>7 DEF Designs
            <4>2. req[p].school \in Schools
                BY <4>1, DesignKinds DEF DesignInv, Designs
            <4> QED BY <4>1, <4>2, <2>5, <2>8, CardsAssumption DEF DesignInv, SaveInv
        <3> QED BY <3>1, <3>2
    <2>11. BaseInv'
        BY <2>1, <2>2, <2>7 DEF LockRow, DesignInv, BaseInv, Designs, DesignRequest
    <2>12. LinkInv'
        BY <2>2, <2>7 DEF LockRow, DesignInv, LinkInv, Shares, RevokedLinksStayDead
    <2> QED BY <2>9, <2>10, <2>11, <2>12 DEF DesignInv
<1> QED BY <1>1, <1>2

\* What a save or copy that reaches its commit writes, if its row was found or
\* there is none: a design, under a larger token, over the design it saw.
LEMMA CommitFacts ==
    ASSUME DesignInv, NEW r \in Requests, CommitSave(r), card' # card \/ token' # token
    PROVE  LET s == req[r].school IN
           /\ s \in Schools
           /\ card' = [card EXCEPT ![s] = card'[s]] /\ card'[s] \in Cards
           /\ token' = [token EXCEPT ![s] = token'[s]]
           /\ token'[s] > token[s] /\ token'[s] \in 1 .. MaxTime
           /\ req[r].found = (card[s] # NoCard)
           /\ req[r].expect # 0 => card[s] = req[r].base
<1> DEFINE s == req[r].school
<1>1. /\ req[r] \in DesignRequest /\ req[r].pc = "commit" /\ req[r] # Idle
      /\ req[r].op # "share"
    BY DesignKinds DEF CommitSave, At, DesignInv
<1>2. s \in Schools /\ req[r].new \in Cards
    BY <1>1 DEF DesignRequest, DesignInv, SaveInv, Designs
<1>3. PICK at \in Times :
        /\ NextToken(token[s], at) <= MaxTime
        /\ card' = [card EXCEPT ![s] = Saved(r)]
        /\ token' = [token EXCEPT ![s] = NextToken(token[s], at)]
    BY DEF CommitSave
<1>4. req[r].found = (card[s] # NoCard)
    BY DEF CommitSave
<1>5. Saved(r) \in Cards
    <2>1. CASE req[r].keepBack /\ req[r].found
        <3>1. card[s] \in Cards
            BY <1>2, <1>4, <2>1 DEF DesignInv, TypeOK
        <3> QED BY <1>2, <2>1, <3>1 DEF Saved, Cards
    <2> QED BY <1>2, <2>1 DEF Saved
<1>6. token[s] \in Nat
    BY <1>2, CardsAssumption DEF DesignInv, TypeOK
<1>7. NextToken(token[s], at) > token[s] /\ NextToken(token[s], at) \in 1 .. MaxTime
    BY <1>3, <1>6, CardsAssumption DEF NextToken, Times
<1>8. card'[s] = Saved(r) /\ token'[s] = NextToken(token[s], at)
    BY <1>2, <1>3 DEF DesignInv, TypeOK
<1>9. req[r].expect # 0 => card[s] = req[r].base
    BY <1>1 DEF DesignInv, SaveInv, BaseInv, Designs
<1> QED BY <1>2, <1>3, <1>4, <1>5, <1>7, <1>8, <1>9

\* The commit of a save or copy.
LEMMA CommitSaveInv ==
    ASSUME DesignInv, NEW r \in Requests, CommitSave(r)
    PROVE  DesignInv'
<1> DEFINE s == req[r].school
<1>1. CASE UNCHANGED <<card, token>>
    BY <1>1, EndInv DEF CommitSave
<1>2. CASE card' # card \/ token' # token
    <2>1. /\ s \in Schools
          /\ card' = [card EXCEPT ![s] = card'[s]] /\ card'[s] \in Cards
          /\ token' = [token EXCEPT ![s] = token'[s]]
          /\ token'[s] > token[s] /\ token'[s] \in 1 .. MaxTime
          /\ req[r].found = (card[s] # NoCard)
        BY <1>2, CommitFacts
    <2>2. \A p \in Requests : req'[p] = IF p = r THEN Idle ELSE req[p]
        BY DEF CommitSave, End, DesignInv, TypeOK
    <2>3. \A t \in Schools : lock'[t] = IF lock[t] = r THEN Idle ELSE lock[t]
        BY DEF CommitSave, End
    <2>4. NoCard \notin Cards
        BY CardsAssumption DEF Cards
    <2>5. \A t \in Schools : /\ card[t] # NoCard => card'[t] # NoCard
                             /\ t # s => card'[t] = card[t] /\ token'[t] = token[t]
        BY <2>1, <2>4 DEF DesignInv, TypeOK
    <2>6. /\ req[r] # Idle /\ req[r].op # "share" /\ req[r].pc = "commit"
        BY DesignKinds DEF CommitSave, At, DesignInv
    <2>7. \A t \in Schools : token[t] \in Nat /\ token'[t] \in 0 .. MaxTime
        BY <2>1, <2>5, CardsAssumption DEF DesignInv, TypeOK
    <2>8. TypeOK'
        <3>1. card' \in [Schools -> Cards \cup {NoCard}] /\ token' \in [Schools -> 0 .. MaxTime]
            BY <2>1, CardsAssumption DEF DesignInv, TypeOK
        <3>2. \A t \in Schools : card'[t] = NoCard <=> token'[t] = 0
            BY <2>1, <2>4, <2>5 DEF DesignInv, TypeOK
        <3>3. lock' \in [Schools -> Requests \cup {Idle}]
            /\ req' \in [Requests -> Request \cup {Idle}]
            BY DEF CommitSave, End, DesignInv, TypeOK
        <3> QED BY <2>5, <3>1, <3>2, <3>3 DEF CommitSave, DesignInv, TypeOK
    <2>9. SaveInv' /\ BaseInv'
        <3> SUFFICES ASSUME NEW p \in Requests, Designs(p)'
                     PROVE  /\ req'[p].pc # "source" => req'[p].new \in Cards
                            /\ req'[p].expect <= token'[req'[p].school]
                            /\ req'[p].pc = "commit" /\ req'[p].found =>
                                lock'[req'[p].school] = p /\ card'[req'[p].school] # NoCard
                            /\ req'[p].pc = "commit" /\ req'[p].expect # 0 =>
                                req'[p].found /\ req'[p].expect = token'[req'[p].school]
                            /\ req'[p].expect # 0 /\ req'[p].expect = token'[req'[p].school] =>
                                req'[p].base = card'[req'[p].school]
            BY DEF SaveInv, BaseInv
        <3>1. p # r /\ req'[p] = req[p] /\ Designs(p)
            BY <2>2 DEF Designs
        <3>2. req[p].school \in Schools /\ req[p].expect \in Nat
            /\ req[p].expect <= token[req[p].school]
            BY <3>1, DesignKinds DEF DesignInv, SaveInv, Designs, DesignRequest
        <3>3. CASE req[p].school # s
            BY <2>3, <2>5, <3>1, <3>2, <3>3 DEF DesignInv, SaveInv, BaseInv
        <3>4. CASE req[p].school = s
            <4>1. ~(req[p].pc = "commit" /\ req[p].found)
                <5> SUFFICES ASSUME req[p].pc = "commit" /\ req[p].found PROVE FALSE
                    OBVIOUS
                <5>1. lock[s] = p /\ card[s] # NoCard
                    BY <3>1, <3>4 DEF DesignInv, SaveInv
                <5>2. req[r].found
                    BY <2>1, <5>1
                <5>3. lock[s] = r
                    BY <2>6, <5>2 DEF DesignInv, SaveInv, Designs
                <5> QED BY <3>1, <5>1, <5>3
            <4>2. req[p].expect < token'[s]
                BY <2>1, <2>7, <3>2, <3>4
            <4>3. ~(req[p].pc = "commit" /\ req[p].expect # 0)
                BY <3>1, <4>1 DEF DesignInv, SaveInv
            <4>4. token'[s] \in Nat /\ req[p].expect <= token'[s] /\ req[p].expect # token'[s]
                BY <2>1, <2>7, <3>2, <4>2
            <4>5. req[p].pc # "source" => req[p].new \in Cards
                BY <3>1 DEF DesignInv, SaveInv
            <4> QED BY <3>1, <3>4, <4>1, <4>3, <4>4, <4>5
        <3> QED BY <3>3, <3>4
    <2>10. LinkInv'
        <3>1. UNCHANGED <<share, links, revoked>>
            BY DEF CommitSave
        <3>2. \A p \in Requests : Shares(p)' => Shares(p) /\ req'[p] = req[p]
            /\ req[p].school \in Schools
            BY <2>2, DesignKinds DEF Shares, DesignInv
        <3> QED BY <2>5, <3>1, <3>2 DEF DesignInv, LinkInv, RevokedLinksStayDead
    <2> QED BY <2>8, <2>9, <2>10 DEF DesignInv
<1> QED BY <1>1, <1>2

\* A request for the public link.
LEMMA LoadShareInv ==
    ASSUME DesignInv, NEW r \in Requests, LoadShare(r)
    PROVE  DesignInv'
<1>1. PICK s \in Schools, enabled \in BOOLEAN, regenerate \in BOOLEAN :
        /\ SchoolTemplate(s)
        /\ LET new == regenerate \/ (enabled /\ share[s].link = 0) IN
           /\ links' = IF new THEN links + 1 ELSE links
           /\ req' = [req EXCEPT ![r] = [op |-> "share", pc |-> "update", school |-> s,
                  enabled |-> enabled, link |-> IF new THEN links' ELSE 0, old |-> share[s]]]
    BY DEF LoadShare
<1> DEFINE q == [op |-> "share", pc |-> "update", school |-> s, enabled |-> enabled,
        link |-> IF regenerate \/ (enabled /\ share[s].link = 0) THEN links' ELSE 0,
        old |-> share[s]]
<1>2. links \in Nat /\ links' \in Nat /\ links <= links'
    BY <1>1 DEF DesignInv, TypeOK
<1>3. q \in ShareRequest
    BY <1>2 DEF ShareRequest, DesignInv, TypeOK
<1>4. q.op = "share" /\ q.school = s /\ q.link <= links'
    /\ (q.link # 0 => q.link = links' /\ links < links')
    BY <1>1, <1>2
<1>5. req' = [req EXCEPT ![r] = q]
    BY <1>1
<1> HIDE DEF q
<1>6. \A p \in Requests : req'[p] = IF p = r THEN q ELSE req[p]
    BY <1>5 DEF DesignInv, TypeOK
<1>7. UNCHANGED <<card, token, share, lock, revoked>> /\ req[r] = Idle
    BY DEF LoadShare, Begin
<1>8. TypeOK'
    <2>1. q \in Request
        BY <1>3 DEF ShareRequest, Request
    <2>2. work' \in 0 .. MaxWork
        BY CardsAssumption DEF LoadShare, Begin, DesignInv, TypeOK
    <2>3. revoked \subseteq 1 .. links'
        BY <1>2 DEF DesignInv, TypeOK
    <2> QED BY <1>2, <1>5, <1>7, <2>1, <2>2, <2>3 DEF DesignInv, TypeOK
<1>9. SaveInv' /\ BaseInv'
    BY <1>4, <1>6, <1>7 DEF DesignInv, SaveInv, BaseInv, Designs
<1>10. LinkInv'
    <2>1. \A t \in Schools : share[t].link \in Nat /\ share[t].link <= links
        BY DEF DesignInv, TypeOK, Share, LinkInv
    <2>2. \A p \in Requests : p # r /\ Shares(p)' =>
            Shares(p) /\ req'[p] = req[p] /\ req[p].link \in Nat /\ req[p].link <= links
        BY <1>6, DesignKinds DEF Shares, DesignInv, LinkInv, ShareRequest
    <2>3. \A n \in revoked : n \in Nat /\ n <= links
        BY DEF DesignInv, TypeOK
    <2> SUFFICES ASSUME NEW p \in Requests, Shares(p)'
                 PROVE  /\ card[req'[p].school] # NoCard
                        /\ req'[p].link <= links'
                        /\ req'[p].link # 0 =>
                            /\ req'[p].link \notin revoked
                            /\ \A t \in Schools : share[t].link # req'[p].link
                            /\ \A o \in Requests \ {p} : Shares(o)' => req'[o].link # req'[p].link
        <3>1. \A t \in Schools : share[t].link <= links'
            BY <1>2, <2>1
        <3> QED BY <1>7, <3>1 DEF DesignInv, LinkInv, RevokedLinksStayDead
    <2>4. CASE p = r
        <3>1. card[s] # NoCard
            BY <1>1 DEF SchoolTemplate
        <3>2. req'[p].link # 0 => links < req'[p].link
            BY <1>4, <1>6, <2>4
        <3> QED BY <1>2, <1>4, <1>6, <2>1, <2>2, <2>3, <2>4, <3>1, <3>2
    <2>5. CASE p # r
        <3>1. /\ card[req[p].school] # NoCard
              /\ req[p].link # 0 => /\ req[p].link \notin revoked
                                    /\ \A t \in Schools : share[t].link # req[p].link
            BY <2>2, <2>5 DEF DesignInv, LinkInv
        <3>2. req[p].link <= links'
            BY <1>2, <2>2, <2>5
        <3>3. ASSUME NEW o \in Requests \ {p}, Shares(o)', req[p].link # 0
              PROVE  req'[o].link # req'[p].link
            <4>1. CASE o = r
                BY <1>2, <1>4, <1>6, <2>2, <2>5, <3>3, <4>1
            <4>2. CASE o # r
                BY <2>2, <2>5, <3>3, <4>2 DEF DesignInv, LinkInv
            <4> QED BY <4>1, <4>2
        <3> QED BY <2>2, <2>5, <3>1, <3>2, <3>3
    <2> QED BY <2>4, <2>5
<1> QED BY <1>8, <1>9, <1>10 DEF DesignInv

\* The commit of the link's settings.
LEMMA CommitShareInv ==
    ASSUME DesignInv, NEW r \in Requests, CommitShare(r)
    PROVE  DesignInv'
<1> DEFINE s == req[r].school
           new == Shared(r, share[s])
<1>1. /\ req[r] \in ShareRequest /\ req[r] # Idle /\ req[r].op = "share"
    BY DesignKinds DEF CommitShare, At, DesignInv
<1>2. s \in Schools /\ card[s] # NoCard /\ req[r].link \in Nat /\ req[r].link <= links
    BY <1>1 DEF ShareRequest, DesignInv, LinkInv, Shares
<1>3. share[s] \in Share /\ share[s].link \in Nat /\ share[s].link <= links
    BY <1>2 DEF DesignInv, TypeOK, Share, LinkInv
<1>4. new \in Share
    BY <1>1, <1>2, <1>3 DEF Shared, Share, ShareRequest
<1>5. new.link = IF req[r].link # 0 THEN req[r].link ELSE share[s].link
    BY DEF Shared
<1>6. /\ \A t \in Schools : share'[t] = IF t = s THEN new ELSE share[t]
      /\ share' \in [Schools -> Share]
    BY <1>2, <1>4 DEF CommitShare, DesignInv, TypeOK
<1>7. /\ UNCHANGED <<card, token, links, work>>
      /\ \A p \in Requests : req'[p] = IF p = r THEN Idle ELSE req[p]
      /\ \A t \in Schools : lock'[t] = IF lock[t] = r THEN Idle ELSE lock[t]
    BY DEF CommitShare, End, DesignInv, TypeOK
<1>8. revoked' = IF new.link # share[s].link THEN revoked \cup ({share[s].link} \ {0}) ELSE revoked
    BY DEF CommitShare
<1> HIDE DEF new
<1>9. TypeOK'
    <2>1. lock' \in [Schools -> Requests \cup {Idle}] /\ req' \in [Requests -> Request \cup {Idle}]
        BY DEF CommitShare, End, DesignInv, TypeOK
    <2>2. revoked' \subseteq 1 .. links
        <3>1. {share[s].link} \ {0} \subseteq 1 .. links
            BY <1>3 DEF DesignInv, TypeOK
        <3> QED BY <1>8, <3>1 DEF DesignInv, TypeOK
    <2>3. \A t \in Schools : share'[t].enabled => card[t] # NoCard
        BY <1>2, <1>6 DEF DesignInv, TypeOK
    <2> QED BY <1>6, <1>7, <2>1, <2>2, <2>3 DEF DesignInv, TypeOK
<1>10. SaveInv' /\ BaseInv'
    <2>1. \A p \in Requests : Designs(p)' => p # r /\ Designs(p) /\ req'[p] = req[p]
        /\ req[p].school \in Schools
        BY <1>7, DesignKinds DEF Designs, DesignInv
    <2> QED BY <1>7, <2>1 DEF DesignInv, SaveInv, BaseInv
<1>11. LinkInv'
    <2>1. \A t \in Schools : share[t].link \in Nat /\ share[t].link <= links
        BY DEF DesignInv, TypeOK, Share, LinkInv
    <2>2. \A t \in Schools \ {s} : new.link = share[t].link => new.link = 0
        BY <1>1, <1>2, <1>5 DEF DesignInv, LinkInv, Shares
    <2>3. \A t \in Schools : share'[t].link <= links
        BY <1>2, <1>3, <1>5, <1>6, <2>1
    <2>4. \A t, u \in Schools : t # u /\ share'[t].link = share'[u].link => share'[t].link = 0
        BY <1>2, <1>6, <2>2 DEF DesignInv, LinkInv
    <2>5. \A t \in Schools : share'[t].link \notin revoked
        BY <1>1, <1>2, <1>5, <1>6 DEF DesignInv, LinkInv, Shares, RevokedLinksStayDead
    <2>6. RevokedLinksStayDead'
        <3> SUFFICES ASSUME NEW t \in Schools, share'[t].link \in revoked' PROVE FALSE
            BY DEF RevokedLinksStayDead
        <3>1. share'[t].link = share[s].link /\ share[s].link # 0 /\ new.link # share[s].link
            BY <1>8, <2>5
        <3>2. t # s
            BY <1>6, <3>1
        <3> QED BY <1>2, <1>6, <3>1, <3>2 DEF DesignInv, LinkInv
    <2>7. ASSUME NEW p \in Requests, Shares(p)'
          PROVE  /\ p # r /\ Shares(p) /\ req'[p] = req[p]
                 /\ card[req[p].school] # NoCard /\ req[p].link <= links
                 /\ req[p].link # 0 =>
                    /\ req[p].link \notin revoked'
                    /\ \A t \in Schools : share'[t].link # req[p].link
                    /\ \A o \in Requests \ {p} : Shares(o)' => req'[o].link # req[p].link
        <3>1. p # r /\ Shares(p) /\ req'[p] = req[p]
            BY <1>7, <2>7 DEF Shares
        <3>2. /\ card[req[p].school] # NoCard /\ req[p].link <= links
              /\ req[p].link # 0 =>
                    /\ req[p].link \notin revoked
                    /\ \A t \in Schools : share[t].link # req[p].link
                    /\ \A o \in Requests \ {p} : Shares(o) => req[o].link # req[p].link
            BY <3>1 DEF DesignInv, LinkInv
        <3>3. Shares(r)
            BY <1>1 DEF Shares
        <3>4. req[p].link # 0 => new.link # req[p].link
            BY <1>2, <1>5, <3>1, <3>2, <3>3
        <3>5. \A o \in Requests : Shares(o)' => Shares(o) /\ req'[o] = req[o]
            BY <1>7 DEF Shares
        <3>6. req[p].link # 0 => req[p].link \notin revoked'
            BY <1>2, <1>8, <3>2
        <3>7. req[p].link # 0 => \A t \in Schools : share'[t].link # req[p].link
            BY <1>6, <3>2, <3>4
        <3>8. req[p].link # 0 => \A o \in Requests \ {p} : Shares(o)' => req'[o].link # req[p].link
            BY <3>2, <3>5
        <3> QED BY <3>1, <3>2, <3>6, <3>7, <3>8
    <2> QED BY <1>7, <2>3, <2>4, <2>6, <2>7 DEF LinkInv
<1> QED BY <1>9, <1>10, <1>11 DEF DesignInv

\* Every step of a request preserves the invariant.
LEMMA StepInv ==
    ASSUME DesignInv, NEW r \in Requests, Step(r)
    PROVE  DesignInv'
<1>1. CASE Unresolved(r)
    BY <1>1, EndInv DEF Unresolved
<1> QED BY <1>1, LoadSaveInv, LoadCopyInv, CopySourceInv, LockRowInv, CommitSaveInv,
        LoadShareInv, CommitShareInv DEF Step

\* So does every step of the designs.
LEMMA DesignNext == DesignInv /\ [Next]_vars => DesignInv'
<1> SUFFICES ASSUME DesignInv, [Next]_vars PROVE DesignInv'
    OBVIOUS
<1>1. CASE Next
    BY <1>1, StepInv DEF Next
<1>2. CASE UNCHANGED vars
    BY <1>2 DEF vars, DesignInv, TypeOK, SaveInv, BaseInv, LinkInv, RevokedLinksStayDead,
        Designs, Shares
<1> QED BY <1>1, <1>2

\* A step that changes a design or a token is the commit of a save or a copy.
LEMMA OnlyCommitWrites ==
    ASSUME NEW r \in Requests, Step(r), card' # card \/ token' # token
    PROVE  CommitSave(r)
BY DEF Step, LoadSave, LoadCopy, CopySource, LockRow, Unresolved, LoadShare, CommitShare

-----------------------------------------------------------------------------
(***************************************************************************)
(* The submissions of a form.                                              *)
(***************************************************************************)
Reviewing == {"check", "flush", "promote", "commit", "reject"}
Submitting == {"put", "save"}

\* What a request in state q holds: a review past its lock the row of a pending
\* submission, one past its insert the key, and a submission its own new id.
Holds(r, q) ==
    /\ q.pc = "lock" => sub[q.sub] # None
    /\ q.pc \in Reviewing => review[q.sub] = r /\ sub[q.sub] \in Forms!Pending
    /\ q.pc \in {"promote", "commit"} => claim[q.key] = r /\ student[q.key] = None
    /\ q.pc \in Submitting => sub[q.sub] = None

\* No other request is about the submission that a request is storing.
Alone(r) ==
    visit[r].pc \in Submitting =>
        \A q \in Visits \ {r} : visit[q] # None => visit[q].sub # visit[r].sub

HoldInv == \A r \in Visits : visit[r] # None => Holds(r, visit[r]) /\ Alone(r)

\* The inductive invariant of FormSubmissions.
FormInv == Forms!TypeOK /\ HoldInv

-----------------------------------------------------------------------------
\* A request moves to state q, and no other request loses what it holds.
LEMMA Moves ==
    ASSUME Forms!FormsAssumption, FormInv, NEW r \in Visits, NEW q \in Forms!Request \cup {None},
           visit' = [visit EXCEPT ![r] = q],
           \A p \in Visits \ {r} : visit[p] # None /\ Holds(p, visit[p]) => Holds(p, visit[p])',
           q # None => Holds(r, q)',
           q # None => \A p \in Visits \ {r} : visit[p] # None /\ visit[p].sub = q.sub =>
                           q.pc \notin Submitting /\ visit[p].pc \notin Submitting
    PROVE  HoldInv'
<1> SUFFICES ASSUME NEW p \in Visits, visit'[p] # None
             PROVE  Holds(p, visit[p])' /\ Alone(p)'
  BY DEF HoldInv
<1>1. visit \in [Visits -> Forms!Request \cup {None}]
  BY DEF FormInv, Forms!TypeOK
<1>2. visit'[r] = q /\ \A t \in Visits \ {r} : visit'[t] = visit[t]
  BY <1>1
<1>3. CASE p = r
  <2>1. Holds(p, visit[p])'
    BY <1>2, <1>3 DEF Holds
  <2>2. Alone(p)'
    BY <1>2, <1>3 DEF Alone
  <2> QED
    BY <2>1, <2>2
<1>4. CASE p # r
  <2>1. Holds(p, visit[p]) /\ Alone(p)
    BY <1>2, <1>4 DEF FormInv, HoldInv
  <2>2. Holds(p, visit[p])'
    BY <1>2, <1>4, <2>1 DEF Holds
  <2>3. Alone(p)'
    BY <1>2, <1>4, <2>1 DEF Alone
  <2> QED
    BY <2>2, <2>3
<1> QED
  BY <1>3, <1>4

\* What the other requests hold survives when the tables stay and only free locks
\* and keys, or those of r, are touched.
Keeps(r) ==
    /\ UNCHANGED <<sub, student>>
    /\ \A p \in Visits \ {r}, s \in Subs : review[s] = p => review'[s] = p
    /\ \A p \in Visits \ {r}, k \in Keys : claim[k] = p => claim'[k] = p

\* Then what the others hold survives.
LEMMA OthersKeep ==
    ASSUME FormInv, NEW r \in Visits, Keeps(r)
    PROVE  \A p \in Visits \ {r} :
               visit[p] # None /\ Holds(p, visit[p]) =>
                   (visit'[p] = visit[p] => Holds(p, visit[p])')
<1> SUFFICES ASSUME NEW p \in Visits \ {r}, visit[p] # None, Holds(p, visit[p]),
                    visit'[p] = visit[p]
             PROVE  Holds(p, visit[p])'
  OBVIOUS
<1>1. visit[p].sub \in Subs /\ visit[p].key \in Keys
  BY DEF FormInv, Forms!TypeOK, Forms!Request
<1> QED
  BY <1>1 DEF Holds, Keeps

\* A request moves on within its handler: it is about the same submission.
LEMMA Advances ==
    ASSUME Forms!FormsAssumption, FormInv, NEW r \in Visits, visit[r] # None, Keeps(r),
           NEW q \in Forms!Request, visit' = [visit EXCEPT ![r] = q],
           q.sub = visit[r].sub, q.pc \in Submitting => visit[r].pc \in Submitting,
           Holds(r, q)'
    PROVE  HoldInv'
<1>1. visit \in [Visits -> Forms!Request \cup {None}] /\ q # None
  BY DEF FormInv, Forms!TypeOK, Forms!FormsAssumption
<1>2. \A p \in Visits \ {r} : visit'[p] = visit[p]
  BY <1>1
<1>3. \A p \in Visits \ {r} : visit[p] # None /\ Holds(p, visit[p]) => Holds(p, visit[p])'
  BY <1>2, OthersKeep
<1>4. \A p \in Visits \ {r} : visit[p] # None /\ visit[p].sub = q.sub =>
          q.pc \notin Submitting /\ visit[p].pc \notin Submitting
  BY DEF FormInv, HoldInv, Alone
<1> QED
  BY <1>1, <1>3, <1>4, Moves

\* A request ends and gives back what it holds.
LEMMA Ends ==
    ASSUME Forms!FormsAssumption, FormInv, NEW r \in Visits, Forms!End(r), UNCHANGED <<sub,
           student>>,
           Forms!Release(r) \/ UNCHANGED <<review, claim>>
    PROVE  /\ HoldInv'
           /\ review' \in [Subs -> Visits \cup {None}]
           /\ claim' \in [Keys -> Visits \cup {None}]
           /\ visit' \in [Visits -> Forms!Request \cup {None}]
<1>1. /\ review \in [Subs -> Visits \cup {None}]
      /\ claim \in [Keys -> Visits \cup {None}]
      /\ visit \in [Visits -> Forms!Request \cup {None}]
  BY DEF FormInv, Forms!TypeOK
<1>2. /\ Keeps(r)
      /\ review' \in [Subs -> Visits \cup {None}]
      /\ claim' \in [Keys -> Visits \cup {None}]
  BY <1>1 DEF Forms!Release, Keeps
<1>3. HoldInv'
  <2>1. PICK q \in Forms!Request \cup {None} : q = None
    OBVIOUS
  <2>2. visit' = [visit EXCEPT ![r] = q]
    BY <2>1 DEF Forms!End
  <2>3. \A p \in Visits \ {r} : visit'[p] = visit[p]
    BY <1>1, <2>2
  <2>4. \A p \in Visits \ {r} : visit[p] # None /\ Holds(p, visit[p]) => Holds(p, visit[p])'
    BY <1>2, <2>3, OthersKeep
  <2> QED
    BY <2>1, <2>2, <2>4, Moves
<1> QED
  BY <1>1, <1>2, <1>3 DEF Forms!End
-----------------------------------------------------------------------------
(* One lemma per action. *)

\* A new submission takes an id that no row and no request has.
LEMMA SubmitLoadInv ==
    ASSUME Forms!FormsAssumption, FormInv, NEW r \in Visits, Forms!SubmitLoad(r)
    PROVE  FormInv'
<1>1. PICK s \in Subs, k \in Keys, photo \in BOOLEAN :
        /\ Forms!Fresh(s)
        /\ visit' = [visit EXCEPT ![r] = [pc |-> IF photo THEN "put" ELSE "save", sub |-> s,
               key |-> k, wants |-> photo, approve |-> FALSE, photo |-> None, temp |-> None]]
  BY DEF Forms!SubmitLoad
<1> DEFINE q == [pc |-> IF photo THEN "put" ELSE "save", sub |-> s, key |-> k, wants |-> photo,
                 approve |-> FALSE, photo |-> None, temp |-> None]
<1>2. visit' = [visit EXCEPT ![r] = q] /\ q.pc \in Submitting /\ q.sub = s
  BY <1>1 DEF Submitting
<1>3. q \in Forms!Request
  BY DEF Forms!Request, Forms!Photos
<1> HIDE DEF q
<1>4. Forms!TypeOK'
  <2>1. visits' \in 0 .. MaxVisits
    BY DEF Forms!SubmitLoad, Forms!Begin, FormInv, Forms!TypeOK, Forms!FormsAssumption
  <2> QED
    BY <1>2, <1>3, <2>1 DEF Forms!SubmitLoad, FormInv, Forms!TypeOK
<1>5. \A p \in Visits \ {r} : visit'[p] = visit[p]
  BY <1>2 DEF FormInv, Forms!TypeOK
<1>6. \A p \in Visits \ {r} : visit[p] # None /\ Holds(p, visit[p]) => Holds(p, visit[p])'
  BY <1>5, OthersKeep DEF Forms!SubmitLoad, Keeps
<1>7. Holds(r, q)'
  BY <1>1, <1>2 DEF Forms!SubmitLoad, Holds, Submitting, Reviewing, Forms!Fresh
<1>8. \A p \in Visits : visit[p] # None => visit[p].sub # q.sub
  BY <1>1, <1>2 DEF Forms!Fresh
<1> QED
  BY <1>2, <1>3, <1>4, <1>6, <1>7, <1>8, Moves DEF FormInv

\* A review begins about a submission that exists.
LEMMA ReviewBeginInv ==
    ASSUME Forms!FormsAssumption, FormInv, NEW r \in Visits, Forms!ReviewBegin(r)
    PROVE  FormInv'
<1>1. PICK s \in Subs, approve \in BOOLEAN :
        /\ sub[s] # None
        /\ visit' = [visit EXCEPT ![r] = [pc |-> "lock", sub |-> s, key |-> sub[s].key,
               wants |-> FALSE, approve |-> approve, photo |-> None, temp |-> None]]
  BY DEF Forms!ReviewBegin
<1>2. sub[s].key \in Keys
  BY <1>1 DEF FormInv, Forms!TypeOK, Forms!Sub, Forms!Pending, Forms!Approved, Forms!Rejected
<1>3. PICK q \in Forms!Request :
          q = [pc |-> "lock", sub |-> s, key |-> sub[s].key, wants |-> FALSE,
               approve |-> approve, photo |-> None, temp |-> None]
  BY <1>2 DEF Forms!Request, Forms!Photos
<1>4. visit' = [visit EXCEPT ![r] = q] /\ q.pc = "lock" /\ q.sub = s
  BY <1>1, <1>3
<1>5. Forms!TypeOK'
  <2>1. visits' \in 0 .. MaxVisits
    BY DEF Forms!ReviewBegin, Forms!Begin, FormInv, Forms!TypeOK, Forms!FormsAssumption
  <2> QED
    BY <1>4, <2>1 DEF Forms!ReviewBegin, FormInv, Forms!TypeOK
<1>6. \A p \in Visits \ {r} : visit'[p] = visit[p]
  BY <1>4 DEF FormInv, Forms!TypeOK
<1>7. \A p \in Visits \ {r} : visit[p] # None /\ Holds(p, visit[p]) => Holds(p, visit[p])'
  BY <1>6, OthersKeep DEF Forms!ReviewBegin, Keeps
<1>8. Holds(r, q)'
  BY <1>1, <1>4 DEF Forms!ReviewBegin, Holds, Submitting, Reviewing
<1>9. \A p \in Visits : visit[p] # None /\ visit[p].sub = q.sub => visit[p].pc \notin Submitting
  BY <1>1, <1>4 DEF FormInv, HoldInv, Holds
<1> QED
  BY <1>4, <1>5, <1>7, <1>8, <1>9, Moves DEF FormInv, Submitting

\* The photograph is stored.
LEMMA SubmitPutInv ==
    ASSUME Forms!FormsAssumption, FormInv, NEW r \in Visits, Forms!SubmitPut(r)
    PROVE  FormInv'
<1>0. fresh + 1 \in Forms!Objects /\ fresh + 1 \in 0 .. MaxObjects
  BY DEF Forms!SubmitPut, Forms!Stored, FormInv, Forms!TypeOK, Forms!Objects, Forms!FormsAssumption
<1>1. /\ visit \in [Visits -> Forms!Request \cup {None}]
      /\ visit[r] \in Forms!Request /\ visit[r] # None
  BY DEF Forms!SubmitPut, Forms!At, FormInv, Forms!TypeOK
<1>2. PICK q \in Forms!Request : q = [visit[r] EXCEPT !.photo = fresh + 1, !.pc = "save"]
  BY <1>1, <1>0 DEF Forms!Request, Forms!Photos
<1>3. visit' = [visit EXCEPT ![r] = q] /\ q.sub = visit[r].sub /\ q.key = visit[r].key
    /\ q.pc = "save"
  BY <1>1, <1>2, <1>0 DEF Forms!SubmitPut, Forms!At, Forms!Stored, Forms!Request
<1>4. Forms!TypeOK'
  <2>1. store' \subseteq Forms!Objects /\ fresh' \in 0 .. MaxObjects
    BY <1>0 DEF Forms!SubmitPut, Forms!Stored, FormInv, Forms!TypeOK
  <2>2. visit' \in [Visits -> Forms!Request \cup {None}]
    BY <1>1, <1>3
  <2> QED
    BY <2>1, <2>2 DEF Forms!SubmitPut, FormInv, Forms!TypeOK
<1>5. Keeps(r)
  BY <1>1, <1>0 DEF Forms!SubmitPut, Forms!At, Forms!Stored, Keeps, Forms!Request
<1>6. Holds(r, q)'
  BY <1>1, <1>3, <1>0 DEF Forms!SubmitPut, Forms!At, Forms!Stored, FormInv, Forms!TypeOK, HoldInv,
      Holds, Submitting, Reviewing, Forms!Request
<1>7. q.pc \in Submitting => visit[r].pc \in Submitting
  BY <1>3, <1>0 DEF Forms!SubmitPut, Forms!At, Forms!Stored, Submitting
<1> QED
  BY <1>1, <1>3, <1>4, <1>5, <1>6, <1>7, Advances DEF FormInv

\* The student's photograph is stored.
LEMMA PromoteInv ==
    ASSUME Forms!FormsAssumption, FormInv, NEW r \in Visits, Forms!Promote(r)
    PROVE  FormInv'
<1>0. fresh + 1 \in Forms!Objects /\ fresh + 1 \in 0 .. MaxObjects
  BY DEF Forms!Promote, Forms!Stored, FormInv, Forms!TypeOK, Forms!Objects, Forms!FormsAssumption
<1>1. /\ visit \in [Visits -> Forms!Request \cup {None}]
      /\ visit[r] \in Forms!Request /\ visit[r] # None
  BY DEF Forms!Promote, Forms!At, FormInv, Forms!TypeOK
<1>2. PICK q \in Forms!Request : q = [visit[r] EXCEPT !.photo = fresh + 1, !.pc = "commit"]
  BY <1>1, <1>0 DEF Forms!Request, Forms!Photos
<1>3. visit' = [visit EXCEPT ![r] = q] /\ q.sub = visit[r].sub /\ q.key = visit[r].key
    /\ q.pc = "commit"
  BY <1>1, <1>2, <1>0 DEF Forms!Promote, Forms!At, Forms!Stored, Forms!Request
<1>4. Forms!TypeOK'
  <2>1. store' \subseteq Forms!Objects /\ fresh' \in 0 .. MaxObjects
    BY <1>0 DEF Forms!Promote, Forms!Stored, FormInv, Forms!TypeOK
  <2>2. visit' \in [Visits -> Forms!Request \cup {None}]
    BY <1>1, <1>3
  <2> QED
    BY <2>1, <2>2 DEF Forms!Promote, FormInv, Forms!TypeOK
<1>5. Keeps(r)
  BY <1>1, <1>0 DEF Forms!Promote, Forms!At, Forms!Stored, Keeps, Forms!Request
<1>6. Holds(r, q)'
  BY <1>1, <1>3, <1>0 DEF Forms!Promote, Forms!At, Forms!Stored, FormInv, Forms!TypeOK, HoldInv,
      Holds, Submitting, Reviewing, Forms!Request
<1>7. q.pc \in Submitting => visit[r].pc \in Submitting
  BY <1>3, <1>0 DEF Forms!Promote, Forms!At, Forms!Stored, Submitting
<1> QED
  BY <1>1, <1>3, <1>4, <1>5, <1>6, <1>7, Advances DEF FormInv

\* The unlocked look at the key.
LEMMA ApproveCheckInv ==
    ASSUME Forms!FormsAssumption, FormInv, NEW r \in Visits, Forms!ApproveCheck(r)
    PROVE  FormInv'
<1>1. /\ visit \in [Visits -> Forms!Request \cup {None}]
      /\ visit[r] \in Forms!Request /\ visit[r] # None
  BY DEF Forms!ApproveCheck, Forms!At, FormInv, Forms!TypeOK
<1>2. PICK q \in Forms!Request : q = [visit[r] EXCEPT !.pc = "flush"]
  BY <1>1 DEF Forms!Request, Forms!Photos
<1>3. visit' = [visit EXCEPT ![r] = q] /\ q.sub = visit[r].sub /\ q.key = visit[r].key
    /\ q.pc = "flush"
  BY <1>1, <1>2 DEF Forms!ApproveCheck, Forms!At, Forms!To, Forms!Request
<1>4. Forms!TypeOK'
  BY <1>1, <1>3 DEF Forms!ApproveCheck, Forms!At, Forms!To, FormInv, Forms!TypeOK,
      Forms!FormsAssumption
<1>5. Keeps(r)
  BY <1>1 DEF Forms!ApproveCheck, Forms!At, Forms!To, Keeps, Forms!Request
<1>6. Holds(r, q)'
  BY <1>1, <1>3 DEF Forms!ApproveCheck, Forms!At, Forms!To, FormInv, Forms!TypeOK, HoldInv, Holds,
      Submitting, Reviewing, Forms!Request
<1>7. q.pc \in Submitting => visit[r].pc \in Submitting
  BY <1>3 DEF Forms!ApproveCheck, Forms!At, Forms!To, Submitting
<1> QED
  BY <1>1, <1>3, <1>4, <1>5, <1>6, <1>7, Advances DEF FormInv

\* After the commit a request holds nothing.
LEMMA RefreshedInv ==
    ASSUME Forms!FormsAssumption, FormInv, NEW r \in Visits, Forms!Refreshed(r)
    PROVE  FormInv'
<1>1. /\ visit \in [Visits -> Forms!Request \cup {None}]
      /\ visit[r] \in Forms!Request /\ visit[r] # None
  BY DEF Forms!Refreshed, Forms!At, FormInv, Forms!TypeOK
<1>2. PICK q \in Forms!Request : q = [visit[r] EXCEPT !.pc = "clean"]
  BY <1>1 DEF Forms!Request, Forms!Photos
<1>3. visit' = [visit EXCEPT ![r] = q] /\ q.sub = visit[r].sub /\ q.key = visit[r].key
    /\ q.pc = "clean"
  BY <1>1, <1>2 DEF Forms!Refreshed, Forms!At, Forms!To, Forms!Request
<1>4. Forms!TypeOK'
  BY <1>1, <1>3 DEF Forms!Refreshed, Forms!At, Forms!To, FormInv, Forms!TypeOK,
      Forms!FormsAssumption
<1>5. Keeps(r)
  BY <1>1 DEF Forms!Refreshed, Forms!At, Forms!To, Keeps, Forms!Request
<1>6. Holds(r, q)'
  BY <1>1, <1>3 DEF Forms!Refreshed, Forms!At, Forms!To, FormInv, Forms!TypeOK, HoldInv, Holds,
      Submitting, Reviewing, Forms!Request
<1>7. q.pc \in Submitting => visit[r].pc \in Submitting
  BY <1>3 DEF Forms!Refreshed, Forms!At, Forms!To, Submitting
<1> QED
  BY <1>1, <1>3, <1>4, <1>5, <1>6, <1>7, Advances DEF FormInv

\* Nothing was stored.
LEMMA SubmitPutFailsInv ==
    ASSUME Forms!FormsAssumption, FormInv, NEW r \in Visits, Forms!SubmitPutFails(r)
    PROVE  FormInv'
<1>1. Forms!End(r) /\ UNCHANGED <<sub, student>>
    /\ (Forms!Release(r) \/ UNCHANGED <<review, claim>>)
  BY DEF Forms!SubmitPutFails
<1>2. /\ store' \subseteq Forms!Objects /\ lost' \subseteq Forms!Objects /\ fresh' = fresh
      /\ visits' = visits
      /\ faults' \subseteq {"cleanup", "refresh", "crash"}
  BY DEF Forms!SubmitPutFails, FormInv, Forms!TypeOK, Forms!Request, Forms!Photos, Forms!At
<1> QED
  BY <1>1, <1>2, Ends DEF FormInv, Forms!TypeOK

\* The submission was not stored.
LEMMA SubmitFailsInv ==
    ASSUME Forms!FormsAssumption, FormInv, NEW r \in Visits, Forms!SubmitFails(r)
    PROVE  FormInv'
<1>1. Forms!End(r) /\ UNCHANGED <<sub, student>>
    /\ (Forms!Release(r) \/ UNCHANGED <<review, claim>>)
  BY DEF Forms!SubmitFails
<1>2. /\ store' \subseteq Forms!Objects /\ lost' \subseteq Forms!Objects /\ fresh' = fresh
      /\ visits' = visits
      /\ faults' \subseteq {"cleanup", "refresh", "crash"}
  BY DEF Forms!SubmitFails, Forms!Delete, FormInv, Forms!TypeOK, Forms!Request, Forms!Photos,
      Forms!At
<1> QED
  BY <1>1, <1>2, Ends DEF FormInv, Forms!TypeOK

\* The review is refused.
LEMMA ApproveRefusedInv ==
    ASSUME Forms!FormsAssumption, FormInv, NEW r \in Visits, Forms!ApproveRefused(r)
    PROVE  FormInv'
<1>1. Forms!End(r) /\ UNCHANGED <<sub, student>>
    /\ (Forms!Release(r) \/ UNCHANGED <<review, claim>>)
  BY DEF Forms!ApproveRefused
<1>2. /\ store' \subseteq Forms!Objects /\ lost' \subseteq Forms!Objects /\ fresh' = fresh
      /\ visits' = visits
      /\ faults' \subseteq {"cleanup", "refresh", "crash"}
  BY DEF Forms!ApproveRefused, FormInv, Forms!TypeOK, Forms!Request, Forms!Photos, Forms!At
<1> QED
  BY <1>1, <1>2, Ends DEF FormInv, Forms!TypeOK

\* The student's photograph could not be stored.
LEMMA PromoteFailsInv ==
    ASSUME Forms!FormsAssumption, FormInv, NEW r \in Visits, Forms!PromoteFails(r)
    PROVE  FormInv'
<1>1. Forms!End(r) /\ UNCHANGED <<sub, student>>
    /\ (Forms!Release(r) \/ UNCHANGED <<review, claim>>)
  BY DEF Forms!PromoteFails
<1>2. /\ store' \subseteq Forms!Objects /\ lost' \subseteq Forms!Objects /\ fresh' = fresh
      /\ visits' = visits
      /\ faults' \subseteq {"cleanup", "refresh", "crash"}
  BY DEF Forms!PromoteFails, FormInv, Forms!TypeOK, Forms!Request, Forms!Photos, Forms!At
<1> QED
  BY <1>1, <1>2, Ends DEF FormInv, Forms!TypeOK

\* The approval is rolled back.
LEMMA ApproveFailsInv ==
    ASSUME Forms!FormsAssumption, FormInv, NEW r \in Visits, Forms!ApproveFails(r)
    PROVE  FormInv'
<1>1. Forms!End(r) /\ UNCHANGED <<sub, student>>
    /\ (Forms!Release(r) \/ UNCHANGED <<review, claim>>)
  BY DEF Forms!ApproveFails
<1>2. /\ store' \subseteq Forms!Objects /\ lost' \subseteq Forms!Objects /\ fresh' = fresh
      /\ visits' = visits
      /\ faults' \subseteq {"cleanup", "refresh", "crash"}
  BY DEF Forms!ApproveFails, Forms!Delete, FormInv, Forms!TypeOK, Forms!Request, Forms!Photos,
      Forms!At
<1> QED
  BY <1>1, <1>2, Ends DEF FormInv, Forms!TypeOK

\* The refresh after the commit fails.
LEMMA RefreshFailsInv ==
    ASSUME Forms!FormsAssumption, FormInv, NEW r \in Visits, Forms!RefreshFails(r)
    PROVE  FormInv'
<1>1. Forms!End(r) /\ UNCHANGED <<sub, student>>
    /\ (Forms!Release(r) \/ UNCHANGED <<review, claim>>)
  BY DEF Forms!RefreshFails
<1>2. /\ store' \subseteq Forms!Objects /\ lost' \subseteq Forms!Objects /\ fresh' = fresh
      /\ visits' = visits
      /\ faults' \subseteq {"cleanup", "refresh", "crash"}
  BY DEF Forms!RefreshFails, FormInv, Forms!TypeOK, Forms!Request, Forms!Photos, Forms!At
<1> QED
  BY <1>1, <1>2, Ends DEF FormInv, Forms!TypeOK

\* The rejection is rolled back.
LEMMA RejectFailsInv ==
    ASSUME Forms!FormsAssumption, FormInv, NEW r \in Visits, Forms!RejectFails(r)
    PROVE  FormInv'
<1>1. Forms!End(r) /\ UNCHANGED <<sub, student>>
    /\ (Forms!Release(r) \/ UNCHANGED <<review, claim>>)
  BY DEF Forms!RejectFails
<1>2. /\ store' \subseteq Forms!Objects /\ lost' \subseteq Forms!Objects /\ fresh' = fresh
      /\ visits' = visits
      /\ faults' \subseteq {"cleanup", "refresh", "crash"}
  BY DEF Forms!RejectFails, FormInv, Forms!TypeOK, Forms!Request, Forms!Photos, Forms!At
<1> QED
  BY <1>1, <1>2, Ends DEF FormInv, Forms!TypeOK

\* The submitted photograph is deleted.
LEMMA CleanInv ==
    ASSUME Forms!FormsAssumption, FormInv, NEW r \in Visits, Forms!Clean(r)
    PROVE  FormInv'
<1>1. Forms!End(r) /\ UNCHANGED <<sub, student>>
    /\ (Forms!Release(r) \/ UNCHANGED <<review, claim>>)
  BY DEF Forms!Clean
<1>2. /\ store' \subseteq Forms!Objects /\ lost' \subseteq Forms!Objects /\ fresh' = fresh
      /\ visits' = visits
      /\ faults' \subseteq {"cleanup", "refresh", "crash"}
  BY DEF Forms!Clean, Forms!Delete, FormInv, Forms!TypeOK, Forms!Request, Forms!Photos, Forms!At
<1> QED
  BY <1>1, <1>2, Ends DEF FormInv, Forms!TypeOK

\* The review gets the row of a pending submission, or ends.
LEMMA ReviewLockInv ==
    ASSUME Forms!FormsAssumption, FormInv, NEW r \in Visits, Forms!ReviewLock(r)
    PROVE  FormInv'
<1>1. /\ visit \in [Visits -> Forms!Request \cup {None}] /\ review \in [Subs -> Visits \cup {None}]
      /\ visit[r] \in Forms!Request /\ visit[r] # None /\ visit[r].sub \in Subs
      /\ visit[r].pc = "lock"
      /\ review[visit[r].sub] = None
  BY DEF Forms!ReviewLock, Forms!At, FormInv, Forms!TypeOK, Forms!Request
<1>2. CASE sub[visit[r].sub].status = "pending"
  <2>1. sub[visit[r].sub] \in Forms!Pending
    BY <1>1, <1>2 DEF FormInv, Forms!TypeOK, HoldInv, Holds, Forms!Sub, Forms!Pending,
        Forms!Approved, Forms!Rejected
  <2>2. PICK q \in Forms!Request :
      q = [visit[r] EXCEPT !.pc = IF visit[r].approve THEN "check" ELSE "reject",
                                     !.wants = sub[visit[r].sub].photo # None,
                                     !.temp = sub[visit[r].sub].photo]
    BY <1>1, <2>1 DEF Forms!Request, Forms!Pending
  <2>3. q.sub = visit[r].sub /\ q.pc \in {"check", "reject"} /\ q # None
    BY <1>1, <2>2 DEF Forms!Request, Forms!FormsAssumption
  <2>4. visit' = [visit EXCEPT ![r] = q] /\ review' = [review EXCEPT ![visit[r].sub] = r]
    BY <1>1, <1>2, <2>2 DEF Forms!ReviewLock, Forms!Request
  <2>5. Forms!TypeOK'
    BY <1>1, <2>4 DEF Forms!ReviewLock, FormInv, Forms!TypeOK
  <2>6. Keeps(r)
    BY <1>1, <2>4 DEF Forms!ReviewLock, Keeps, Forms!FormsAssumption
  <2>7. Holds(r, q)'
    BY <1>1, <2>1, <2>3, <2>4 DEF Forms!ReviewLock, Holds, Submitting, Reviewing
  <2>8. q.pc \notin Submitting
    BY <2>3 DEF Submitting
  <2> QED
    BY <1>1, <2>3, <2>4, <2>5, <2>6, <2>7, <2>8, Advances DEF FormInv
<1>3. CASE sub[visit[r].sub].status # "pending"
  <2>1. Forms!End(r) /\ UNCHANGED <<sub, student, review, claim, store, fresh, visits, lost,
      faults>>
    BY <1>3 DEF Forms!ReviewLock
  <2> QED
    BY <2>1, Ends DEF FormInv, Forms!TypeOK
<1> QED
  BY <1>2, <1>3

\* The insert takes a key that is free, or the approval ends.
LEMMA ApproveFlushInv ==
    ASSUME Forms!FormsAssumption, FormInv, NEW r \in Visits, Forms!ApproveFlush(r)
    PROVE  FormInv'
<1>1. /\ visit \in [Visits -> Forms!Request \cup {None}] /\ claim \in [Keys -> Visits \cup {None}]
      /\ visit[r] \in Forms!Request /\ visit[r] # None /\ visit[r].key \in Keys
      /\ visit[r].pc = "flush"
      /\ claim[visit[r].key] = None
  BY DEF Forms!ApproveFlush, Forms!At, FormInv, Forms!TypeOK, Forms!Request
<1>2. CASE student[visit[r].key] = None
  <2>1. PICK q \in Forms!Request :
            q = [visit[r] EXCEPT !.pc = IF visit[r].wants THEN "promote" ELSE "commit"]
    BY <1>1 DEF Forms!Request
  <2>2. q.sub = visit[r].sub /\ q.key = visit[r].key /\ q.pc \in {"promote", "commit"} /\ q # None
    BY <1>1, <2>1 DEF Forms!Request, Forms!FormsAssumption
  <2>3. visit' = [visit EXCEPT ![r] = q] /\ claim' = [claim EXCEPT ![visit[r].key] = r]
    BY <1>1, <1>2, <2>1 DEF Forms!ApproveFlush, Forms!To, Forms!Request
  <2>4. Forms!TypeOK'
    BY <1>1, <1>2, <2>3 DEF Forms!ApproveFlush, FormInv, Forms!TypeOK
  <2>5. Keeps(r)
    BY <1>1, <1>2, <2>3 DEF Forms!ApproveFlush, Keeps, Forms!FormsAssumption
  <2>6. review[visit[r].sub] = r /\ sub[visit[r].sub] \in Forms!Pending
    BY <1>1 DEF FormInv, HoldInv, Holds, Reviewing
  <2>7. Holds(r, q)'
    BY <1>1, <1>2, <2>2, <2>3, <2>6 DEF Forms!ApproveFlush, Holds, Submitting, Reviewing
  <2>8. q.pc \notin Submitting
    BY <2>2 DEF Submitting
  <2> QED
    BY <1>1, <2>2, <2>3, <2>4, <2>5, <2>7, <2>8, Advances DEF FormInv
<1>3. CASE student[visit[r].key] # None
  <2>1. Forms!End(r) /\ Forms!Release(r) /\ UNCHANGED <<sub, student, store, fresh, visits, lost,
      faults>>
    BY <1>3 DEF Forms!ApproveFlush
  <2> QED
    BY <2>1, Ends DEF FormInv, Forms!TypeOK
<1> QED
  BY <1>2, <1>3

\* The submission is stored under its own id.
LEMMA SubmitCommitInv ==
    ASSUME Forms!FormsAssumption, FormInv, NEW r \in Visits, Forms!SubmitCommit(r)
    PROVE  FormInv'
<1>1. /\ visit \in [Visits -> Forms!Request \cup {None}] /\ sub \in [Subs -> Forms!Sub \cup {None}]
      /\ visit[r] \in Forms!Request /\ visit[r] # None /\ visit[r].sub \in Subs
      /\ visit[r].pc = "save"
  BY DEF Forms!SubmitCommit, Forms!At, FormInv, Forms!TypeOK, Forms!Request
<1>2. PICK row \in Forms!Pending : row = [status |-> "pending", key |-> visit[r].key,
                                    photo |-> visit[r].photo, student |-> None]
  BY <1>1 DEF Forms!Pending, Forms!Request
<1>3. sub' = [sub EXCEPT ![visit[r].sub] = row] /\ row # None
  BY <1>2 DEF Forms!SubmitCommit, Forms!Sub, Forms!FormsAssumption
<1>4. PICK q \in Forms!Request \cup {None} : q = None
  OBVIOUS
<1>5. visit' = [visit EXCEPT ![r] = q]
  BY <1>4 DEF Forms!SubmitCommit, Forms!End
<1>6. Forms!TypeOK'
  <2>1. sub' \in [Subs -> Forms!Sub \cup {None}] /\ visit' \in [Visits -> Forms!Request \cup {None}]
    BY <1>1, <1>3, <1>5 DEF Forms!Sub
  <2> QED
    BY <2>1 DEF Forms!SubmitCommit, FormInv, Forms!TypeOK
<1>7. ASSUME NEW p \in Visits \ {r}, visit[p] # None, Holds(p, visit[p])
      PROVE  Holds(p, visit[p])'
  <2>1. visit'[p] = visit[p] /\ visit[p].sub \in Subs /\ visit[p].sub # visit[r].sub
    BY <1>1, <1>5, <1>7 DEF FormInv, HoldInv, Alone, Submitting, Forms!Request
  <2> QED
    BY <1>1, <1>3, <1>7, <2>1 DEF Forms!SubmitCommit, Holds
<1> QED
  BY <1>4, <1>5, <1>6, <1>7, Moves DEF FormInv

\* A commit of a review: the rows of other submissions and keys stay, and no other
\* review holds this submission.
LEMMA Decides ==
    ASSUME Forms!FormsAssumption, FormInv, NEW r \in Visits, visit[r] # None,
           visit[r].pc \in {"commit", "reject"}, Forms!To(r, "refresh"), Forms!Release(r),
           NEW row \in Forms!Approved \cup Forms!Rejected,
               sub' = [sub EXCEPT ![visit[r].sub] = row],
           \A k \in Keys : student'[k] = student[k] \/ (k = visit[r].key /\ visit[r].pc = "commit")
    PROVE  HoldInv' /\ visit' \in [Visits -> Forms!Request \cup {None}]
        /\ sub' \in [Subs -> Forms!Sub \cup {None}]
           /\ review' \in [Subs -> Visits \cup {None}] /\ claim' \in [Keys -> Visits \cup {None}]
<1>1. /\ visit \in [Visits -> Forms!Request \cup {None}] /\ sub \in [Subs -> Forms!Sub \cup {None}]
      /\ review \in [Subs -> Visits \cup {None}] /\ claim \in [Keys -> Visits \cup {None}]
      /\ visit[r] \in Forms!Request /\ visit[r].sub \in Subs /\ visit[r].key \in Keys
  BY DEF FormInv, Forms!TypeOK, Forms!Request
<1>2. review[visit[r].sub] = r /\ sub[visit[r].sub] \in Forms!Pending
  BY DEF FormInv, HoldInv, Holds, Reviewing
<1>3. row \in Forms!Sub /\ row # None /\ sub[visit[r].sub] # None
  BY <1>2 DEF Forms!Sub, Forms!FormsAssumption
<1>4. PICK q \in Forms!Request : q = [visit[r] EXCEPT !.pc = "refresh"]
  BY <1>1 DEF Forms!Request
<1>5. visit' = [visit EXCEPT ![r] = q] /\ q.pc = "refresh" /\ q.sub = visit[r].sub
  BY <1>1, <1>4 DEF Forms!To, Forms!Request
<1>6. ASSUME NEW p \in Visits \ {r}, visit[p] # None, Holds(p, visit[p])
      PROVE  Holds(p, visit[p])'
  <2>1. visit'[p] = visit[p] /\ visit[p].sub \in Subs /\ visit[p].key \in Keys
    BY <1>1, <1>5, <1>6 DEF Forms!Request
  <2>2. visit[p].pc = "lock" => sub'[visit[p].sub] # None
    BY <1>1, <1>3, <1>6, <2>1 DEF Holds
  <2>3. visit[p].pc \in Reviewing => review'[visit[p].sub] = p
      /\ sub'[visit[p].sub] \in Forms!Pending
    BY <1>1, <1>2, <1>6, <2>1 DEF Holds, Forms!Release
  <2>4. visit[p].pc \in {"promote", "commit"} =>
            claim'[visit[p].key] = p /\ student'[visit[p].key] = None
    <3>1. visit[r].pc = "commit" => claim[visit[r].key] = r
      BY DEF FormInv, HoldInv, Holds
    <3> QED
      BY <1>1, <1>6, <2>1, <3>1 DEF Holds, Forms!Release
  <2>5. visit[p].pc \in Submitting => sub'[visit[p].sub] = None
    BY <1>1, <1>3, <1>6, <2>1 DEF Holds
  <2> QED
    BY <2>1, <2>2, <2>3, <2>4, <2>5 DEF Holds
<1>7. Holds(r, q)'
  BY <1>5 DEF Holds, Reviewing, Submitting
<1>8. \A p \in Visits \ {r} : visit[p] # None /\ visit[p].sub = q.sub =>
    visit[p].pc \notin Submitting
  BY <1>3, <1>5 DEF FormInv, HoldInv, Holds
<1>9. HoldInv'
  BY <1>5, <1>6, <1>7, <1>8, Moves DEF Submitting
<1> QED
  BY <1>1, <1>3, <1>5, <1>9 DEF Forms!Release

\* What the two reviews write.
LEMMA ApproveFacts ==
    ASSUME Forms!FormsAssumption, FormInv, NEW r \in Visits, Forms!ApproveCommit(r)
    PROVE  /\ visit[r] # None /\ visit[r].pc = "commit" /\ visit[r].sub \in Subs
           /\ visit[r].key \in Keys
           /\ sub[visit[r].sub] \in Forms!Pending /\ student[visit[r].key] = None
           /\ \E row \in Forms!Approved, new \in Forms!Student :
                  /\ sub' = [sub EXCEPT ![visit[r].sub] = row]
                  /\ student' = [student EXCEPT ![visit[r].key] = new]
                  /\ row # None /\ new # None /\ new.from = visit[r].sub
<1>1. /\ visit[r] \in Forms!Request /\ visit[r] # None /\ visit[r].pc = "commit"
      /\ visit[r].sub \in Subs
      /\ visit[r].key \in Keys /\ visit[r].photo \in Forms!Photos
  BY DEF Forms!ApproveCommit, Forms!At, FormInv, Forms!TypeOK, Forms!Request
<1>2. sub[visit[r].sub] \in Forms!Pending /\ student[visit[r].key] = None
  BY <1>1 DEF FormInv, HoldInv, Holds, Reviewing
<1>3. Forms!Processed(sub[visit[r].sub], "approved", visit[r].key) \in Forms!Approved
  BY <1>1, <1>2 DEF Forms!Processed, Forms!Pending, Forms!Approved, Forms!Photos
<1>4. [from |-> visit[r].sub, photo |-> visit[r].photo] \in Forms!Student
  BY <1>1 DEF Forms!Student
<1> QED
  BY <1>1, <1>2, <1>3, <1>4 DEF Forms!ApproveCommit, Forms!Sub, Forms!FormsAssumption

\* What a rejection writes.
LEMMA RejectFacts ==
    ASSUME Forms!FormsAssumption, FormInv, NEW r \in Visits, Forms!Reject(r)
    PROVE  /\ visit[r] # None /\ visit[r].pc = "reject" /\ visit[r].sub \in Subs
           /\ sub[visit[r].sub] \in Forms!Pending
           /\ \E row \in Forms!Rejected : sub' = [sub EXCEPT ![visit[r].sub] = row] /\ row # None
<1>1. visit[r] \in Forms!Request /\ visit[r] # None /\ visit[r].pc = "reject"
    /\ visit[r].sub \in Subs
  BY DEF Forms!Reject, Forms!At, FormInv, Forms!TypeOK, Forms!Request
<1>2. sub[visit[r].sub] \in Forms!Pending
  BY <1>1 DEF FormInv, HoldInv, Holds, Reviewing
<1>3. Forms!Processed(sub[visit[r].sub], "rejected", None) \in Forms!Rejected
  BY <1>1, <1>2 DEF Forms!Processed, Forms!Pending, Forms!Rejected, Forms!Photos
<1>4. sub' = [sub EXCEPT ![visit[r].sub] = Forms!Processed(sub[visit[r].sub], "rejected", None)]
  BY <1>1 DEF Forms!Reject, FormInv, Forms!TypeOK
<1> QED
  BY <1>1, <1>2, <1>3, <1>4 DEF Forms!Sub, Forms!FormsAssumption

\* The approval admits the student and decides the submission.
LEMMA ApproveCommitInv ==
    ASSUME Forms!FormsAssumption, FormInv, NEW r \in Visits, Forms!ApproveCommit(r)
    PROVE  FormInv'
<1>1. PICK row \in Forms!Approved, new \in Forms!Student :
          sub' = [sub EXCEPT ![visit[r].sub] = row]
              /\ student' = [student EXCEPT ![visit[r].key] = new]
  BY ApproveFacts
<1>2. \A k \in Keys : student'[k] = student[k] \/ (k = visit[r].key /\ visit[r].pc = "commit")
  BY <1>1, ApproveFacts DEF FormInv, Forms!TypeOK
<1>3. student' \in [Keys -> Forms!Student \cup {None}]
  BY <1>1, ApproveFacts DEF FormInv, Forms!TypeOK
<1> QED
  BY <1>1, <1>2, <1>3, ApproveFacts, Decides DEF Forms!ApproveCommit, FormInv, Forms!TypeOK

\* The rejection decides the submission.
LEMMA RejectInv ==
    ASSUME Forms!FormsAssumption, FormInv, NEW r \in Visits, Forms!Reject(r)
    PROVE  FormInv'
<1>1. PICK row \in Forms!Rejected : sub' = [sub EXCEPT ![visit[r].sub] = row]
  BY RejectFacts
<1>2. Forms!To(r, "refresh") /\ Forms!Release(r) /\ UNCHANGED <<student, store, fresh, visits, lost,
    faults>>
  BY DEF Forms!Reject
<1>3. /\ HoldInv' /\ visit' \in [Visits -> Forms!Request \cup {None}]
      /\ sub' \in [Subs -> Forms!Sub \cup {None}]
      /\ review' \in [Subs -> Visits \cup {None}] /\ claim' \in [Keys -> Visits \cup {None}]
  <2>1. \A k \in Keys : student'[k] = student[k] \/ (k = visit[r].key /\ visit[r].pc = "commit")
    BY DEF Forms!Reject
  <2>2. row \in Forms!Approved \cup Forms!Rejected
    OBVIOUS
  <2>3. visit[r] # None /\ visit[r].pc \in {"commit", "reject"}
    BY RejectFacts
  <2> QED
    BY <1>1, <1>2, <2>1, <2>2, <2>3, Decides
<1> QED
  BY <1>2, <1>3 DEF FormInv, Forms!TypeOK

\* A student who comes another way takes a key that no transaction has inserted.
LEMMA TakeKeyInv ==
    ASSUME Forms!FormsAssumption, FormInv, NEW k \in Keys, Forms!TakeKey(k)
    PROVE  FormInv'
<1>1. /\ visit \in [Visits -> Forms!Request \cup {None}] /\ claim[k] = None
      /\ student \in [Keys -> Forms!Student \cup {None}]
  BY DEF Forms!TakeKey, FormInv, Forms!TypeOK
<1>2. [from |-> None, photo |-> None] \in Forms!Student
  BY DEF Forms!Student, Forms!Photos
<1>3. Forms!TypeOK'
  <2>1. visits' \in 0 .. MaxVisits
    BY DEF Forms!TakeKey, FormInv, Forms!TypeOK, Forms!FormsAssumption
  <2>2. student' \in [Keys -> Forms!Student \cup {None}]
    BY <1>1, <1>2 DEF Forms!TakeKey
  <2>3. UNCHANGED <<sub, claim, review, store, fresh, visit, lost, faults>>
    BY DEF Forms!TakeKey
  <2> QED
    BY <2>1, <2>2, <2>3 DEF FormInv, Forms!TypeOK
<1>4. ASSUME NEW p \in Visits, visit[p] # None
      PROVE  Holds(p, visit[p])' /\ Alone(p)'
  <2>1. Holds(p, visit[p]) /\ Alone(p) /\ visit[p].key \in Keys /\ p # None
    BY <1>4 DEF FormInv, HoldInv, Forms!TypeOK, Forms!Request, Forms!FormsAssumption
  <2>2. Holds(p, visit[p])'
    BY <1>1, <2>1 DEF Forms!TakeKey, Holds
  <2>3. Alone(p)'
    BY <2>1 DEF Forms!TakeKey, Alone
  <2> QED
    BY <2>2, <2>3
<1> QED
  BY <1>3, <1>4 DEF Forms!TakeKey, FormInv, HoldInv

\* After a crash no request is left.
LEMMA CrashInv ==
    ASSUME Forms!FormsAssumption, FormInv, Forms!Crash
    PROVE  FormInv'
<1>1. visits' \in 0 .. MaxVisits
  BY DEF Forms!Crash, FormInv, Forms!TypeOK, Forms!FormsAssumption
<1>2. HoldInv'
  BY DEF Forms!Crash, HoldInv
<1> QED
  BY <1>1, <1>2 DEF Forms!Crash, FormInv, Forms!TypeOK

-----------------------------------------------------------------------------
\* No submission, student or request at the start.
LEMMA FormInit == Forms!FormsAssumption /\ Forms!Init => FormInv
BY DEF Forms!FormsAssumption, Forms!Init, FormInv, Forms!TypeOK, HoldInv

\* Every step keeps what requests hold.
LEMMA FormNext == Forms!FormsAssumption /\ FormInv /\ [Forms!Next]_formVars => FormInv'
<1> SUFFICES ASSUME Forms!FormsAssumption, FormInv, [Forms!Next]_formVars
             PROVE  FormInv'
  OBVIOUS
<1>1. CASE UNCHANGED formVars
  BY <1>1 DEF Forms!vars, formVars, FormInv, Forms!TypeOK, HoldInv, Holds, Alone
<1>2. ASSUME NEW r \in Visits, Forms!Step(r)
      PROVE  FormInv'
  BY <1>2, SubmitLoadInv, SubmitPutInv, SubmitPutFailsInv, SubmitCommitInv, SubmitFailsInv,
     ReviewBeginInv, ReviewLockInv, ApproveCheckInv, ApproveRefusedInv, ApproveFlushInv,
     PromoteInv, PromoteFailsInv, ApproveCommitInv, ApproveFailsInv, RefreshedInv,
     RefreshFailsInv, RejectInv, RejectFailsInv, CleanInv DEF Forms!Step
<1> QED
  BY <1>1, <1>2, TakeKeyInv, CrashInv DEF Forms!Next

-----------------------------------------------------------------------------
\* The steps that change what the abstract specification sees.
LEMMA AbstractSteps ==
    ASSUME Forms!FormsAssumption, FormInv, [Forms!Next]_formVars
    PROVE  [Forms!Decisions!Next]_(Forms!Decisions!vars)
<1>1. ASSUME NEW r \in Visits, Forms!SubmitCommit(r)
      PROVE  Forms!Decisions!Next
  <2>1. /\ visit[r].sub \in Subs /\ sub[visit[r].sub] = None
        /\ sub \in [Subs -> Forms!Sub \cup {None}]
        /\ [status |-> "pending", key |-> visit[r].key, photo |-> visit[r].photo, student |-> None]
               \in Forms!Pending
    BY <1>1 DEF Forms!SubmitCommit, Forms!At, FormInv, Forms!TypeOK, HoldInv, Holds, Submitting,
        Forms!Request, Forms!Pending
  <2>2. PICK row \in Forms!Pending : row # None /\ sub' = [sub EXCEPT ![visit[r].sub] = row]
    BY <1>1, <2>1 DEF Forms!SubmitCommit, Forms!Sub, Forms!FormsAssumption
  <2>3. row.status = "pending"
    BY DEF Forms!Pending
  <2>4. PICK s \in Subs : s = visit[r].sub
    BY <2>1
  <2>5. Forms!Decisions!Submit(s)
    BY <1>1, <2>1, <2>2, <2>3, <2>4 DEF Forms!SubmitCommit, Forms!Decisions!Submit
  <2> QED
    BY <2>5 DEF Forms!Decisions!Next
<1>2. ASSUME NEW r \in Visits, Forms!ApproveCommit(r)
      PROVE  Forms!Decisions!Next
  <2>1. PICK row \in Forms!Approved, new \in Forms!Student :
            /\ sub' = [sub EXCEPT ![visit[r].sub] = row]
            /\ student' = [student EXCEPT ![visit[r].key] = new]
            /\ row # None /\ new # None /\ new.from = visit[r].sub
    BY <1>2, ApproveFacts
  <2>2. /\ visit[r].sub \in Subs /\ visit[r].key \in Keys /\ student[visit[r].key] = None
        /\ sub[visit[r].sub] # None /\ sub[visit[r].sub].status = "pending"
        /\ row.status = "approved" /\ visit[r].sub # None
        /\ sub \in [Subs -> Forms!Sub \cup {None}]
        /\ student \in [Keys -> Forms!Student \cup {None}]
    BY <1>2, ApproveFacts DEF FormInv, Forms!TypeOK, Forms!Pending, Forms!Approved, Forms!Sub,
        Forms!FormsAssumption
  <2>3. PICK s \in Subs, k \in Keys : s = visit[r].sub /\ k = visit[r].key
    BY <2>2
  <2>4. Forms!Decisions!Approve(s, k)
    BY <2>1, <2>2, <2>3 DEF Forms!Decisions!Approve
  <2> QED
    BY <2>4 DEF Forms!Decisions!Next
<1>3. ASSUME NEW r \in Visits, Forms!Reject(r)
      PROVE  Forms!Decisions!Next
  <2>1. PICK row \in Forms!Rejected : sub' = [sub EXCEPT ![visit[r].sub] = row] /\ row # None
    BY <1>3, RejectFacts
  <2>2. /\ visit[r].sub \in Subs /\ sub[visit[r].sub] # None /\ sub[visit[r].sub].status = "pending"
        /\ row.status = "rejected" /\ sub \in [Subs -> Forms!Sub \cup {None}]
    BY <1>3, RejectFacts DEF FormInv, Forms!TypeOK, Forms!Pending, Forms!Rejected, Forms!Sub,
        Forms!FormsAssumption
  <2>3. PICK s \in Subs : s = visit[r].sub
    BY <2>2
  <2>4. Forms!Decisions!Reject(s)
    BY <1>3, <2>1, <2>2, <2>3 DEF Forms!Reject, Forms!Decisions!Reject
  <2> QED
    BY <2>4 DEF Forms!Decisions!Next
<1>4. ASSUME NEW k \in Keys, Forms!TakeKey(k)
      PROVE  Forms!Decisions!Next
  <2>1. Forms!Decisions!AdmitElsewhere(k)
    <3>1. PICK new \in Forms!Student : new = [from |-> None, photo |-> None]
      BY DEF Forms!Student, Forms!Photos
    <3>2. new # None /\ new.from = None /\ student' = [student EXCEPT ![k] = new]
      BY <1>4, <3>1 DEF Forms!TakeKey, Forms!FormsAssumption
    <3> QED
      BY <1>4, <3>2 DEF Forms!TakeKey, FormInv, Forms!TypeOK, Forms!Decisions!AdmitElsewhere
  <2> QED
    BY <2>1 DEF Forms!Decisions!Next
<1>5. CASE UNCHANGED <<sub, student>>
  BY <1>5 DEF Forms!Decisions!vars
<1>6. ASSUME NEW r \in Visits, Forms!Step(r)
      PROVE  UNCHANGED <<sub, student>> \/ Forms!SubmitCommit(r) \/ Forms!ApproveCommit(r)
          \/ Forms!Reject(r)
  BY <1>6 DEF Forms!Step, Forms!SubmitLoad, Forms!SubmitPut, Forms!SubmitPutFails,
      Forms!SubmitFails, Forms!ReviewBegin, Forms!ReviewLock,
     Forms!ApproveCheck, Forms!ApproveRefused, Forms!ApproveFlush, Forms!Promote,
     Forms!PromoteFails, Forms!ApproveFails, Forms!Refreshed,
     Forms!RefreshFails, Forms!RejectFails, Forms!Clean
<1> QED
  BY <1>1, <1>2, <1>3, <1>4, <1>5, <1>6 DEF Forms!Next, Forms!vars, formVars, Forms!Crash

-----------------------------------------------------------------------------
(***************************************************************************)
(* The photographs of submissions and students.                            *)
(***************************************************************************)
Unstored == {"put", "lock", "check", "flush", "promote", "reject"}
Owning == {"save", "commit"}
Cleaning == {"refresh", "clean"}

\* What refers to object o: a submission, a student, a request that has stored it and
\* not committed it yet, a review that is about to delete it.
InSub(o) == \E s \in Subs : sub[s] # None /\ sub[s].photo = o
InStudent(o) == \E k \in Keys : student[k] # None /\ student[k].photo = o
Owned(o) == \E r \in Visits : visit[r] # None /\ visit[r].pc \in Owning /\ visit[r].photo = o
Discarded(o) == \E r \in Visits : visit[r] # None /\ visit[r].pc \in Cleaning /\ visit[r].temp = o

Known == (1 .. fresh) \cup {None}

\* The objects of a request in state q: what it has stored is its own until it commits,
\* the photograph it reviews that of the submission, and what it will delete is
\* referred to by nobody.
PhotosFit(q) ==
    /\ q.photo \in Known /\ q.temp \in Known
    /\ q.pc \in Unstored => q.photo = None
    /\ q.photo # None => ~ InSub(q.photo)
    /\ q.pc \in Owning /\ q.photo # None => q.photo \in store /\ ~ InStudent(q.photo)
    /\ q.pc \in {"put", "save", "lock"} => q.temp = None
    /\ q.pc \in Reviewing => q.temp = sub[q.sub].photo
    /\ q.pc \in Cleaning /\ q.temp # None => ~ InSub(q.temp) /\ ~ InStudent(q.temp)
RequestPhotos == \A r \in Visits : visit[r] # None => PhotosFit(visit[r])

\* What one request has stored is nothing that another has stored or will delete.
RequestsApart ==
    \A r, t \in Visits : visit[r] # None /\ visit[t] # None /\ visit[r].photo # None =>
        visit[t].temp # visit[r].photo /\ (t # r => visit[t].photo # visit[r].photo)

\* The photographs of submissions are their own.
TablePhotos ==
    /\ store \subseteq 1 .. fresh
    /\ \A s \in Subs : sub[s] # None => sub[s].photo \in Known
    /\ \A k \in Keys : student[k] # None => student[k].photo \in Known
    /\ \A s, t \in Subs : sub[s] # None /\ sub[t] # None /\ s # t /\ sub[s].photo # None =>
           sub[t].photo # sub[s].photo
    /\ \A s \in Subs : sub[s] # None /\ sub[s].photo # None => ~ InStudent(sub[s].photo)

\* Without a fault every object is somebody's.
Accounted ==
    faults = {} => \A o \in store : InSub(o) \/ InStudent(o) \/ Owned(o) \/ Discarded(o)

PhotoInv == RequestPhotos /\ RequestsApart /\ TablePhotos /\ Forms!PhotosHold /\ Accounted

-----------------------------------------------------------------------------
\* The end of a request, seen as a move to None.
LEMMA EndMoves ==
    ASSUME NEW r \in Visits, Forms!End(r)
    PROVE  visit' = [visit EXCEPT ![r] = None]
BY DEF Forms!End

\* A request moves within the class of states that keeps its objects, or begins or
\* ends without any; the tables and the bucket stay.
LEMMA Quiet ==
    ASSUME Forms!FormsAssumption, FormInv, PhotoInv, NEW r \in Visits,
           NEW q \in Forms!Request \cup {None},
           visit' = [visit EXCEPT ![r] = q], UNCHANGED <<sub, student, store, fresh, lost, faults>>,
           q # None => /\ PhotosFit(q)
                       /\ q.photo # None => visit[r] # None /\ q.photo = visit[r].photo
                       /\ q.temp # None =>
                              InSub(q.temp) \/ (visit[r] # None /\ q.temp = visit[r].temp),
           visit[r] # None /\ visit[r].pc \in Owning /\ visit[r].photo # None =>
               q # None /\ q.pc \in Owning /\ q.photo = visit[r].photo,
           visit[r] # None /\ visit[r].pc \in Cleaning /\ visit[r].temp # None =>
               q # None /\ q.pc \in Cleaning /\ q.temp = visit[r].temp
    PROVE  PhotoInv'
<1>1. visit'[r] = q /\ \A t \in Visits \ {r} : visit'[t] = visit[t]
  BY DEF FormInv, Forms!TypeOK
<1>2. \A o : (InSub(o)' <=> InSub(o)) /\ (InStudent(o)' <=> InStudent(o))
  BY DEF InSub, InStudent
<1>3. \A p : PhotosFit(p) => PhotosFit(p)'
  BY <1>2 DEF PhotosFit, Known
<1>4. RequestPhotos'
  <2> SUFFICES ASSUME NEW t \in Visits, visit'[t] # None
               PROVE  PhotosFit(visit[t])'
    BY DEF RequestPhotos
  <2>1. PICK p : p = visit'[t] /\ PhotosFit(p)
    BY <1>1 DEF PhotoInv, RequestPhotos
  <2>2. PhotosFit(p)'
    BY <1>3, <2>1
  <2> QED
    BY <2>1, <2>2 DEF PhotosFit
<1>5. RequestsApart'
  <2> SUFFICES ASSUME NEW t \in Visits, NEW u \in Visits, visit'[t] # None, visit'[u] # None,
                      visit'[t].photo # None
               PROVE  visit'[u].temp # visit'[t].photo
                   /\ (u # t => visit'[u].photo # visit'[t].photo)
    BY DEF RequestsApart
  <2>1. visit[t] # None /\ visit'[t].photo = visit[t].photo /\ ~ InSub(visit'[t].photo)
    BY <1>1 DEF PhotoInv, RequestPhotos, PhotosFit
  <2>2. visit'[u].temp # visit'[t].photo
    BY <1>1, <2>1 DEF PhotoInv, RequestsApart
  <2>3. u # t => visit'[u].photo # visit'[t].photo
    BY <1>1, <2>1 DEF PhotoInv, RequestsApart
  <2> QED
    BY <2>2, <2>3
<1>6. TablePhotos' /\ Forms!PhotosHold'
  BY DEF PhotoInv, TablePhotos, Forms!PhotosHold, Known, InStudent
<1>7. Accounted'
  <2> SUFFICES ASSUME faults = {}, NEW o \in store
               PROVE  InSub(o)' \/ InStudent(o)' \/ Owned(o)' \/ Discarded(o)'
    BY DEF Accounted
  <2>1. o # None
    BY DEF Forms!FormsAssumption, FormInv, Forms!TypeOK, Forms!Objects
  <2>2. CASE InSub(o) \/ InStudent(o)
    BY <1>2, <2>2
  <2>3. CASE Owned(o)
    BY <1>1, <2>1, <2>3 DEF Owned
  <2>4. CASE Discarded(o)
    BY <1>1, <2>1, <2>4 DEF Discarded
  <2> QED
    BY <2>2, <2>3, <2>4 DEF PhotoInv, Accounted
<1> QED
  BY <1>4, <1>5, <1>6, <1>7 DEF PhotoInv

\* So does a request that ends without objects.
LEMMA QuietEnd ==
    ASSUME Forms!FormsAssumption, FormInv, PhotoInv, NEW r \in Visits, Forms!End(r),
           UNCHANGED <<sub, student, store, fresh, lost, faults>>,
           visit[r] # None, visit[r].pc \in Unstored
    PROVE  PhotoInv'
<1>1. PICK q \in Forms!Request \cup {None} : q = None
  OBVIOUS
<1>2. visit' = [visit EXCEPT ![r] = q]
  BY <1>1, EndMoves
<1>3. visit[r].pc \notin Owning /\ visit[r].pc \notin Cleaning
  BY DEF Unstored, Owning, Cleaning
<1> QED
  BY <1>1, <1>2, <1>3, Quiet

\* The steps that touch neither the tables nor the bucket.
LEMMA QuietSteps ==
    ASSUME Forms!FormsAssumption, FormInv, PhotoInv, NEW r \in Visits,
           \/ Forms!SubmitLoad(r) \/ Forms!SubmitPutFails(r) \/ Forms!ReviewBegin(r)
                  \/ Forms!ReviewLock(r)
           \/ Forms!ApproveCheck(r) \/ Forms!ApproveRefused(r) \/ Forms!ApproveFlush(r)
                  \/ Forms!PromoteFails(r)
           \/ Forms!Refreshed(r) \/ Forms!RejectFails(r)
    PROVE  PhotoInv'
<1>0. visit \in [Visits -> Forms!Request \cup {None}] /\ None \in Known
  BY DEF FormInv, Forms!TypeOK, Known
<1>1. CASE Forms!SubmitLoad(r)
  <2>1. PICK s \in Subs, k \in Keys, photo \in BOOLEAN :
          visit' = [visit EXCEPT ![r] = [pc |-> IF photo THEN "put" ELSE "save", sub |-> s,
                 key |-> k, wants |-> photo, approve |-> FALSE, photo |-> None, temp |-> None]]
    BY <1>1 DEF Forms!SubmitLoad
  <2>2. PICK q \in Forms!Request :
          q = [pc |-> IF photo THEN "put" ELSE "save", sub |-> s, key |-> k,
               wants |-> photo, approve |-> FALSE, photo |-> None, temp |-> None]
    BY DEF Forms!Request, Forms!Photos
  <2>3. q.pc \in {"put", "save"} /\ q.photo = None /\ q.temp = None
        /\ visit' = [visit EXCEPT ![r] = q]
    BY <2>1, <2>2
  <2>4. PhotosFit(q)
    BY <1>0, <2>3 DEF PhotosFit, Unstored, Owning, Cleaning, Reviewing
  <2> QED
    BY <1>1, <2>3, <2>4, Quiet DEF Forms!SubmitLoad, Forms!Begin
<1>2. CASE Forms!ReviewBegin(r)
  <2>1. PICK s \in Subs, approve \in BOOLEAN :
          /\ sub[s] # None
          /\ visit' = [visit EXCEPT ![r] = [pc |-> "lock", sub |-> s, key |-> sub[s].key,
                 wants |-> FALSE, approve |-> approve, photo |-> None, temp |-> None]]
    BY <1>2 DEF Forms!ReviewBegin
  <2>2. sub[s].key \in Keys
    BY <2>1 DEF FormInv, Forms!TypeOK, Forms!Sub, Forms!Pending, Forms!Approved, Forms!Rejected
  <2>3. PICK q \in Forms!Request :
          q = [pc |-> "lock", sub |-> s, key |-> sub[s].key,
               wants |-> FALSE, approve |-> approve, photo |-> None, temp |-> None]
    BY <2>2 DEF Forms!Request, Forms!Photos
  <2>4. q.pc = "lock" /\ q.photo = None /\ q.temp = None /\ visit' = [visit EXCEPT ![r] = q]
    BY <2>1, <2>3
  <2>5. PhotosFit(q)
    BY <1>0, <2>4 DEF PhotosFit, Unstored, Owning, Cleaning, Reviewing
  <2> QED
    BY <1>2, <2>4, <2>5, Quiet DEF Forms!ReviewBegin, Forms!Begin
<1>3. CASE Forms!ReviewLock(r)
  <2>1. /\ visit[r] \in Forms!Request /\ visit[r] # None /\ visit[r].pc = "lock"
        /\ visit[r].sub \in Subs
        /\ visit[r].photo = None /\ visit[r].temp = None /\ sub[visit[r].sub] # None
    BY <1>0, <1>3 DEF Forms!ReviewLock, Forms!At, FormInv, HoldInv, Holds, Forms!Request, PhotoInv,
        RequestPhotos,
       PhotosFit, Unstored
  <2>2. CASE sub[visit[r].sub].status = "pending"
    <3>1. sub[visit[r].sub] \in Forms!Pending
      BY <2>1, <2>2 DEF FormInv, Forms!TypeOK, Forms!Sub, Forms!Pending, Forms!Approved,
          Forms!Rejected
    <3>2. PICK q \in Forms!Request :
            q = [visit[r] EXCEPT !.pc = IF visit[r].approve THEN "check" ELSE "reject",
                               !.wants = sub[visit[r].sub].photo # None,
                               !.temp = sub[visit[r].sub].photo]
      BY <2>1, <3>1 DEF Forms!Request, Forms!Pending
    <3>0. visit' = [visit EXCEPT ![r] = q]
      BY <1>3, <2>2, <3>2 DEF Forms!ReviewLock
    <3>3. /\ q.pc \in {"check", "reject"} /\ q.photo = None /\ q.sub = visit[r].sub
          /\ q.temp = sub[visit[r].sub].photo /\ visit' = [visit EXCEPT ![r] = q]
      BY <2>1, <3>0, <3>2 DEF Forms!Request
    <3>4. InSub(q.temp) /\ q.temp \in Known
      BY <2>1, <3>3 DEF InSub, PhotoInv, TablePhotos
    <3>5. PhotosFit(q)
      BY <1>0, <3>3, <3>4 DEF PhotosFit, Unstored, Owning, Cleaning, Reviewing
    <3> QED
      BY <1>3, <2>1, <3>3, <3>4, <3>5, Quiet DEF Forms!ReviewLock, Owning, Cleaning
  <2>3. CASE sub[visit[r].sub].status # "pending"
    <3>1. Forms!End(r) /\ UNCHANGED <<sub, student, store, fresh, lost, faults>>
      BY <1>3, <2>3 DEF Forms!ReviewLock
    <3> QED
      BY <2>1, <3>1, QuietEnd DEF Unstored
  <2> QED
    BY <2>2, <2>3
<1>4. ASSUME NEW from \in {"check", "flush", "refresh"},
             NEW to \in {"flush", "promote", "commit", "clean"},
             Forms!At(r, from), Forms!To(r, to), UNCHANGED <<sub, student, store, fresh, lost,
                 faults>>,
             from = "refresh" <=> to = "clean"
      PROVE  PhotoInv'
  <2>1. /\ visit[r] \in Forms!Request /\ visit[r] # None /\ visit[r].pc = from
        /\ PhotosFit(visit[r])
    BY <1>0, <1>4 DEF Forms!At, PhotoInv, RequestPhotos
  <2>2. PICK q \in Forms!Request : q = [visit[r] EXCEPT !.pc = to]
    BY <2>1 DEF Forms!Request
  <2>3. /\ visit' = [visit EXCEPT ![r] = q] /\ q.pc = to
        /\ q.photo = visit[r].photo /\ q.temp = visit[r].temp /\ q.sub = visit[r].sub
    BY <1>4, <2>1, <2>2 DEF Forms!To, Forms!Request
  <2>4. PhotosFit(q)
    BY <1>4, <2>1, <2>3 DEF PhotosFit, Unstored, Owning, Cleaning, Reviewing
  <2>5. /\ q.photo # None => visit[r] # None /\ q.photo = visit[r].photo
        /\ q.temp # None => InSub(q.temp) \/ (visit[r] # None /\ q.temp = visit[r].temp)
    BY <2>1, <2>3
  <2>6. visit[r].pc \notin Owning
    BY <1>4, <2>1 DEF Owning
  <2>7. visit[r].pc \in Cleaning => q # None /\ q.pc \in Cleaning /\ q.temp = visit[r].temp
    BY <1>4, <2>1, <2>3 DEF Cleaning, Forms!FormsAssumption
  <2> QED
    BY <1>4, <2>3, <2>4, <2>5, <2>6, <2>7, Quiet
<1>5. CASE Forms!ApproveCheck(r)
  BY <1>4, <1>5 DEF Forms!ApproveCheck
<1>6. CASE Forms!Refreshed(r)
  BY <1>4, <1>6 DEF Forms!Refreshed
<1>7. CASE Forms!ApproveFlush(r)
  <2>1. CASE student[visit[r].key] = None
    <3>1. PICK to \in {"promote", "commit"} : Forms!To(r, to)
      BY <1>7, <2>1 DEF Forms!ApproveFlush
    <3> QED
      BY <1>4, <1>7, <3>1 DEF Forms!ApproveFlush
  <2>2. CASE student[visit[r].key] # None
    BY <1>7, <2>2, QuietEnd DEF Forms!ApproveFlush, Forms!At, Unstored
  <2> QED
    BY <2>1, <2>2
<1>8. CASE Forms!SubmitPutFails(r) \/ Forms!ApproveRefused(r) \/ Forms!PromoteFails(r)
    \/ Forms!RejectFails(r)
  BY <1>8, QuietEnd DEF Forms!SubmitPutFails, Forms!ApproveRefused, Forms!PromoteFails,
      Forms!RejectFails, Forms!At, Unstored
<1> QED
  BY <1>1, <1>2, <1>3, <1>5, <1>6, <1>7, <1>8

\* An object stored under a new number belongs to the request that has stored it.
LEMMA StoredStep ==
    ASSUME Forms!FormsAssumption, FormInv, PhotoInv, NEW r \in Visits, Forms!SubmitPut(r)
           \/ Forms!Promote(r)
    PROVE  PhotoInv'
<1>1. PICK next \in Owning :
        /\ Forms!Stored(r, next) /\ UNCHANGED <<sub, student, lost, faults>>
        /\ visit[r] # None /\ visit[r].pc \in {"put", "promote"}
        /\ next = "save" <=> visit[r].pc = "put"
  BY DEF Forms!SubmitPut, Forms!Promote, Forms!At, Owning
<1>2. visit[r] \in Forms!Request /\ visit \in [Visits -> Forms!Request \cup {None}]
    /\ PhotosFit(visit[r])
      /\ visit[r].photo = None
  BY <1>1 DEF FormInv, Forms!TypeOK, PhotoInv, RequestPhotos, PhotosFit, Unstored
<1> DEFINE o == fresh + 1
<1>3. fresh \in Nat /\ o \in Forms!Objects /\ store \subseteq 1 .. fresh /\ None \notin Nat
  BY <1>1 DEF Forms!Stored, FormInv, Forms!TypeOK, Forms!Objects, Forms!FormsAssumption, PhotoInv,
      TablePhotos
<1>4. PICK q \in Forms!Request : q = [visit[r] EXCEPT !.photo = o, !.pc = next]
  BY <1>2, <1>3 DEF Forms!Request, Forms!Photos, Owning
<1>5. /\ visit' = [visit EXCEPT ![r] = q] /\ store' = store \cup {o} /\ fresh' = o
      /\ q.pc = next /\ q.photo = o /\ q.temp = visit[r].temp /\ q.sub = visit[r].sub
  BY <1>1, <1>2, <1>4 DEF Forms!Stored, Forms!Request
<1>6. visit'[r] = q /\ \A t \in Visits \ {r} : visit'[t] = visit[t]
  BY <1>2, <1>5
<1>7. o \notin Known /\ o # None /\ Known \subseteq Known' /\ o \in Known'
  BY <1>3, <1>5 DEF Known
<1> HIDE DEF o
<1>8. \A x : (InSub(x)' <=> InSub(x)) /\ (InStudent(x)' <=> InStudent(x))
  BY <1>1 DEF InSub, InStudent
<1>9. ~ InSub(o) /\ ~ InStudent(o)
  BY <1>7 DEF InSub, InStudent, PhotoInv, TablePhotos
<1>10. PhotosFit(q)'
  BY <1>1, <1>2, <1>5, <1>7, <1>8, <1>9
     DEF PhotosFit, Owning, Cleaning, Unstored, Reviewing
<1>11. RequestPhotos'
  <2> SUFFICES ASSUME NEW t \in Visits, visit'[t] # None
               PROVE  PhotosFit(visit[t])'
    BY DEF RequestPhotos
  <2>1. PICK p : p = visit'[t]
    OBVIOUS
  <2>2. PhotosFit(p)'
    <3>1. CASE t = r
      BY <1>6, <1>10, <2>1, <3>1 DEF PhotosFit
    <3>2. CASE t # r
      <4>1. PhotosFit(p)
        BY <1>6, <2>1, <3>2 DEF PhotoInv, RequestPhotos
      <4> QED
        BY <1>1, <1>5, <1>7, <1>8, <4>1 DEF PhotosFit
    <3> QED
      BY <3>1, <3>2
  <2> QED
    BY <2>1, <2>2 DEF PhotosFit
<1>12. RequestsApart'
  <2> SUFFICES ASSUME NEW t \in Visits, NEW u \in Visits, visit'[t] # None, visit'[u] # None,
                      visit'[t].photo # None
               PROVE  visit'[u].temp # visit'[t].photo
                   /\ (u # t => visit'[u].photo # visit'[t].photo)
    BY DEF RequestsApart
  <2>1. \A v \in Visits : visit[v] # None => visit[v].temp # o /\ visit[v].photo # o
    BY <1>7 DEF PhotoInv, RequestPhotos, PhotosFit
  <2>2. CASE t = r
    BY <1>1, <1>5, <1>6, <2>1, <2>2
  <2>3. CASE t # r
    BY <1>1, <1>5, <1>6, <2>1, <2>3 DEF PhotoInv, RequestsApart
  <2> QED
    BY <2>2, <2>3
<1>13. TablePhotos'
  <2>1. store' \subseteq 1 .. fresh'
    BY <1>3, <1>5 DEF o
  <2> QED
    BY <1>1, <1>7, <1>8, <2>1 DEF PhotoInv, TablePhotos
<1>14. Forms!PhotosHold'
  BY <1>1, <1>5 DEF PhotoInv, Forms!PhotosHold
<1>15. Accounted'
  <2> SUFFICES ASSUME faults = {}, NEW x \in store'
               PROVE  InSub(x)' \/ InStudent(x)' \/ Owned(x)' \/ Discarded(x)'
    BY <1>1 DEF Accounted
  <2>1. CASE x = o
    <3>1. q # None
      BY DEF Forms!FormsAssumption
    <3> QED
      BY <1>5, <1>6, <2>1, <3>1 DEF Owned
  <2>2. CASE x # o
    <3>1. x \in store /\ x # None
      BY <1>3, <1>5, <2>2
    <3>2. visit[r].pc \notin Owning /\ visit[r].pc \notin Cleaning
      BY <1>1 DEF Owning, Cleaning
    <3>3. Owned(x) => Owned(x)'
      BY <1>6, <3>2 DEF Owned
    <3>4. Discarded(x) => Discarded(x)'
      BY <1>6, <3>2 DEF Discarded
    <3> QED
      BY <1>8, <3>1, <3>3, <3>4 DEF PhotoInv, Accounted
  <2> QED
    BY <2>1, <2>2
<1> QED
  BY <1>11, <1>12, <1>13, <1>14, <1>15 DEF PhotoInv

\* A request ends and takes an object with it that nobody refers to: the one it has
\* stored and not committed, or the one it replaced.
LEMMA DeleteStep ==
    ASSUME Forms!FormsAssumption, FormInv, PhotoInv, NEW r \in Visits,
           Forms!SubmitFails(r) \/ Forms!ApproveFails(r) \/ Forms!Clean(r)
    PROVE  PhotoInv'
<1>1. PICK o : /\ Forms!Delete(o) /\ Forms!End(r) /\ UNCHANGED <<sub, student, fresh, lost>>
               /\ visit[r] # None
               /\ \/ visit[r].pc \in Owning /\ o = visit[r].photo
                  \/ visit[r].pc = "clean" /\ o = visit[r].temp
  BY DEF Forms!SubmitFails, Forms!ApproveFails, Forms!Clean, Forms!At, Owning
<1>2. visit[r] \in Forms!Request /\ visit \in [Visits -> Forms!Request \cup {None}]
    /\ PhotosFit(visit[r])
  BY <1>1 DEF FormInv, Forms!TypeOK, PhotoInv, RequestPhotos
<1>3. visit'[r] = None /\ \A t \in Visits \ {r} : visit'[t] = visit[t]
  BY <1>1, <1>2, EndMoves
<1>4. o # None => ~ InSub(o) /\ ~ InStudent(o)
  BY <1>1, <1>2 DEF PhotosFit, Owning, Cleaning
<1>5. \A t \in Visits \ {r} : visit[t] # None /\ visit[t].pc \in Owning /\ visit[t].photo # None =>
          visit[t].photo # o
  BY <1>1 DEF PhotoInv, RequestsApart
<1>6. store' \subseteq store /\ (\A x \in store : x # o => x \in store')
      /\ ((store' = store \ {o} /\ faults' = faults) \/ faults' # {})
  BY <1>1 DEF Forms!Delete
<1>7. \A x : (InSub(x)' <=> InSub(x)) /\ (InStudent(x)' <=> InStudent(x))
  BY <1>1 DEF InSub, InStudent
<1>8. RequestPhotos'
  <2> SUFFICES ASSUME NEW t \in Visits, visit'[t] # None
               PROVE  PhotosFit(visit[t])'
    BY DEF RequestPhotos
  <2>1. t # r /\ visit'[t] = visit[t]
    BY <1>3
  <2>2. PICK p : p = visit[t] /\ PhotosFit(p)
    BY <2>1 DEF PhotoInv, RequestPhotos
  <2>3. p.pc \in Owning /\ p.photo # None => p.photo \in store'
    BY <1>5, <1>6, <2>1, <2>2 DEF PhotosFit
  <2>4. PhotosFit(p)'
    BY <1>1, <1>7, <2>2, <2>3 DEF PhotosFit, Known
  <2> QED
    BY <2>1, <2>2, <2>4 DEF PhotosFit
<1>9. RequestsApart'
  BY <1>3 DEF PhotoInv, RequestsApart
<1>10. TablePhotos'
  BY <1>1, <1>6, <1>7 DEF PhotoInv, TablePhotos, Known
<1>11. Forms!PhotosHold'
  <2>1. ASSUME NEW s \in Subs, sub[s] # None
        PROVE  sub[s].photo \in store' \cup {None}
    BY <1>4, <1>6, <2>1 DEF PhotoInv, Forms!PhotosHold, InSub
  <2>2. ASSUME NEW k \in Keys, student[k] # None
        PROVE  student[k].photo \in store' \cup {None} \cup lost
    BY <1>4, <1>6, <2>2 DEF PhotoInv, Forms!PhotosHold, InStudent
  <2> QED
    BY <1>1, <2>1, <2>2 DEF Forms!PhotosHold
<1>12. Accounted'
  <2> SUFFICES ASSUME faults' = {}, NEW x \in store'
               PROVE  InSub(x)' \/ InStudent(x)' \/ Owned(x)' \/ Discarded(x)'
    BY DEF Accounted
  <2>1. x \in store /\ x # o /\ faults = {}
    BY <1>6
  <2>2. Owned(x) => Owned(x)'
    BY <1>1, <1>3, <2>1 DEF Owned, Owning
  <2>3. Discarded(x) => Discarded(x)' \/ (visit[r].pc \in Cleaning /\ x = visit[r].temp)
    BY <1>3 DEF Discarded
  <2>4. ~ (visit[r].pc \in Cleaning /\ x = visit[r].temp)
    BY <1>1, <2>1 DEF Owning, Cleaning
  <2> QED
    BY <1>7, <2>1, <2>2, <2>3, <2>4 DEF PhotoInv, Accounted
<1> QED
  BY <1>8, <1>9, <1>10, <1>11, <1>12 DEF PhotoInv

\* A refresh that fails after the commit deletes the photograph of the student the
\* request has admitted, and of nobody else: the student is in lost.
LEMMA RefreshFailsStep ==
    ASSUME Forms!FormsAssumption, FormInv, PhotoInv, NEW r \in Visits, Forms!RefreshFails(r)
    PROVE  PhotoInv'
<1> DEFINE o == visit[r].photo
<1>1. /\ Forms!End(r) /\ UNCHANGED <<sub, student, fresh>> /\ faults' # {}
      /\ visit[r] # None /\ visit[r].pc = "refresh"
      /\ \/ store' = store \ {o} /\ lost' = lost \cup ({o} \ {None})
         \/ store' = store /\ lost' = lost
  BY DEF Forms!RefreshFails, Forms!At
<1>2. visit[r] \in Forms!Request /\ visit \in [Visits -> Forms!Request \cup {None}]
    /\ PhotosFit(visit[r])
  BY <1>1 DEF FormInv, Forms!TypeOK, PhotoInv, RequestPhotos
<1>3. visit'[r] = None /\ \A t \in Visits \ {r} : visit'[t] = visit[t]
  BY <1>1, <1>2, EndMoves
<1>4. o # None => ~ InSub(o)
  BY <1>2 DEF PhotosFit
<1>5. \A t \in Visits \ {r} : visit[t] # None /\ visit[t].photo # None => visit[t].photo # o
  BY <1>1 DEF PhotoInv, RequestsApart
<1> HIDE DEF o
<1>6. store' \subseteq store /\ (\A x \in store : x # o => x \in store')
      /\ lost \subseteq lost' /\ (o # None /\ o \in store => o \in store' \/ o \in lost')
  BY <1>1
<1>7. \A x : (InSub(x)' <=> InSub(x)) /\ (InStudent(x)' <=> InStudent(x))
  BY <1>1 DEF InSub, InStudent
<1>8. RequestPhotos'
  <2> SUFFICES ASSUME NEW t \in Visits, visit'[t] # None
               PROVE  PhotosFit(visit[t])'
    BY DEF RequestPhotos
  <2>1. t # r /\ visit'[t] = visit[t]
    BY <1>3
  <2>2. PICK p : p = visit[t] /\ PhotosFit(p)
    BY <2>1 DEF PhotoInv, RequestPhotos
  <2>3. p.pc \in Owning /\ p.photo # None => p.photo \in store'
    BY <1>5, <1>6, <2>1, <2>2 DEF PhotosFit
  <2>4. PhotosFit(p)'
    BY <1>1, <1>7, <2>2, <2>3 DEF PhotosFit, Known
  <2> QED
    BY <2>1, <2>2, <2>4 DEF PhotosFit
<1>9. RequestsApart'
  BY <1>3 DEF PhotoInv, RequestsApart
<1>10. TablePhotos'
  BY <1>1, <1>6, <1>7 DEF PhotoInv, TablePhotos, Known
<1>11. Forms!PhotosHold'
  <2>1. ASSUME NEW s \in Subs, sub[s] # None
        PROVE  sub[s].photo \in store' \cup {None}
    BY <1>4, <1>6, <2>1 DEF PhotoInv, Forms!PhotosHold, InSub
  <2>2. ASSUME NEW k \in Keys, student[k] # None
        PROVE  student[k].photo \in store' \cup {None} \cup lost'
    BY <1>6, <2>2 DEF PhotoInv, Forms!PhotosHold
  <2> QED
    BY <1>1, <2>1, <2>2 DEF Forms!PhotosHold
<1>12. Accounted'
  BY <1>1 DEF Accounted
<1> QED
  BY <1>8, <1>9, <1>10, <1>11, <1>12 DEF PhotoInv

\* The photograph a visitor has stored becomes that of the submission.
LEMMA SubmitStep ==
    ASSUME Forms!FormsAssumption, FormInv, PhotoInv, NEW r \in Visits, Forms!SubmitCommit(r)
    PROVE  PhotoInv'
<1> DEFINE o == visit[r].photo
           s0 == visit[r].sub
<1>1. /\ Forms!End(r) /\ UNCHANGED <<student, store, fresh, lost, faults>>
      /\ visit[r] # None /\ visit[r].pc = "save"
      /\ sub' = [sub EXCEPT ![s0] = [status |-> "pending", key |-> visit[r].key, photo |-> o,
                                     student |-> None]]
  BY DEF Forms!SubmitCommit, Forms!At
<1>2. visit[r] \in Forms!Request /\ visit \in [Visits -> Forms!Request \cup {None}]
    /\ PhotosFit(visit[r])
      /\ sub \in [Subs -> Forms!Sub \cup {None}] /\ s0 \in Subs /\ o \in Forms!Photos
  BY <1>1 DEF FormInv, Forms!TypeOK, PhotoInv, RequestPhotos, Forms!Request
<1>3. visit'[r] = None /\ \A t \in Visits \ {r} : visit'[t] = visit[t]
  BY <1>1, <1>2, EndMoves
<1>4. o \in Known /\ (o # None => ~ InSub(o) /\ ~ InStudent(o) /\ o \in store)
  BY <1>1, <1>2 DEF PhotosFit, Owning
<1>5. \A t \in Visits \ {r} : visit[t] # None /\ o # None => visit[t].photo # o /\ visit[t].temp # o
  BY <1>1 DEF PhotoInv, RequestsApart
<1>6. sub[s0] = None /\ \A t \in Visits \ {r} : visit[t] # None => visit[t].sub # s0
  BY <1>1 DEF FormInv, HoldInv, Holds, Alone, Submitting
<1>7. PICK row : row = [status |-> "pending", key |-> visit[r].key, photo |-> o, student |-> None]
  OBVIOUS
<1>8. row # None /\ row.photo = o
  <2>1. row \in Forms!Pending
    BY <1>2, <1>7 DEF Forms!Pending, Forms!Request
  <2> QED
    BY <1>7, <2>1 DEF Forms!Sub, Forms!FormsAssumption
<1>9. sub'[s0] = row /\ \A s \in Subs \ {s0} : sub'[s] = sub[s]
  BY <1>1, <1>2, <1>7
<1> HIDE DEF o, s0
<1>10. /\ \A x : InStudent(x)' <=> InStudent(x)
       /\ \A x : InSub(x)' <=> InSub(x) \/ x = o
  BY <1>1, <1>2, <1>6, <1>8, <1>9 DEF InSub, InStudent
<1>11. RequestPhotos'
  <2> SUFFICES ASSUME NEW t \in Visits, visit'[t] # None
               PROVE  PhotosFit(visit[t])'
    BY DEF RequestPhotos
  <2>1. t # r /\ visit'[t] = visit[t]
    BY <1>3
  <2>2. PICK p : p = visit[t] /\ PhotosFit(p)
    BY <2>1 DEF PhotoInv, RequestPhotos
  <2>3. (p.photo # None => p.photo # o) /\ (p.temp # None => p.temp # o)
    BY <1>5, <2>1, <2>2
  <2>4. p.sub \in Subs => sub'[p.sub] = sub[p.sub]
    BY <1>6, <1>9, <2>1, <2>2
  <2>5. p.sub \in Subs
    BY <1>2, <2>1, <2>2 DEF Forms!Request
  <2>6. PhotosFit(p)'
    BY <1>1, <1>10, <2>2, <2>3, <2>4, <2>5 DEF PhotosFit, Known
  <2> QED
    BY <2>1, <2>2, <2>6 DEF PhotosFit
<1>12. RequestsApart'
  BY <1>3 DEF PhotoInv, RequestsApart
<1>13. TablePhotos'
  <2>1. ASSUME NEW s \in Subs, sub'[s] # None
        PROVE  sub'[s].photo \in Known
    BY <1>4, <1>8, <1>9, <2>1 DEF PhotoInv, TablePhotos
  <2>2. ASSUME NEW s \in Subs, NEW t \in Subs, sub'[s] # None, sub'[t] # None, s # t,
               sub'[s].photo # None
        PROVE  sub'[t].photo # sub'[s].photo
    <3>1. CASE s = s0
      BY <1>4, <1>8, <1>9, <2>2, <3>1 DEF InSub
    <3>2. CASE t = s0
      BY <1>4, <1>8, <1>9, <2>2, <3>2 DEF InSub
    <3>3. CASE s # s0 /\ t # s0
      BY <1>9, <2>2, <3>3 DEF PhotoInv, TablePhotos
    <3> QED
      BY <3>1, <3>2, <3>3
  <2>3. ASSUME NEW s \in Subs, sub'[s] # None, sub'[s].photo # None
        PROVE  ~ InStudent(sub'[s].photo)
    BY <1>4, <1>8, <1>9, <2>3 DEF PhotoInv, TablePhotos
  <2>4. store \subseteq 1 .. fresh /\ \A k \in Keys : student[k] # None =>
      student[k].photo \in Known
    BY DEF PhotoInv, TablePhotos
  <2>5. \A s \in Subs : sub'[s] # None /\ sub'[s].photo # None => ~ InStudent(sub[s].photo)'
    BY <1>10, <2>3 DEF InStudent
  <2> QED
    BY <1>1, <2>1, <2>2, <2>4, <2>5 DEF TablePhotos, Known
<1>14. Forms!PhotosHold'
  BY <1>1, <1>4, <1>8, <1>9 DEF PhotoInv, Forms!PhotosHold
<1>15. Accounted'
  <2> SUFFICES ASSUME faults = {}, NEW x \in store
               PROVE  InSub(x)' \/ InStudent(x)' \/ Owned(x)' \/ Discarded(x)'
    BY <1>1 DEF Accounted
  <2>1. Owned(x) => Owned(x)' \/ x = o
    BY <1>3 DEF Owned, o
  <2>2. Discarded(x) => Discarded(x)'
    BY <1>1, <1>3 DEF Discarded, Cleaning
  <2> QED
    BY <1>10, <2>1, <2>2 DEF PhotoInv, Accounted
<1> QED
  BY <1>11, <1>12, <1>13, <1>14, <1>15 DEF PhotoInv

\* A review commits: its submission gives up its photograph, which the review will
\* delete, and the student admitted, if any, takes the one the review has stored.
LEMMA DecideStep ==
    ASSUME Forms!FormsAssumption, FormInv, PhotoInv, NEW r \in Visits, NEW s0 \in Subs,
           visit[r] # None, visit[r].pc \in {"commit", "reject"}, visit[r].sub = s0,
           Forms!To(r, "refresh"), UNCHANGED <<store, fresh, lost, faults>>,
           NEW row, row # None, row.photo = None, sub' = [sub EXCEPT ![s0] = row],
           \A x : x # None => (InStudent(x)' <=> InStudent(x) \/ x = visit[r].photo),
           \A k \in Keys : student'[k] # None =>
               student'[k] = student[k] \/ student'[k].photo = visit[r].photo
    PROVE  PhotoInv'
<1>0. PICK o, old : o = visit[r].photo /\ old = visit[r].temp
  OBVIOUS
<1>1. /\ visit[r] \in Forms!Request /\ visit \in [Visits -> Forms!Request \cup {None}]
      /\ PhotosFit(visit[r])
      /\ sub \in [Subs -> Forms!Sub \cup {None}] /\ sub[s0] # None /\ sub[s0].photo = old
      /\ review[s0] = r
  <2>1. /\ visit[r] \in Forms!Request /\ visit \in [Visits -> Forms!Request \cup {None}]
        /\ PhotosFit(visit[r])
        /\ sub \in [Subs -> Forms!Sub \cup {None}]
    BY DEF FormInv, Forms!TypeOK, PhotoInv, RequestPhotos
  <2>2. review[s0] = r /\ sub[s0] \in Forms!Pending
    BY DEF FormInv, HoldInv, Holds, Reviewing
  <2> QED
    BY <1>0, <2>1, <2>2 DEF PhotosFit, Reviewing, Forms!Sub, Forms!FormsAssumption
<1>2. PICK q \in Forms!Request : q = [visit[r] EXCEPT !.pc = "refresh"]
  BY <1>1 DEF Forms!Request
<1>3. /\ visit' = [visit EXCEPT ![r] = q] /\ q.pc = "refresh" /\ q # None
      /\ q.photo = o /\ q.temp = old /\ q.sub = s0
  BY <1>0, <1>1, <1>2 DEF Forms!To, Forms!Request, Forms!FormsAssumption
<1>4. visit'[r] = q /\ \A t \in Visits \ {r} : visit'[t] = visit[t]
  BY <1>1, <1>3
<1>5. sub'[s0] = row /\ \A s \in Subs \ {s0} : sub'[s] = sub[s]
  BY <1>1
<1>6. o \in Known /\ (o # None => ~ InSub(o) /\ o \in store /\ o # old)
  BY <1>0, <1>1 DEF PhotosFit, Owning, Unstored, PhotoInv, RequestsApart
<1>7. \A t \in Visits \ {r} : visit[t] # None /\ o # None => visit[t].photo # o /\ visit[t].temp # o
  BY <1>0 DEF PhotoInv, RequestsApart
<1>8. old # None => InSub(old) /\ ~ InStudent(old)
  BY <1>1 DEF InSub, PhotoInv, TablePhotos
<1>9. \A x : x # None => (InStudent(x)' <=> InStudent(x) \/ x = o)
  BY <1>0
<1>10. \A k \in Keys : student'[k] # None => student'[k] = student[k] \/ student'[k].photo = o
  BY <1>0
<1>11. \A t \in Visits \ {r} : visit[t] # None /\ visit[t].pc \in Reviewing => visit[t].sub # s0
  BY <1>1 DEF FormInv, HoldInv, Holds
<1>12. UNCHANGED <<store, fresh, lost, faults>> /\ row # None /\ row.photo = None
  OBVIOUS
<1>13. visit[r].pc \notin Cleaning
  BY DEF Cleaning
<1>14. \A x : x # None => (InSub(x)' <=> InSub(x) /\ x # old)
  <2> SUFFICES ASSUME NEW x, x # None
               PROVE  InSub(x)' <=> InSub(x) /\ x # old
    OBVIOUS
  <2>1. InSub(x)' => InSub(x) /\ x # old
    BY <1>1, <1>5, <1>12 DEF InSub, PhotoInv, TablePhotos
  <2>2. InSub(x) /\ x # old => InSub(x)'
    BY <1>1, <1>5 DEF InSub
  <2> QED
    BY <2>1, <2>2
<1>15. RequestPhotos'
  <2> SUFFICES ASSUME NEW t \in Visits, visit'[t] # None
               PROVE  PhotosFit(visit[t])'
    BY DEF RequestPhotos
  <2>1. PICK p : p = visit'[t]
    OBVIOUS
  <2>2. PhotosFit(p)'
    <3>1. CASE t = r
      <4>1. p.photo = o /\ p.temp = old /\ p.pc = "refresh"
        BY <1>3, <1>4, <2>1, <3>1
      <4>2. o \in Known /\ old \in Known
        BY <1>0, <1>1, <1>6 DEF PhotosFit
      <4>3. old # None => ~ InSub(old)' /\ ~ InStudent(old)'
        BY <1>6, <1>8, <1>9, <1>14
      <4>4. o # None => ~ InSub(o)'
        BY <1>6, <1>14
      <4> QED
        BY <1>12, <4>1, <4>2, <4>3, <4>4
           DEF PhotosFit, Known, Unstored, Owning, Reviewing, Cleaning
    <3>2. CASE t # r
      <4>1. p = visit[t] /\ PhotosFit(p)
        BY <1>4, <2>1, <3>2 DEF PhotoInv, RequestPhotos
      <4>2. p.sub \in Subs
        BY <1>1, <2>1, <3>2, <4>1 DEF Forms!Request
      <4>3. p.pc \in Reviewing => sub'[p.sub] = sub[p.sub]
        BY <1>5, <1>11, <2>1, <3>2, <4>1, <4>2
      <4>4. (p.photo # None => p.photo # o) /\ (p.temp # None => p.temp # o)
        BY <1>7, <2>1, <3>2, <4>1
      <4> QED
        BY <1>9, <1>12, <1>14, <4>1, <4>3, <4>4 DEF PhotosFit, Known
    <3> QED
      BY <3>1, <3>2
  <2> QED
    BY <2>1, <2>2 DEF PhotosFit
<1>16. RequestsApart'
  <2>1. \A t \in Visits : visit'[t] # None =>
            visit[t] # None /\ visit'[t].photo = visit[t].photo /\ visit'[t].temp = visit[t].temp
    BY <1>0, <1>3, <1>4
  <2> QED
    BY <2>1 DEF PhotoInv, RequestsApart
<1>17. TablePhotos'
  <2>1. ASSUME NEW s \in Subs, sub'[s] # None
        PROVE  sub'[s].photo \in Known
    BY <1>5, <1>12, <2>1 DEF PhotoInv, TablePhotos, Known
  <2>2. ASSUME NEW k \in Keys, student'[k] # None
        PROVE  student'[k].photo \in Known
    <3>1. CASE student'[k] = student[k]
      BY <2>2, <3>1 DEF PhotoInv, TablePhotos
    <3>2. CASE student'[k].photo = o
      BY <1>6, <3>2
    <3> QED
      BY <1>10, <2>2, <3>1, <3>2
  <2>3. ASSUME NEW s \in Subs, NEW t \in Subs, sub'[s] # None, sub'[t] # None, s # t,
               sub'[s].photo # None
        PROVE  sub'[t].photo # sub'[s].photo
    BY <1>5, <1>12, <2>3 DEF PhotoInv, TablePhotos
  <2>4. ASSUME NEW s \in Subs, sub'[s] # None, sub'[s].photo # None
        PROVE  ~ InStudent(sub[s].photo)'
    <3>1. PICK x : x = sub'[s].photo
      OBVIOUS
    <3>2. s # s0 /\ x = sub[s].photo /\ sub[s] # None /\ x # None
      BY <1>5, <1>12, <2>4, <3>1
    <3>3. ~ InStudent(x) /\ InSub(x)
      BY <3>2 DEF PhotoInv, TablePhotos, InSub
    <3>4. ~ InStudent(x)'
      BY <1>6, <1>9, <3>2, <3>3
    <3> QED
      BY <3>1, <3>4 DEF InStudent
  <2> QED
    BY <1>12, <2>1, <2>2, <2>3, <2>4 DEF PhotoInv, TablePhotos, Known
<1>18. Forms!PhotosHold'
  <2>1. \A s \in Subs : sub'[s] # None => sub'[s].photo \in store \cup {None}
    BY <1>5, <1>12 DEF PhotoInv, Forms!PhotosHold
  <2>2. ASSUME NEW k \in Keys, student'[k] # None
        PROVE  student'[k].photo \in store \cup {None} \cup lost
    <3>1. CASE student'[k] = student[k]
      BY <2>2, <3>1 DEF PhotoInv, Forms!PhotosHold
    <3>2. CASE student'[k].photo = o
      BY <1>6, <3>2
    <3> QED
      BY <1>10, <2>2, <3>1, <3>2
  <2> QED
    BY <1>12, <2>1, <2>2 DEF Forms!PhotosHold
<1>19. Accounted'
  <2> SUFFICES ASSUME faults = {}, NEW x \in store
               PROVE  InSub(x)' \/ InStudent(x)' \/ Owned(x)' \/ Discarded(x)'
    BY <1>12 DEF Accounted
  <2>1. x # None
    BY DEF Forms!FormsAssumption, FormInv, Forms!TypeOK, Forms!Objects
  <2>2. InSub(x) => InSub(x)' \/ x = old
    BY <1>14, <2>1
  <2>3. x = old => Discarded(x)'
    BY <1>3, <1>4 DEF Discarded, Cleaning
  <2>4. Owned(x) => Owned(x)' \/ x = o
    BY <1>0, <1>4 DEF Owned
  <2>5. Discarded(x) => Discarded(x)'
    BY <1>4, <1>13 DEF Discarded
  <2> QED
    BY <1>9, <2>1, <2>2, <2>3, <2>4, <2>5 DEF PhotoInv, Accounted
<1> QED
  BY <1>15, <1>16, <1>17, <1>18, <1>19 DEF PhotoInv

\* The two reviews.
LEMMA ApproveStep ==
    ASSUME Forms!FormsAssumption, FormInv, PhotoInv, NEW r \in Visits, Forms!ApproveCommit(r)
    PROVE  PhotoInv'
<1>1. /\ visit[r] # None /\ visit[r].pc = "commit" /\ visit[r].sub \in Subs /\ visit[r].key \in Keys
      /\ sub[visit[r].sub] \in Forms!Pending /\ student[visit[r].key] = None
  BY ApproveFacts
<1>2. PICK s0 \in Subs, k0 \in Keys : s0 = visit[r].sub /\ k0 = visit[r].key
  BY <1>1
<1>3. PICK row : row = Forms!Processed(sub[s0], "approved", k0)
  OBVIOUS
<1>4. PICK new : new = [from |-> s0, photo |-> visit[r].photo]
  OBVIOUS
<1>5. row # None /\ row.photo = None /\ new # None /\ new.photo = visit[r].photo
  <2>1. row \in Forms!Approved
    BY <1>1, <1>2, <1>3 DEF Forms!Processed, Forms!Pending, Forms!Approved, Forms!Photos
  <2>2. new \in Forms!Student
    BY <1>1, <1>2, <1>4 DEF Forms!Student, FormInv, Forms!TypeOK, Forms!Request
  <2> QED
    BY <1>4, <2>1, <2>2 DEF Forms!Approved, Forms!Sub, Forms!FormsAssumption
<1>6. /\ sub' = [sub EXCEPT ![s0] = row] /\ student' = [student EXCEPT ![k0] = new]
      /\ Forms!To(r, "refresh") /\ UNCHANGED <<store, fresh, lost, faults>>
  BY <1>2, <1>3, <1>4 DEF Forms!ApproveCommit
<1>7. student'[k0] = new /\ \A k \in Keys \ {k0} : student'[k] = student[k]
  BY <1>2, <1>6 DEF FormInv, Forms!TypeOK
<1>8. \A x : x # None => (InStudent(x)' <=> InStudent(x) \/ x = visit[r].photo)
  BY <1>1, <1>2, <1>5, <1>7 DEF InStudent
<1> QED
  <2>1. \A k \in Keys : student'[k] # None =>
            student'[k] = student[k] \/ student'[k].photo = visit[r].photo
    BY <1>5, <1>7
  <2>2. visit[r].pc \in {"commit", "reject"}
    BY <1>1
  <2> QED
    BY <1>1, <1>2, <1>5, <1>6, <1>8, <2>1, <2>2, DecideStep

\* A rejection admits nobody and has stored nothing.
LEMMA RejectStep ==
    ASSUME Forms!FormsAssumption, FormInv, PhotoInv, NEW r \in Visits, Forms!Reject(r)
    PROVE  PhotoInv'
<1>1. /\ visit[r] # None /\ visit[r].pc = "reject" /\ visit[r].sub \in Subs
      /\ sub[visit[r].sub] \in Forms!Pending /\ sub \in [Subs -> Forms!Sub \cup {None}]
  BY RejectFacts DEF FormInv, Forms!TypeOK
<1>2. PICK s0 \in Subs : s0 = visit[r].sub
  BY <1>1
<1>3. PICK row : row = Forms!Processed(sub[s0], "rejected", None)
  OBVIOUS
<1>4. row # None /\ row.photo = None
  <2>1. row \in Forms!Rejected
    BY <1>1, <1>2, <1>3 DEF Forms!Processed, Forms!Pending, Forms!Rejected, Forms!Photos
  <2> QED
    BY <2>1 DEF Forms!Rejected, Forms!Sub, Forms!FormsAssumption
<1>5. /\ sub' = [sub EXCEPT ![s0] = row] /\ UNCHANGED student
      /\ Forms!To(r, "refresh") /\ UNCHANGED <<store, fresh, lost, faults>>
  BY <1>1, <1>2, <1>3 DEF Forms!Reject
<1>6. visit[r].photo = None
  BY <1>1 DEF PhotoInv, RequestPhotos, PhotosFit, Unstored
<1>7. \A x : x # None => (InStudent(x)' <=> InStudent(x) \/ x = visit[r].photo)
  BY <1>5, <1>6 DEF InStudent
<1> QED
  BY <1>1, <1>2, <1>4, <1>5, <1>7, DecideStep

\* A student who comes another way has no photograph.
LEMMA TakeKeyStep ==
    ASSUME Forms!FormsAssumption, FormInv, PhotoInv, NEW k0 \in Keys, Forms!TakeKey(k0)
    PROVE  PhotoInv'
<1>1. PICK new : new = [from |-> None, photo |-> None]
  OBVIOUS
<1>2. new # None /\ new.photo = None
  BY <1>1 DEF Forms!Student, Forms!Photos, Forms!FormsAssumption
<1>3. /\ student[k0] = None /\ student' = [student EXCEPT ![k0] = new]
      /\ UNCHANGED <<sub, store, fresh, visit, lost, faults>>
  BY <1>1 DEF Forms!TakeKey
<1>4. student'[k0] = new /\ \A k \in Keys \ {k0} : student'[k] = student[k]
  BY <1>3 DEF FormInv, Forms!TypeOK
<1>5. \A x : x # None => (InStudent(x)' <=> InStudent(x))
  BY <1>2, <1>3, <1>4 DEF InStudent
<1>6. \A x : InSub(x)' <=> InSub(x)
  BY <1>3 DEF InSub
<1>7. RequestPhotos'
  <2> SUFFICES ASSUME NEW t \in Visits, visit'[t] # None
               PROVE  PhotosFit(visit[t])'
    BY DEF RequestPhotos
  <2>1. PICK p : p = visit[t] /\ PhotosFit(p)
    BY <1>3 DEF PhotoInv, RequestPhotos
  <2>2. PhotosFit(p)'
    BY <1>3, <1>5, <1>6, <2>1 DEF PhotosFit, Known
  <2> QED
    BY <1>3, <2>1, <2>2 DEF PhotosFit
<1>8. RequestsApart'
  BY <1>3 DEF PhotoInv, RequestsApart
<1>9. TablePhotos'
  <2>1. \A k \in Keys : student'[k] # None => student'[k].photo \in Known
    BY <1>2, <1>4 DEF PhotoInv, TablePhotos, Known
  <2>2. ASSUME NEW s \in Subs, sub[s] # None, sub[s].photo # None
        PROVE  ~ InStudent(sub[s].photo)'
    <3>1. PICK x : x = sub[s].photo
      OBVIOUS
    <3>2. ~ InStudent(x)'
      BY <1>5, <2>2, <3>1 DEF PhotoInv, TablePhotos
    <3> QED
      BY <1>3, <3>1, <3>2 DEF InStudent
  <2> QED
    BY <1>3, <2>1, <2>2 DEF PhotoInv, TablePhotos, Known
<1>10. Forms!PhotosHold'
  BY <1>2, <1>3, <1>4 DEF PhotoInv, Forms!PhotosHold
<1>11. Accounted'
  <2> SUFFICES ASSUME faults = {}, NEW x \in store
               PROVE  InSub(x)' \/ InStudent(x)' \/ Owned(x)' \/ Discarded(x)'
    BY <1>3 DEF Accounted
  <2>1. x # None
    BY <1>3 DEF Forms!FormsAssumption, FormInv, Forms!TypeOK, Forms!Objects
  <2>2. (Owned(x)' <=> Owned(x)) /\ (Discarded(x)' <=> Discarded(x))
    BY <1>3 DEF Owned, Discarded
  <2> QED
    BY <1>5, <1>6, <2>1, <2>2 DEF PhotoInv, Accounted
<1> QED
  BY <1>7, <1>8, <1>9, <1>10, <1>11 DEF PhotoInv

\* A crash takes the requests, and what they have stored stays behind.
LEMMA CrashStep ==
    ASSUME Forms!FormsAssumption, FormInv, PhotoInv, Forms!Crash
    PROVE  PhotoInv'
<1>1. /\ \A r \in Visits : visit'[r] = None
      /\ faults' # {} /\ UNCHANGED <<sub, student, store, fresh, lost>>
  BY DEF Forms!Crash
<1>2. RequestPhotos' /\ RequestsApart' /\ Accounted'
  BY <1>1 DEF RequestPhotos, RequestsApart, Accounted
<1>3. TablePhotos' /\ Forms!PhotosHold'
  BY <1>1 DEF PhotoInv, TablePhotos, Forms!PhotosHold, Known, InStudent
<1> QED
  BY <1>2, <1>3 DEF PhotoInv

-----------------------------------------------------------------------------
\* Nothing is stored and nothing refers to anything.
LEMMA InitPhotoInv == Forms!FormsAssumption /\ Forms!Init => PhotoInv
BY DEF Forms!FormsAssumption, Forms!Init, PhotoInv, RequestPhotos, RequestsApart, TablePhotos,
    Forms!PhotosHold,
   Accounted

\* Every step keeps the ownership of the objects.
LEMMA StepPhotoInv == Forms!FormsAssumption /\ FormInv /\ PhotoInv /\ [Forms!Next]_formVars =>
    PhotoInv'
<1> SUFFICES ASSUME Forms!FormsAssumption, FormInv, PhotoInv, [Forms!Next]_formVars
             PROVE  PhotoInv'
  OBVIOUS
<1>1. CASE UNCHANGED formVars
  BY <1>1 DEF Forms!vars, formVars, PhotoInv, RequestPhotos, PhotosFit, RequestsApart, TablePhotos,
      Forms!PhotosHold,
     Accounted, Known, InSub, InStudent, Owned, Discarded
<1>2. ASSUME NEW r \in Visits, Forms!Step(r)
      PROVE  PhotoInv'
  BY <1>2, QuietSteps, StoredStep, DeleteStep, RefreshFailsStep, SubmitStep, ApproveStep,
     RejectStep DEF Forms!Step
<1> QED
  BY <1>1, <1>2, TakeKeyStep, CrashStep DEF Forms!Next

\* At rest an object that is somebody's is a submission's or a student's.
LEMMA AtRest == PhotoInv => Forms!NothingLeftBehind
<1> SUFFICES ASSUME PhotoInv, faults = {}, \A r \in Visits : visit[r] = None, NEW o \in store
             PROVE  o \in {sub[s].photo : s \in {t \in Subs : sub[t] # None}}
                          \cup {student[k].photo : k \in {l \in Keys : student[l] # None}}
  BY DEF Forms!NothingLeftBehind
<1>1. InSub(o) \/ InStudent(o)
  BY DEF PhotoInv, Accounted, Owned, Discarded
<1> QED
  BY <1>1 DEF InSub, InStudent

-----------------------------------------------------------------------------
(***************************************************************************)
(* The verification links.                                                 *)
(***************************************************************************)
LinkTypes ==
    /\ link \in [Pupils -> Credentials!Link \cup {None}]
    /\ school \in Credentials!School
    /\ now \in Nat /\ tokens \in Nat
    /\ order \in [Orders -> Credentials!Request \cup {None}]
    /\ superseded \subseteq Credentials!Credential
    /\ denied \subseteq Pupils

Has(s) == link[s] # None
Changes(r) == order[r] # None /\ order[r].op # "settings"
\* The request is going to write a token that it has drawn.
Rotates(r) == Changes(r) /\ order[r].new.token # order[r].old.token

\* The tokens in the rows, those about to be written and those replaced are all
\* different, and none of them is drawn again.
TokensInv ==
    /\ \A s \in Pupils : Has(s) => link[s].token <= tokens
    /\ \A c \in superseded : c.token <= tokens
    /\ \A r \in Orders : Rotates(r) => order[r].new.token <= tokens
    /\ \A s, t \in Pupils : Has(s) /\ Has(t) /\ s # t => link[s].token # link[t].token
    /\ \A s \in Pupils, c \in superseded : Has(s) => link[s].token # c.token
    /\ \A r \in Orders, s \in Pupils : Rotates(r) /\ Has(s) => order[r].new.token # link[s].token
    /\ \A r \in Orders, c \in superseded : Rotates(r) => order[r].new.token # c.token
    /\ \A r, q \in Orders : Rotates(r) /\ Rotates(q) /\ r # q =>
           order[r].new.token # order[q].new.token

\* What a request has planned, compared with its load: without a new token the
\* credential stays, a disabling one disables and no other does, and the load of one
\* that nothing has overlapped is the row.
Plan(r) ==
    /\ Has(order[r].student)
    /\ ~order[r].raced => order[r].old = link[order[r].student]
    /\ order[r].new.token = order[r].old.token =>
           order[r].new.version = order[r].old.version
               /\ order[r].new.expires = order[r].old.expires
    /\ order[r].new.enabled <=> order[r].op # "disable"
PlanInv == \A r \in Orders : Changes(r) => Plan(r)

DeniedInv == \A s \in denied : Has(s) /\ ~link[s].enabled

\* The inductive invariant of PublicCredentials.
CredentialInv == LinkTypes /\ TokensInv /\ PlanInv /\ DeniedInv

-----------------------------------------------------------------------------
\* What an UPDATE leaves of a row is a row.
LEMMA WrittenLink ==
    ASSUME NEW row \in Credentials!Link, NEW old \in Credentials!Link, NEW new \in Credentials!Link
    PROVE  /\ Credentials!Written(row, old, new) \in Credentials!Link
           /\ \A c \in {"token", "version", "expires", "enabled", "live"} :
                  Credentials!Written(row, old, new)[c] = IF new[c] # old[c] THEN new[c] ELSE row[c]
BY DEF Credentials!Written, Credentials!Link

\* And so it is for a school.
LEMMA WrittenSchool ==
    ASSUME NEW row \in Credentials!School, NEW old \in Credentials!School,
           NEW new \in Credentials!School
    PROVE  Credentials!Written(row, old, new) \in Credentials!School
BY DEF Credentials!Written, Credentials!School

\* The two kinds of requests.
LEMMA CredentialKinds ==
    ASSUME LinkTypes, NEW r \in Orders, order[r] # None
    PROVE  /\ order[r].op = "settings" => order[r].old \in Credentials!School
                  /\ order[r].new \in Credentials!School
           /\ order[r].op # "settings" =>
                  /\ order[r].op \in {"enable", "disable", "regenerate"}
                  /\ order[r].student \in Pupils
                  /\ order[r].old \in Credentials!Link /\ order[r].new \in Credentials!Link
                  /\ order[r].raced \in BOOLEAN
BY DEF LinkTypes, Credentials!Request

\* No link and no request at the start.
LEMMA CredentialInit == Credentials!CredentialsAssumption /\ Credentials!Init => CredentialInv
BY DEF Credentials!CredentialsAssumption, Credentials!Init, CredentialInv, LinkTypes, TokensInv,
    PlanInv, DeniedInv, Has, Changes, Rotates

\* A student is created with a token that was never drawn.
LEMMA CreateInv ==
    ASSUME Credentials!CredentialsAssumption, CredentialInv, NEW s \in Pupils, Credentials!Create(s)
    PROVE  CredentialInv'
<1>1. tokens \in Nat /\ now \in Nat /\ school.days \in Nat /\ link[s] = None
      /\ link \in [Pupils -> Credentials!Link \cup {None}]
  BY DEF Credentials!Create, CredentialInv, LinkTypes, Credentials!School,
      Credentials!CredentialsAssumption
<1>2. PICK row \in Credentials!Link :
    row = [token |-> tokens + 1, version |-> 1,
           expires |-> now + Credentials!Second * school.days, enabled |-> TRUE, live |-> TRUE]
  <2>1. tokens + 1 \in Nat /\ now + Credentials!Second * school.days \in Nat
    BY <1>1 DEF Credentials!Second
  <2> QED
    BY <2>1 DEF Credentials!Link
<1>3. /\ link' = [link EXCEPT ![s] = row] /\ tokens' = tokens + 1
      /\ UNCHANGED <<school, now, order, superseded, denied>>
      /\ row # None /\ row.token = tokens + 1
  BY <1>2 DEF Credentials!Create, Credentials!CredentialsAssumption
<1>4. LinkTypes'
  BY <1>1, <1>3 DEF CredentialInv, LinkTypes
<1>5. /\ link'[s] = row /\ \A t \in Pupils \ {s} : link'[t] = link[t]
      /\ \A t \in Pupils : Has(t) => t # s
  BY <1>1, <1>3 DEF Has
<1>6. TokensInv'
  <2>1. \A t \in Pupils : Has(t)' => (t = s /\ link'[t].token = tokens + 1)
                                    \/ (t # s /\ Has(t) /\ link'[t].token = link[t].token)
    BY <1>3, <1>5 DEF Has
  <2>2. /\ \A t \in Pupils : Has(t) => link[t].token \in Nat /\ link[t].token <= tokens
        /\ \A c \in superseded : c.token \in Nat /\ c.token <= tokens
        /\ \A r \in Orders : Rotates(r) => order[r].new.token \in Nat
               /\ order[r].new.token <= tokens
    BY <1>1, CredentialKinds DEF CredentialInv, LinkTypes, TokensInv, Has, Rotates, Changes,
        Credentials!Link, Credentials!Credential
  <2>3. \A r \in Orders : Rotates(r)' <=> Rotates(r)
    BY <1>3 DEF Rotates, Changes
  <2> QED
    BY <1>1, <1>3, <2>1, <2>2, <2>3 DEF CredentialInv, TokensInv
<1>7. PlanInv'
  <2> SUFFICES ASSUME NEW r \in Orders, Changes(r)'
               PROVE  Plan(r)'
    BY DEF PlanInv
  <2>1. Changes(r) /\ Plan(r) /\ order[r].student \in Pupils /\ order' = order
    BY <1>3, CredentialKinds DEF Changes, CredentialInv, PlanInv
  <2>2. order[r].student # s
    BY <1>1, <2>1 DEF Plan, Has
  <2> QED
    BY <1>5, <2>1, <2>2 DEF Plan, Has
<1>8. DeniedInv'
  BY <1>3, <1>5 DEF CredentialInv, DeniedInv, Has, LinkTypes
<1> QED
  BY <1>4, <1>6, <1>7, <1>8 DEF CredentialInv

\* A row is written: what is left of the other requests.
LEMMA SaveFacts ==
    ASSUME Credentials!CredentialsAssumption, LinkTypes, NEW s \in Pupils, Has(s),
           NEW row \in Credentials!Link,
           NEW r \in Orders \cup {None}, Credentials!SaveLink(s, row, r)
    PROVE  /\ link' \in [Pupils -> Credentials!Link \cup {None}]
           /\ link'[s] = row /\ row # None /\ \A t \in Pupils \ {s} : link'[t] = link[t]
           /\ order' \in [Orders -> Credentials!Request \cup {None}]
           /\ superseded' \subseteq Credentials!Credential
           /\ \A q \in Orders : Changes(q)' =>
                  /\ Changes(q) /\ q # r
                  /\ order'[q].op = order[q].op /\ order'[q].student = order[q].student
                  /\ order'[q].old = order[q].old /\ order'[q].new = order[q].new
                  /\ ~order'[q].raced => ~order[q].raced /\ order[q].student # s
<1>1. /\ link \in [Pupils -> Credentials!Link \cup {None}]
      /\ order \in [Orders -> Credentials!Request \cup {None}]
      /\ link[s] \in Credentials!Link
      /\ None \notin Orders \cup Credentials!Link \cup Credentials!Request
  BY DEF LinkTypes, Has, Credentials!CredentialsAssumption
<1>2. Credentials!Issued(link[s]) \in Credentials!Credential
  <2>1. link[s].expires \in Nat /\ link[s].token \in Nat /\ link[s].version \in Nat
    BY <1>1 DEF Credentials!Link
  <2>2. link[s].expires \div Credentials!Second \in Nat
    BY <2>1 DEF Credentials!Second
  <2> QED
    BY <2>1, <2>2 DEF Credentials!Issued, Credentials!Credential
<1>3. ASSUME NEW q \in Orders
      PROVE  /\ order'[q] \in Credentials!Request \cup {None}
             /\ Changes(q)' =>
                  /\ Changes(q) /\ q # r
                  /\ order'[q].op = order[q].op /\ order'[q].student = order[q].student
                  /\ order'[q].old = order[q].old /\ order'[q].new = order[q].new
                  /\ ~order'[q].raced => ~order[q].raced /\ order[q].student # s
  <2>1. CASE q = r
    BY <1>3, <2>1 DEF Credentials!SaveLink, Changes
  <2>2. CASE q # r /\ order[q] # None /\ order[q].op # "settings" /\ order[q].student = s
    <3>1. order'[q] = [order[q] EXCEPT !.raced = TRUE]
      BY <1>3, <2>2 DEF Credentials!SaveLink
    <3>2. order[q] \in [op : {"enable", "disable", "regenerate"}, student : Pupils, old :
        Credentials!Link,
                      new : Credentials!Link, raced : BOOLEAN]
      BY <1>1, <2>2 DEF Credentials!Request
    <3>3. order'[q] \in [op : {"enable", "disable", "regenerate"}, student : Pupils, old :
        Credentials!Link,
                       new : Credentials!Link, raced : BOOLEAN]
      BY <3>1, <3>2
    <3>4. /\ order'[q].op = order[q].op /\ order'[q].student = order[q].student
          /\ order'[q].old = order[q].old /\ order'[q].new = order[q].new /\ order'[q].raced
      BY <3>1, <3>2
    <3> QED
      BY <2>2, <3>3, <3>4 DEF Changes, Credentials!Request
  <2>3. CASE q # r /\ ~(order[q] # None /\ order[q].op # "settings" /\ order[q].student = s)
    <3>1. order'[q] = order[q]
      BY <1>3, <2>3 DEF Credentials!SaveLink
    <3> QED
      BY <1>1, <2>3, <3>1 DEF Changes
  <2> QED
    BY <2>1, <2>2, <2>3
<1>4. order' \in [Orders -> Credentials!Request \cup {None}]
  BY <1>3 DEF Credentials!SaveLink
<1>5. superseded' \subseteq Credentials!Credential
  BY <1>2 DEF Credentials!SaveLink, LinkTypes
<1>6. link' = [link EXCEPT ![s] = row]
  BY DEF Credentials!SaveLink
<1> QED
  BY <1>1, <1>3, <1>4, <1>5, <1>6

\* The row keeps its credential, or takes the token that the request has drawn and
\* leaves the one it had among the replaced.
LEMMA SaveTokens ==
    ASSUME Credentials!CredentialsAssumption, CredentialInv, NEW s \in Pupils, Has(s),
           NEW row \in Credentials!Link,
           NEW r \in Orders \cup {None}, Credentials!SaveLink(s, row, r), tokens' = tokens,
           \/ Credentials!Issued(row) = Credentials!Issued(link[s])
           \/ r \in Orders /\ Rotates(r) /\ row.token = order[r].new.token
    PROVE  TokensInv'
<1>1. LinkTypes /\ TokensInv
  BY DEF CredentialInv
<1>2. /\ link'[s] = row /\ row # None /\ \A t \in Pupils \ {s} : link'[t] = link[t]
      /\ \A q \in Orders : Changes(q)' =>
             Changes(q) /\ q # r /\ order'[q].old = order[q].old /\ order'[q].new = order[q].new
  BY <1>1, SaveFacts
<1>3. \A q \in Orders : Rotates(q)' =>
          Rotates(q) /\ q # r /\ order'[q].new.token = order[q].new.token
  BY <1>2 DEF Rotates
<1>4. CASE Credentials!Issued(row) = Credentials!Issued(link[s])
  <2>1. row.token = link[s].token /\ superseded' = superseded
    BY <1>4 DEF Credentials!Issued, Credentials!SaveLink
  <2>2. \A t \in Pupils : Has(t)' => Has(t) /\ link'[t].token = link[t].token
    BY <1>2, <2>1 DEF Has
  <2> QED
    BY <1>1, <1>3, <2>1, <2>2 DEF TokensInv
<1>5. CASE r \in Orders /\ Rotates(r) /\ row.token = order[r].new.token
  <2>1. \A c \in superseded' : c \in superseded \/ c.token = link[s].token
    BY DEF Credentials!SaveLink, Credentials!Issued
  <2>2. \A t \in Pupils : Has(t)' => (t = s /\ link'[t].token = order[r].new.token)
                                    \/ (t # s /\ Has(t) /\ link'[t].token = link[t].token)
    BY <1>2, <1>5 DEF Has
  <2> QED
    BY <1>1, <1>3, <1>5, <2>1, <2>2 DEF TokensInv
<1> QED
  BY <1>4, <1>5

\* The plans of the other requests stay.
LEMMA SavePlans ==
    ASSUME Credentials!CredentialsAssumption, CredentialInv, NEW s \in Pupils, Has(s),
           NEW row \in Credentials!Link,
           NEW r \in Orders \cup {None}, Credentials!SaveLink(s, row, r)
    PROVE  PlanInv'
<1> SUFFICES ASSUME NEW q \in Orders, Changes(q)'
             PROVE  Plan(q)'
  BY DEF PlanInv
<1>1. /\ link'[s] = row /\ row # None /\ \A t \in Pupils \ {s} : link'[t] = link[t]
      /\ Changes(q)
      /\ order'[q].op = order[q].op /\ order'[q].student = order[q].student
      /\ order'[q].old = order[q].old /\ order'[q].new = order[q].new
      /\ ~order'[q].raced => ~order[q].raced /\ order[q].student # s
  BY SaveFacts DEF CredentialInv
<1>2. Plan(q) /\ order[q].student \in Pupils
  BY <1>1, CredentialKinds DEF CredentialInv, PlanInv, Changes
<1> QED
  BY <1>1, <1>2 DEF Plan, Has

\* The UPDATE of a request.
LEMMA CommitLinkInv ==
    ASSUME Credentials!CredentialsAssumption, CredentialInv, NEW r \in Orders,
           Credentials!CommitLink(r)
    PROVE  CredentialInv'
<1>1. /\ order[r] # None /\ Changes(r) /\ Plan(r) /\ order[r].student \in Pupils
      /\ order[r].old \in Credentials!Link /\ order[r].new \in Credentials!Link
      /\ link[order[r].student] \in Credentials!Link
      /\ Has(order[r].student)
  BY CredentialKinds DEF Credentials!CommitLink, Changes, CredentialInv, PlanInv, Plan, Has,
      LinkTypes
<1>2. PICK s \in Pupils : s = order[r].student
  BY <1>1
<1>3. PICK row \in Credentials!Link : row = Credentials!Written(link[s], order[r].old, order[r].new)
  BY <1>1, <1>2, WrittenLink
<1>4. /\ Credentials!SaveLink(s, row, r) /\ Has(s) /\ tokens' = tokens /\ now' = now
      /\ school' = school
      /\ denied' = Credentials!Denied(r)
  BY <1>1, <1>2, <1>3 DEF Credentials!CommitLink
<1>5. \A c \in {"token", "version", "expires", "enabled", "live"} :
          row[c] = IF order[r].new[c] # order[r].old[c] THEN order[r].new[c] ELSE link[s][c]
  BY <1>1, <1>2, <1>3, WrittenLink
<1>6. Credentials!Issued(row) = Credentials!Issued(link[s])
    \/ (Rotates(r) /\ row.token = order[r].new.token)
  BY <1>1, <1>2, <1>5 DEF Credentials!Issued, Rotates, Plan
<1>7. TokensInv'
  BY <1>4, <1>6, SaveTokens
<1>8. PlanInv'
  BY <1>4, SavePlans
<1>9. /\ link' \in [Pupils -> Credentials!Link \cup {None}]
      /\ link'[s] = row /\ row # None /\ \A t \in Pupils \ {s} : link'[t] = link[t]
      /\ order' \in [Orders -> Credentials!Request \cup {None}]
      /\ superseded' \subseteq Credentials!Credential
  BY <1>4, SaveFacts DEF CredentialInv
<1>10. LinkTypes'
  <2>1. denied' \subseteq Pupils
    BY <1>2, <1>4 DEF CredentialInv, LinkTypes, Credentials!Denied
  <2> QED
    BY <1>4, <1>9, <2>1 DEF CredentialInv, LinkTypes
<1>11. DeniedInv'
  <2>1. order[r].new.enabled <=> order[r].op # "disable"
    BY <1>1 DEF Plan
  <2>2. order[r].old.enabled \in BOOLEAN /\ order[r].new.enabled \in BOOLEAN
    BY <1>1 DEF Credentials!Link
  <2>3. row.enabled = IF order[r].new.enabled # order[r].old.enabled THEN order[r].new.enabled
                      ELSE link[s].enabled
    BY <1>5
  <2>4. ~order[r].raced => order[r].old = link[s]
    BY <1>1, <1>2 DEF Plan
  <2>5. \A t \in denied : t # s => Has(t) /\ ~link[t].enabled /\ link'[t] = link[t]
    BY <1>9 DEF CredentialInv, DeniedInv, LinkTypes
  <2>6. s \in denied => ~link[s].enabled
    BY DEF CredentialInv, DeniedInv
  <2>7. s \in denied' => ~row.enabled
    BY <1>2, <1>4, <2>1, <2>2, <2>3, <2>4, <2>6 DEF Credentials!Denied
  <2>8. \A t \in denied' : t # s => t \in denied
    BY <1>2, <1>4 DEF Credentials!Denied
  <2> QED
    BY <1>9, <2>5, <2>7, <2>8 DEF DeniedInv, Has
<1> QED
  BY <1>7, <1>8, <1>10, <1>11 DEF CredentialInv

\* A deactivated student keeps the credential in the row.
LEMMA DeactivateInv ==
    ASSUME Credentials!CredentialsAssumption, CredentialInv, NEW s \in Pupils,
           Credentials!Deactivate(s)
    PROVE  CredentialInv'
<1>1. link[s] \in Credentials!Link /\ Has(s)
  BY DEF Credentials!Deactivate, Has, CredentialInv, LinkTypes
<1>2. PICK row \in Credentials!Link : row = [link[s] EXCEPT !.live = FALSE]
  BY <1>1 DEF Credentials!Link
<1>3. /\ Credentials!SaveLink(s, row, None) /\ tokens' = tokens /\ now' = now /\ school' = school
      /\ denied' = denied
  BY <1>2 DEF Credentials!Deactivate
<1>4. Credentials!Issued(row) = Credentials!Issued(link[s]) /\ row.enabled = link[s].enabled
  BY <1>1, <1>2 DEF Credentials!Issued, Credentials!Link
<1>5. /\ link' \in [Pupils -> Credentials!Link \cup {None}]
      /\ link'[s] = row /\ row # None /\ \A t \in Pupils \ {s} : link'[t] = link[t]
      /\ order' \in [Orders -> Credentials!Request \cup {None}]
      /\ superseded' \subseteq Credentials!Credential
  BY <1>1, <1>3, SaveFacts DEF CredentialInv
<1>6. LinkTypes'
  BY <1>3, <1>5 DEF CredentialInv, LinkTypes
<1>7. TokensInv'
  BY <1>1, <1>3, <1>4, SaveTokens
<1>8. PlanInv'
  BY <1>1, <1>3, SavePlans
<1>9. DeniedInv'
  BY <1>3, <1>4, <1>5 DEF CredentialInv, DeniedInv, Has, LinkTypes
<1> QED
  BY <1>6, <1>7, <1>8, <1>9 DEF CredentialInv

\* A request plans no change of a link, or ends: the others keep theirs.
LEMMA NoLink ==
    ASSUME Credentials!CredentialsAssumption, CredentialInv, NEW r \in Orders,
           NEW q \in Credentials!Request \cup {None},
           order' = [order EXCEPT ![r] = q], q # None => q.op = "settings",
           UNCHANGED <<link, tokens, superseded, denied>>, school' \in Credentials!School,
               now' = now
    PROVE  CredentialInv'
<1>1. /\ order' \in [Orders -> Credentials!Request \cup {None}]
      /\ order'[r] = q /\ \A p \in Orders \ {r} : order'[p] = order[p]
  BY DEF CredentialInv, LinkTypes
<1>2. LinkTypes'
  BY <1>1 DEF CredentialInv, LinkTypes
<1>3. \A p \in Orders : Changes(p)' => Changes(p) /\ order'[p] = order[p]
  BY <1>1 DEF Changes
<1>4. TokensInv'
  BY <1>3 DEF CredentialInv, TokensInv, Rotates, Has
<1>5. PlanInv'
  BY <1>3 DEF CredentialInv, PlanInv, Plan, Has
<1>6. DeniedInv'
  BY DEF CredentialInv, DeniedInv, Has
<1> QED
  BY <1>2, <1>4, <1>5, <1>6 DEF CredentialInv

\* A request about the settings of the school touches no link when it begins,
LEMMA LoadSettingsInv ==
    ASSUME Credentials!CredentialsAssumption, CredentialInv, NEW r \in Orders,
           Credentials!LoadSettings(r)
    PROVE  CredentialInv'
<1>1. PICK new \in Credentials!School :
    order' = [order EXCEPT ![r] = [op |-> "settings", old |-> school, new |-> new]]
  BY DEF Credentials!LoadSettings
<1>2. PICK q \in Credentials!Request : q = [op |-> "settings", old |-> school, new |-> new]
  BY DEF Credentials!Request, CredentialInv, LinkTypes
<1>3. q.op = "settings"
  BY <1>2
<1> QED
  BY <1>1, <1>2, <1>3, NoLink DEF Credentials!LoadSettings, CredentialInv, LinkTypes

\* nor when it commits.
LEMMA CommitSettingsInv ==
    ASSUME Credentials!CredentialsAssumption, CredentialInv, NEW r \in Orders,
           Credentials!CommitSettings(r)
    PROVE  CredentialInv'
<1>1. school' \in Credentials!School
  BY CredentialKinds, WrittenSchool DEF Credentials!CommitSettings, CredentialInv, LinkTypes
<1>2. PICK q \in Credentials!Request \cup {None} : q = None
  OBVIOUS
<1> QED
  BY <1>1, <1>2, NoLink DEF Credentials!CommitSettings

\* A request that fails changes nothing.
LEMMA AbortInv ==
    ASSUME Credentials!CredentialsAssumption, CredentialInv, NEW r \in Orders, Credentials!Abort(r)
    PROVE  CredentialInv'
<1>1. PICK q \in Credentials!Request \cup {None} : q = None
  OBVIOUS
<1> QED
  BY <1>1, NoLink DEF Credentials!Abort, CredentialInv, LinkTypes

\* A request reads a row, and draws a token if it is to replace the credential.
LEMMA LoadLinkInv ==
    ASSUME Credentials!CredentialsAssumption, CredentialInv, NEW r \in Orders,
           Credentials!LoadLink(r)
    PROVE  CredentialInv'
<1>1. PICK s \in Pupils, op \in {"enable", "disable", "regenerate"}, rotates \in BOOLEAN :
        /\ link[s] # None
        /\ op = "disable" => ~rotates
        /\ op = "regenerate" => rotates
        /\ tokens' = IF rotates THEN tokens + 1 ELSE tokens
        /\ order' = [order EXCEPT ![r] =
               [op |-> op, student |-> s, old |-> link[s], raced |-> FALSE,
                new |-> IF rotates THEN Credentials!Rotated(link[s], tokens', school.days)
                        ELSE [link[s] EXCEPT !.enabled = op = "enable"]]]
  BY DEF Credentials!LoadLink
<1>2. /\ link[s] \in Credentials!Link /\ link[s].token \in Nat /\ link[s].token <= tokens
      /\ tokens \in Nat /\ now \in Nat /\ school.days \in Nat
  BY <1>1 DEF CredentialInv, LinkTypes, TokensInv, Has, Credentials!Link, Credentials!School,
      Credentials!CredentialsAssumption
<1>3. tokens' \in Nat /\ tokens <= tokens'
  BY <1>1, <1>2
<1>4. PICK new : new = IF rotates THEN Credentials!Rotated(link[s], tokens', school.days)
                       ELSE [link[s] EXCEPT !.enabled = op = "enable"]
  OBVIOUS
<1>5. /\ new \in Credentials!Link
      /\ rotates => new.token = tokens + 1
      /\ ~rotates => new.token = link[s].token /\ new.version = link[s].version
                     /\ new.expires = link[s].expires
      /\ new.enabled <=> op # "disable"
  <2>1. CASE rotates
    <3>1. /\ link[s].version + 1 \in Nat /\ now + Credentials!Second * school.days \in Nat
          /\ tokens' = tokens + 1
      BY <1>1, <1>2, <2>1 DEF Credentials!Link, Credentials!Second
    <3> QED
      BY <1>1, <1>2, <1>3, <1>4, <2>1, <3>1 DEF Credentials!Rotated, Credentials!Link
  <2>2. CASE ~rotates
    <3>1. PICK enabled \in BOOLEAN : enabled = (op = "enable")
      OBVIOUS
    <3>2. new = [link[s] EXCEPT !.enabled = enabled]
      BY <1>4, <2>2, <3>1
    <3>3. new \in Credentials!Link /\ new.enabled = enabled
      BY <1>2, <3>2 DEF Credentials!Link
    <3>4. enabled <=> op # "disable"
      BY <1>1, <2>2, <3>1
    <3> QED
      BY <1>2, <2>2, <3>2, <3>3, <3>4 DEF Credentials!Link
  <2> QED
    BY <2>1, <2>2
<1>6. PICK q \in Credentials!Request :
    q = [op |-> op, student |-> s, old |-> link[s], raced |-> FALSE, new |-> new]
  BY <1>2, <1>5 DEF Credentials!Request
<1>7. /\ order' = [order EXCEPT ![r] = q]
      /\ q.op = op /\ q.student = s /\ q.old = link[s] /\ q.new = new /\ q.raced = FALSE
      /\ q # None
  BY <1>1, <1>4, <1>6 DEF Credentials!CredentialsAssumption
<1>8. /\ UNCHANGED <<link, school, now, superseded, denied>>
      /\ order' \in [Orders -> Credentials!Request \cup {None}]
      /\ order'[r] = q /\ \A p \in Orders \ {r} : order'[p] = order[p]
  BY <1>7 DEF Credentials!LoadLink, CredentialInv, LinkTypes
<1>9. LinkTypes'
  BY <1>3, <1>8 DEF CredentialInv, LinkTypes
<1>10. TokensInv'
  <2>1. /\ \A t \in Pupils : Has(t) => link[t].token \in Nat /\ link[t].token <= tokens
        /\ \A c \in superseded : c.token \in Nat /\ c.token <= tokens
        /\ \A p \in Orders : Rotates(p) => order[p].new.token \in Nat
               /\ order[p].new.token <= tokens
    BY CredentialKinds DEF CredentialInv, LinkTypes, TokensInv, Has, Rotates, Changes,
        Credentials!Link, Credentials!Credential
  <2>2. \A p \in Orders : Rotates(p)' =>
      (p = r /\ order'[p].new.token = tokens + 1 /\ tokens' = tokens + 1)
                                        \/ (p # r /\ Rotates(p)
                                               /\ order'[p].new.token = order[p].new.token)
    BY <1>1, <1>5, <1>7, <1>8 DEF Rotates, Changes
  <2>3. \A t \in Pupils : Has(t)' <=> Has(t)
    BY <1>8 DEF Has
  <2> QED
    BY <1>2, <1>3, <1>8, <2>1, <2>2, <2>3 DEF CredentialInv, TokensInv
<1>11. PlanInv'
  <2> SUFFICES ASSUME NEW p \in Orders, Changes(p)'
               PROVE  Plan(p)'
    BY DEF PlanInv
  <2>1. CASE p = r
    <3>1. rotates => new.token # link[s].token
      BY <1>2, <1>5
    <3> QED
      BY <1>1, <1>5, <1>7, <1>8, <2>1, <3>1 DEF Plan, Has
  <2>2. CASE p # r
    BY <1>8, <2>2 DEF CredentialInv, PlanInv, Plan, Has, Changes
  <2> QED
    BY <2>1, <2>2
<1>12. DeniedInv'
  BY <1>8 DEF CredentialInv, DeniedInv, Has
<1> QED
  BY <1>9, <1>10, <1>11, <1>12 DEF CredentialInv

\* The passing of time changes no row.
LEMMA TickInv ==
    ASSUME Credentials!CredentialsAssumption, CredentialInv, Credentials!Tick
    PROVE  CredentialInv'
<1>1. now' \in Nat /\ UNCHANGED <<link, school, tokens, order, superseded, denied>>
  BY DEF Credentials!Tick, CredentialInv, LinkTypes
<1>2. LinkTypes' /\ DeniedInv'
  BY <1>1 DEF CredentialInv, LinkTypes, DeniedInv, Has
<1>3. TokensInv' /\ PlanInv'
  BY <1>1 DEF CredentialInv, TokensInv, PlanInv, Plan, Rotates, Changes, Has
<1> QED
  BY <1>2, <1>3 DEF CredentialInv

-----------------------------------------------------------------------------
\* Every step keeps the tokens different and the plans true.
LEMMA CredentialNext ==
    Credentials!CredentialsAssumption /\ CredentialInv /\ [Credentials!Next]_linkVars
        => CredentialInv'
<1> SUFFICES ASSUME Credentials!CredentialsAssumption, CredentialInv, [Credentials!Next]_linkVars
             PROVE  CredentialInv'
  OBVIOUS
<1>1. CASE UNCHANGED linkVars
  BY <1>1 DEF Credentials!vars, linkVars, CredentialInv, LinkTypes, TokensInv, PlanInv, DeniedInv,
      Plan, Rotates, Changes, Has
<1>2. CASE Credentials!Next
  BY <1>2, CreateInv, DeactivateInv, LoadLinkInv, CommitLinkInv, LoadSettingsInv,
     CommitSettingsInv, AbortInv, TickInv DEF Credentials!Next
<1> QED
  BY <1>1, <1>2

\* The invariant says of the public page's rule what it has to.
LEMMA Refused ==
    Credentials!CredentialsAssumption /\ CredentialInv => Credentials!RevokedCredentialsRefused
<1> SUFFICES ASSUME Credentials!CredentialsAssumption, CredentialInv, NEW s \in Pupils,
                    link[s] # None
             PROVE  LET row == link[s]
                        signed == Credentials!AcceptsSigned(Credentials!Issued(row), row)
                        bare == Credentials!AcceptsBare(row.token, row) IN
                    /\ \A c \in superseded :
                           /\ ~ Credentials!AcceptsSigned(c, row)
                           /\ ~ Credentials!AcceptsBare(c.token, row)
                    /\ s \in denied => ~signed /\ ~bare
                    /\ signed => bare
                    /\ bare => \/ signed
                               \/ row.expires \div Credentials!Second
                                      = now \div Credentials!Second
  BY DEF Credentials!RevokedCredentialsRefused
<1> DEFINE signed == Credentials!AcceptsSigned(Credentials!Issued(link[s]), link[s])
           bare == Credentials!AcceptsBare(link[s].token, link[s])
<1>1. \A c \in superseded : /\ ~ Credentials!AcceptsSigned(c, link[s])
                            /\ ~ Credentials!AcceptsBare(c.token, link[s])
  BY DEF CredentialInv, TokensInv, Has, Credentials!AcceptsSigned, Credentials!AcceptsBare,
     Credentials!Issued
<1>2. s \in denied => ~signed /\ ~bare
  BY DEF CredentialInv, DeniedInv, Credentials!AcceptsSigned, Credentials!AcceptsBare,
     Credentials!Reachable
<1>3. link[s].expires \in Nat /\ now \in Nat /\ link[s].enabled \in BOOLEAN
  BY DEF CredentialInv, LinkTypes, Credentials!Link
<1>4. signed <=> /\ link[s].expires \div Credentials!Second > now \div Credentials!Second
                 /\ Credentials!Reachable(link[s])
  BY DEF Credentials!AcceptsSigned, Credentials!Issued
<1>5. bare <=> link[s].expires > now /\ Credentials!Reachable(link[s])
  BY <1>3 DEF Credentials!AcceptsBare, Credentials!Status, Credentials!Reachable
<1>6. /\ link[s].expires \div 2 > now \div 2 => link[s].expires > now
      /\ link[s].expires > now =>
             link[s].expires \div 2 > now \div 2 \/ link[s].expires \div 2 = now \div 2
  BY <1>3
<1>7. /\ signed => bare
      /\ bare => signed \/ link[s].expires \div Credentials!Second = now \div Credentials!Second
  BY <1>4, <1>5, <1>6 DEF Credentials!Second
<1> QED
  BY <1>1, <1>2, <1>7

-----------------------------------------------------------------------------
(***************************************************************************)
(* The limiter.                                                            *)
(***************************************************************************)
\* The window ts is what is left of the times of all the requests let through:
\* those before it have expired at time t.
Suffix(ts, all, t) ==
    \E n \in Nat :
        /\ Len(all) = n + Len(ts)
        /\ \A i \in 1 .. Len(ts) : ts[i] = all[n + i]
        /\ \A i \in 1 .. n : Limiter!Expired(all[i], t)

\* The inductive invariant of RateLimiter.
LimiterTypes ==
    /\ clock \in Nat
    /\ window \in [Pupils -> Seq(Nat)] /\ admitted \in [Pupils -> Seq(Nat)]
    /\ DOMAIN caller = Visits
    /\ \A r \in Visits : caller[r] # None =>
        caller[r].key \in Pupils /\ caller[r].now \in 0 .. clock
LimiterInv ==
    /\ LimiterTypes
    /\ \A k \in Pupils : Len(window[k]) <= Limit
    /\ \A k \in Pupils \ forgotten : Suffix(window[k], admitted[k], clock)

\* An interval has as many elements as it is long.
LEMMA IntervalSize ==
    ASSUME NEW a \in Nat, NEW n \in Nat
    PROVE  IsFiniteSet(a + 1 .. a + n) /\ Cardinality(a + 1 .. a + n) = n
<1>1. a + 1 \in Int /\ a + n \in Int
  OBVIOUS
<1>2. /\ IsFiniteSet(a + 1 .. a + n)
      /\ Cardinality(a + 1 .. a + n)
             = IF a + 1 > a + n THEN 0 ELSE (a + n) - (a + 1) + 1
  BY <1>1, FS_Interval
<1>3. n = IF a + 1 > a + n THEN 0 ELSE (a + n) - (a + 1) + 1
  OBVIOUS
<1> QED  BY <1>2, <1>3

\* The module of the limiter counts as this one does.
LEMMA SameCardinality ==
    ASSUME NEW S PROVE Limiter!Cardinality(S) = Cardinality(S)
  BY DEF Limiter!Cardinality, Cardinality, Limiter!IsFiniteSet, IsFiniteSet

\* What expired at the head of a window is all it loses.
LEMMA ExpiredHeadPrefix ==
    ASSUME NEW ts \in Seq(Nat), NEW time \in Nat, Window \in Nat,
           NEW n, n = Cardinality(Limiter!ExpiredHead(ts, time))
    PROVE  n \in 0 .. Len(ts) /\ \A i \in 1 .. n : Limiter!Expired(ts[i], time)
<1> DEFINE H == Limiter!ExpiredHead(ts, time)
<1>1. H \subseteq 1 .. Len(ts) /\ Len(ts) \in Nat
  BY DEF Limiter!ExpiredHead
<1>2. IsFiniteSet(H) /\ n \in Nat /\ n <= Len(ts)
  <2>1. IsFiniteSet(1 .. Len(ts)) /\ Cardinality(1 .. Len(ts)) = Len(ts)
    <3>1. IsFiniteSet(0 + 1 .. 0 + Len(ts)) /\ Cardinality(0 + 1 .. 0 + Len(ts)) = Len(ts)
      BY <1>1, IntervalSize
    <3>2. 0 + 1 = 1 /\ 0 + Len(ts) = Len(ts)
      BY <1>1
    <3> QED  BY <3>1, <3>2
  <2>2. IsFiniteSet(H) /\ Cardinality(H) <= Cardinality(1 .. Len(ts))
    BY <1>1, <2>1, FS_Subset
  <2> QED  BY <1>1, <2>1, <2>2, FS_CardinalityType
<1>3. ASSUME NEW i \in 1 .. n PROVE i \in H
  <2> SUFFICES ASSUME i \notin H PROVE FALSE
    OBVIOUS
  <2>1. H \subseteq 1 .. (i - 1)
    <3> SUFFICES ASSUME NEW j \in H, j >= i PROVE FALSE
      BY <1>1, <1>2
    <3> QED  BY <1>1, <1>2 DEF Limiter!ExpiredHead
  <2>2. IsFiniteSet(1 .. (i - 1)) /\ Cardinality(1 .. (i - 1)) = i - 1
    <3>1. IsFiniteSet(0 + 1 .. 0 + (i - 1)) /\ Cardinality(0 + 1 .. 0 + (i - 1)) = i - 1
      BY <1>2, IntervalSize
    <3>2. 0 + 1 = 1 /\ 0 + (i - 1) = i - 1
      BY <1>2
    <3> QED  BY <3>1, <3>2
  <2>3. n <= i - 1
    BY <2>1, <2>2, FS_Subset
  <2> QED  BY <1>2, <2>3
<1>4. \A i \in H : Limiter!Expired(ts[i], time)
  BY DEF Limiter!ExpiredHead
<1> QED  BY <1>2, <1>3, <1>4

\* Sliding a window loses expired times only.
LEMMA SlidSuffix ==
    ASSUME Window \in Nat, NEW ts \in Seq(Nat), NEW all \in Seq(Nat), NEW time \in Nat,
           NEW t \in Nat, time <= t
    PROVE  /\ Limiter!Slid(ts, time) \in Seq(Nat) /\ Len(Limiter!Slid(ts, time)) <= Len(ts)
           /\ Suffix(ts, all, t) => Suffix(Limiter!Slid(ts, time), all, t)
<1>1. PICK n : n = Cardinality(Limiter!ExpiredHead(ts, time))
  OBVIOUS
<1>2. n \in 0 .. Len(ts) /\ \A i \in 1 .. n : Limiter!Expired(ts[i], time)
  BY <1>1, ExpiredHeadPrefix
<1>3. PICK slid : slid = SubSeq(ts, n + 1, Len(ts))
  OBVIOUS
<1>4. /\ slid \in Seq(Nat) /\ Len(slid) = Len(ts) - n
      /\ \A i \in 1 .. Len(slid) : slid[i] = ts[n + i]
  BY <1>2, <1>3
<1>5. Limiter!Slid(ts, time) = slid
  BY <1>1, <1>3, SameCardinality DEF Limiter!Slid
<1>6. ASSUME Suffix(ts, all, t) PROVE Suffix(slid, all, t)
  <2>1. PICK m \in Nat :
            /\ Len(all) = m + Len(ts)
            /\ \A i \in 1 .. Len(ts) : ts[i] = all[m + i]
            /\ \A i \in 1 .. m : Limiter!Expired(all[i], t)
    BY <1>6 DEF Suffix
  <2>2. Len(all) = (m + n) + Len(slid) /\ m + n \in Nat
    BY <1>2, <1>4, <2>1
  <2>3. \A i \in 1 .. Len(slid) : slid[i] = all[(m + n) + i]
    <3> SUFFICES ASSUME NEW i \in 1 .. Len(slid) PROVE slid[i] = all[(m + n) + i]
      OBVIOUS
    <3>1. n + i \in 1 .. Len(ts) /\ m + (n + i) = (m + n) + i
      BY <1>2, <1>4
    <3> QED  BY <1>4, <2>1, <3>1
  <2>4. \A i \in 1 .. m + n : Limiter!Expired(all[i], t)
    <3> SUFFICES ASSUME NEW i \in 1 .. m + n, i > m PROVE Limiter!Expired(all[i], t)
      BY <2>1
    <3>1. i - m \in 1 .. n /\ i - m \in 1 .. Len(ts) /\ m + (i - m) = i
      BY <1>2
    <3>2. ts[i - m] = all[i]
      BY <2>1, <3>1
    <3>3. ts[i - m] \in Nat
      BY <3>1
    <3>4. Limiter!Expired(ts[i - m], time)
      BY <1>2, <3>1
    <3> QED  BY <3>2, <3>3, <3>4 DEF Limiter!Expired
  <2> QED  BY <2>2, <2>3, <2>4 DEF Suffix
<1> QED  BY <1>2, <1>4, <1>5, <1>6

\* A window that a purge drops has expired, unless it is recorded as forgotten.
LEMMA DroppedSuffix ==
    ASSUME NEW ts \in Seq(Nat), NEW all \in Seq(Nat), NEW t \in Nat, Suffix(ts, all, t),
           \A i \in 1 .. Len(ts) : Limiter!Expired(ts[i], t)
    PROVE  Suffix(<<>>, all, t)
<1>1. PICK m \in Nat :
          /\ Len(all) = m + Len(ts)
          /\ \A i \in 1 .. Len(ts) : ts[i] = all[m + i]
          /\ \A i \in 1 .. m : Limiter!Expired(all[i], t)
  BY DEF Suffix
<1>2. \A i \in 1 .. Len(all) : Limiter!Expired(all[i], t)
  <2> SUFFICES ASSUME NEW i \in 1 .. Len(all), i > m PROVE Limiter!Expired(all[i], t)
    BY <1>1
  <2>1. i - m \in 1 .. Len(ts) /\ m + (i - m) = i
    BY <1>1
  <2> QED  BY <1>1, <2>1
<1>3. PICK none : none = <<>>
  OBVIOUS
<1>4. Len(none) = 0 /\ Len(all) \in Nat /\ Len(all) = Len(all) + 0
  BY <1>3
<1>5. Suffix(none, all, t)
  BY <1>2, <1>4 DEF Suffix
<1> QED  BY <1>3, <1>5

\* A request that is let through is the last of both.
LEMMA AppendSuffix ==
    ASSUME NEW ts \in Seq(Nat), NEW all \in Seq(Nat), NEW t \in Nat, NEW x \in Nat,
           Suffix(ts, all, t)
    PROVE  Suffix(Append(ts, x), Append(all, x), t)
<1>1. PICK m \in Nat :
          /\ Len(all) = m + Len(ts)
          /\ \A i \in 1 .. Len(ts) : ts[i] = all[m + i]
          /\ \A i \in 1 .. m : Limiter!Expired(all[i], t)
  BY DEF Suffix
<1>2. Len(Append(all, x)) = m + Len(Append(ts, x))
  BY <1>1
<1>3. ASSUME NEW i \in 1 .. Len(Append(ts, x)) PROVE Append(ts, x)[i] = Append(all, x)[m + i]
  <2>1. CASE i \in 1 .. Len(ts)
    <3>1. ts[i] = all[m + i] /\ m + i \in 1 .. Len(all)
      BY <1>1, <2>1
    <3> QED  BY <2>1, <3>1
  <2>2. CASE i = Len(ts) + 1
    <3>1. m + i = Len(all) + 1
      BY <1>1, <2>2
    <3> QED  BY <2>2, <3>1
  <2>3. Len(Append(ts, x)) = Len(ts) + 1 /\ Len(ts) \in Nat /\ i \in 1 .. Len(ts) + 1
    <3>1. Append(ts, x) \in Seq(Nat) /\ Len(Append(ts, x)) = Len(ts) + 1
      OBVIOUS
    <3> QED  BY <1>3, <3>1
  <2>4. i \in 1 .. Len(ts) \/ i = Len(ts) + 1
    BY <2>3
  <2> QED  BY Zenon, <2>1, <2>2, <2>4
<1>4. \A i \in 1 .. m : Limiter!Expired(Append(all, x)[i], t)
  <2> SUFFICES ASSUME NEW i \in 1 .. m PROVE Append(all, x)[i] = all[i]
    BY <1>1
  <2> QED  BY <1>1
<1> QED  BY <1>2, <1>3, <1>4 DEF Suffix

\* What has expired stays expired.
LEMMA LaterSuffix ==
    ASSUME Window \in Nat, NEW ts \in Seq(Nat), NEW all \in Seq(Nat), NEW t \in Nat, NEW u \in Nat,
           t <= u, Suffix(ts, all, t)
    PROVE  Suffix(ts, all, u)
<1>1. PICK m \in Nat :
          /\ Len(all) = m + Len(ts)
          /\ \A i \in 1 .. Len(ts) : ts[i] = all[m + i]
          /\ \A i \in 1 .. m : Limiter!Expired(all[i], t)
  BY DEF Suffix
<1>2. \A i \in 1 .. m : Limiter!Expired(all[i], u)
  <2> SUFFICES ASSUME NEW i \in 1 .. m PROVE Limiter!Expired(all[i], u)
    OBVIOUS
  <2>1. all[i] \in Nat
    BY <1>1
  <2> QED  BY <1>1, <2>1 DEF Limiter!Expired
<1> QED  BY <1>1, <1>2 DEF Suffix

\* The requests of the last Window are in the window, which is no longer than the limit.
LEMMA SuffixCounts ==
    ASSUME Limit \in Nat, NEW ts \in Seq(Nat), NEW all \in Seq(Nat), NEW t \in Nat,
           Suffix(ts, all, t), Len(ts) <= Limit
    PROVE  Cardinality({i \in 1 .. Len(all) : ~Limiter!Expired(all[i], t)}) <= Limit
<1>1. PICK m \in Nat :
          /\ Len(all) = m + Len(ts)
          /\ \A i \in 1 .. m : Limiter!Expired(all[i], t)
  BY DEF Suffix
<1> DEFINE live == {i \in 1 .. Len(all) : ~Limiter!Expired(all[i], t)}
<1>2. live \subseteq m + 1 .. m + Len(ts)
  BY <1>1
<1>3. /\ IsFiniteSet(m + 1 .. m + Len(ts))
      /\ Cardinality(m + 1 .. m + Len(ts)) = Len(ts)
  BY <1>1, IntervalSize
<1>4. Cardinality(live) <= Len(ts) /\ Cardinality(live) \in Nat
  BY <1>2, <1>3, FS_Subset, FS_CardinalityType
<1> QED  BY <1>4

\* Nothing was let through at the start.
LEMMA LimiterInit == Limiter!LimiterAssumption /\ Limiter!Init => LimiterInv
<1> SUFFICES ASSUME Limiter!LimiterAssumption, Limiter!Init PROVE LimiterInv
  OBVIOUS
<1>1. LimiterTypes
  BY DEF Limiter!Init, LimiterTypes
<1>2. \A k \in Pupils : window[k] = <<>> /\ admitted[k] = <<>>
  BY DEF Limiter!Init
<1>3. Suffix(<<>>, <<>>, clock)
  BY DEF Suffix
<1> QED  BY <1>1, <1>2, <1>3 DEF LimiterInv, Limiter!LimiterAssumption

\* A decision leaves every window a suffix of what it has let through.
LEMMA DecideInv ==
    ASSUME Limiter!LimiterAssumption, LimiterInv, NEW r \in Visits, Limiter!Decide(r)
    PROVE  LimiterInv'
<1>0. Limit \in Nat /\ Window \in Nat /\ clock \in Nat /\ clock' = clock
  BY DEF Limiter!LimiterAssumption, LimiterInv, LimiterTypes, Limiter!Decide
<1>1. PICK k \in Pupils, time \in 0 .. clock : caller[r].key = k /\ caller[r].now = time
  BY DEF Limiter!Decide, LimiterInv, LimiterTypes
<1>2. PICK kept : kept = IF checks + 1 = PurgeEvery THEN Limiter!Purged(time) ELSE window
  OBVIOUS
<1>3. PICK slid : slid = Limiter!Slid(kept[k], time)
  OBVIOUS
<1>4. /\ forgotten' = forgotten \cup
             {l \in Pupils : kept[l] # window[l]
                 /\ \E i \in 1 .. Len(window[l]) : ~Limiter!Expired(window[l][i], time)}
      /\ window' = [kept EXCEPT ![k] = IF Limiter!Full(slid) THEN slid ELSE Append(slid, time)]
      /\ admitted' = IF Limiter!Full(slid) THEN admitted
                     ELSE [admitted EXCEPT ![k] = Append(@, time)]
      /\ caller' = [caller EXCEPT ![r] = None]
  BY <1>1, <1>2, <1>3 DEF Limiter!Decide
<1>5. time \in Nat /\ time <= clock
  BY <1>0, <1>1
<1>6. /\ kept \in [Pupils -> Seq(Nat)]
      /\ \A l \in Pupils : kept[l] = window[l] \/ kept[l] = <<>>
  BY <1>2 DEF Limiter!Purged, LimiterInv, LimiterTypes
<1>7. \A l \in Pupils : Len(kept[l]) <= Limit
  BY <1>0, <1>6 DEF LimiterInv
<1>8. ASSUME NEW l \in Pupils \ forgotten' PROVE Suffix(kept[l], admitted[l], clock)
  <2>1. window[l] \in Seq(Nat) /\ admitted[l] \in Seq(Nat) /\ Suffix(window[l], admitted[l], clock)
    BY <1>4, <1>8 DEF LimiterInv, LimiterTypes
  <2>2. CASE kept[l] = window[l]
    BY <2>1, <2>2
  <2>3. CASE kept[l] # window[l]
    <3>1. \A i \in 1 .. Len(window[l]) : Limiter!Expired(window[l][i], time)
      BY <1>4, <1>8, <2>3
    <3>2. \A i \in 1 .. Len(window[l]) : Limiter!Expired(window[l][i], clock)
      <4> SUFFICES ASSUME NEW i \in 1 .. Len(window[l])
                   PROVE  Limiter!Expired(window[l][i], clock)
        OBVIOUS
      <4>1. window[l][i] \in Nat
        BY <2>1
      <4> QED  BY <1>0, <1>5, <3>1, <4>1 DEF Limiter!Expired
    <3> QED  BY <1>0, <1>6, <1>8, <2>1, <2>3, <3>2, DroppedSuffix
  <2> QED  BY <2>2, <2>3
<1>9. /\ slid \in Seq(Nat) /\ Len(slid) <= Limit
      /\ k \notin forgotten' => Suffix(slid, admitted[k], clock)
  <2>1. kept[k] \in Seq(Nat) /\ admitted[k] \in Seq(Nat) /\ Len(kept[k]) <= Limit
    BY <1>1, <1>6, <1>7 DEF LimiterInv, LimiterTypes
  <2>2. /\ slid \in Seq(Nat) /\ Len(slid) <= Len(kept[k])
        /\ Suffix(kept[k], admitted[k], clock) => Suffix(slid, admitted[k], clock)
    BY <1>0, <1>3, <1>5, <2>1, SlidSuffix
  <2> QED  BY <1>0, <1>1, <1>8, <2>1, <2>2
<1>10. LimiterTypes'
  <2>1. Append(slid, time) \in Seq(Nat) /\ Append(admitted[k], time) \in Seq(Nat)
    BY <1>1, <1>5, <1>9 DEF LimiterInv, LimiterTypes
  <2>2. window' \in [Pupils -> Seq(Nat)] /\ admitted' \in [Pupils -> Seq(Nat)]
    BY <1>1, <1>4, <1>6, <1>9, <2>1 DEF LimiterInv, LimiterTypes
  <2> QED  BY <1>0, <1>4, <2>2 DEF LimiterInv, LimiterTypes
<1>11. ASSUME NEW l \in Pupils
       PROVE  /\ Len(window'[l]) <= Limit
              /\ l \notin forgotten' => Suffix(window'[l], admitted'[l], clock)
  <2>1. CASE l # k
    BY <1>1, <1>4, <1>6, <1>7, <1>8, <2>1 DEF LimiterInv, LimiterTypes
  <2>2. CASE l = k /\ Limiter!Full(slid)
    BY <1>1, <1>4, <1>6, <1>9, <2>2
  <2>3. CASE l = k /\ ~Limiter!Full(slid)
    <3>1. Len(slid) < Limit
      BY <1>0, <1>9, <2>3 DEF Limiter!Full
    <3>2. window'[l] = Append(slid, time) /\ admitted'[l] = Append(admitted[k], time)
      BY <1>1, <1>4, <1>6, <2>3 DEF LimiterInv, LimiterTypes
    <3>3. Len(Append(slid, time)) <= Limit
      BY <1>0, <1>5, <1>9, <3>1
    <3>4. admitted[k] \in Seq(Nat)
      BY <1>1 DEF LimiterInv, LimiterTypes
    <3> QED  BY <1>0, <1>5, <1>9, <2>3, <3>2, <3>3, <3>4, AppendSuffix
  <2> QED  BY <2>1, <2>2, <2>3
<1> QED  BY <1>0, <1>10, <1>11 DEF LimiterInv

\* Every step of the limiter keeps the invariant.
LEMMA LimiterNext ==
    Limiter!LimiterAssumption /\ LimiterInv /\ [Limiter!Next]_limiterVars => LimiterInv'
<1> SUFFICES ASSUME Limiter!LimiterAssumption, LimiterInv, [Limiter!Next]_limiterVars
             PROVE  LimiterInv'
  OBVIOUS
<1>1. ASSUME NEW r \in Visits, Limiter!ReadClock(r) PROVE LimiterInv'
  <2>1. PICK k \in Pupils : caller' = [caller EXCEPT ![r] = [key |-> k, now |-> clock]]
    BY <1>1 DEF Limiter!ReadClock, Limiter!Check
  <2>2. LimiterTypes'
    BY <1>1, <2>1 DEF Limiter!ReadClock, LimiterInv, LimiterTypes
  <2> QED  BY <1>1, <2>2 DEF Limiter!ReadClock, LimiterInv
<1>2. ASSUME Limiter!Tick PROVE LimiterInv'
  <2>1. clock' = clock + 1 /\ UNCHANGED <<window, caller, admitted, forgotten>>
    BY <1>2 DEF Limiter!Tick
  <2>2. LimiterTypes'
    BY <2>1 DEF LimiterInv, LimiterTypes
  <2>3. \A k \in Pupils \ forgotten : Suffix(window[k], admitted[k], clock + 1)
    <3> SUFFICES ASSUME NEW k \in Pupils \ forgotten
                 PROVE  Suffix(window[k], admitted[k], clock + 1)
      OBVIOUS
    <3>1. /\ window[k] \in Seq(Nat) /\ admitted[k] \in Seq(Nat) /\ clock \in Nat
          /\ Suffix(window[k], admitted[k], clock)
      BY DEF LimiterInv, LimiterTypes
    <3> QED  BY <3>1, LaterSuffix DEF Limiter!LimiterAssumption
  <2> QED  BY <2>1, <2>2, <2>3 DEF LimiterInv
<1>3. CASE UNCHANGED limiterVars
  BY <1>3 DEF limiterVars, LimiterInv, LimiterTypes
<1> QED  BY <1>1, <1>2, <1>3, DecideInv DEF Limiter!Next

\* Windows that are suffixes, and no longer than the limit, hold it.
LEMMA LimitHolds ==
    ASSUME Limiter!LimiterAssumption, LimiterInv
    PROVE  Limiter!WindowHolds
<1> SUFFICES ASSUME NEW k \in Pupils \ forgotten
             PROVE  Cardinality({i \in 1 .. Len(admitted[k]) :
                                     ~Limiter!Expired(admitted[k][i], clock)}) <= Limit
  BY SameCardinality DEF Limiter!WindowHolds
<1>1. /\ window[k] \in Seq(Nat) /\ admitted[k] \in Seq(Nat) /\ clock \in Nat
      /\ Suffix(window[k], admitted[k], clock) /\ Len(window[k]) <= Limit
  BY DEF LimiterInv, LimiterTypes
<1> QED  BY <1>1, SuffixCounts DEF Limiter!LimiterAssumption

-----------------------------------------------------------------------------
(***************************************************************************)
(* The theorems.                                                           *)
(***************************************************************************)
\* A step of the whole is one of each part, or changes nothing there.
LEMMA PagesStep ==
    [PagesNext]_<<vars, formVars, linkVars, limiterVars>> =>
        /\ [Next]_vars /\ [Forms!Next]_formVars
        /\ [Credentials!Next]_linkVars /\ [Limiter!Next]_limiterVars
BY DEF PagesNext, vars, formVars, linkVars, limiterVars

\* The invariants hold throughout.
LEMMA PagesInvariance ==
    PagesSpec => [](DesignInv /\ FormInv /\ PhotoInv /\ CredentialInv /\ LimiterInv)
<1>1. Init /\ Forms!Init /\ Credentials!Init /\ Limiter!Init =>
          DesignInv /\ FormInv /\ PhotoInv /\ CredentialInv /\ LimiterInv
  BY PagesAssumption, DesignInit, FormInit, InitPhotoInv, CredentialInit, LimiterInit
<1>2. DesignInv /\ FormInv /\ PhotoInv /\ CredentialInv /\ LimiterInv
          /\ [PagesNext]_<<vars, formVars, linkVars, limiterVars>> =>
      DesignInv' /\ FormInv' /\ PhotoInv' /\ CredentialInv' /\ LimiterInv'
  BY PagesAssumption, PagesStep, DesignNext, FormNext, StepPhotoInv, CredentialNext,
     LimiterNext
<1> QED
  BY <1>1, <1>2, PTL DEF PagesSpec

\* The state of the designs and their links keeps its type (card_templates.py).
THEOREM TypeCorrect == PagesSpec => []TypeOK
<1>1. DesignInv => TypeOK
  BY DEF DesignInv
<1> QED
  BY <1>1, PagesInvariance, PTL

\* A public token that was replaced opens no design again, for any number of
\* schools and of overlapping changes of the link (regenerate_public_design_share).
THEOREM LinksStayDead == PagesSpec => []RevokedLinksStayDead
<1>1. DesignInv => RevokedLinksStayDead
  BY DEF DesignInv, LinkInv
<1> QED
  BY <1>1, PagesInvariance, PTL

\* The designs are a versioned register (save_card_template, copy_card_template):
\* CardTemplates implements VersionedDesign.
THEOREM Refinement == PagesSpec => Versioned
<1>1. Init => Design!Init
  BY DEF Init, Design!Init
<1>2. DesignInv /\ [Next]_vars => [Design!Next]_(Design!vars)
  <2> SUFFICES ASSUME DesignInv, [Next]_vars, card' # card \/ token' # token
               PROVE  Design!Next
    BY DEF Design!vars
  <2>1. PICK r \in Requests : Step(r)
    BY DEF Next, vars
  <2>2. CommitSave(r)
    BY <2>1, OnlyCommitWrites
  <2>3. \E s \in Schools : Design!Publish(s)
    BY <2>2, CommitFacts DEF Design!Publish
  <2> QED
    BY <2>3 DEF Design!Next
<1>3. DesignInv /\ [PagesNext]_<<vars, formVars, linkVars, limiterVars>> =>
          [Design!Next]_(Design!vars)
  BY <1>2, PagesStep
<1> QED
  BY <1>1, <1>3, PagesInvariance, PTL DEF PagesSpec, Versioned, Design!Spec

\* A save that sends the token of the design its editor saw replaces that very
\* design, or nothing (save_card_template's lock and comparison).
THEOREM SavesReplaceWhatWasSeen == PagesSpec => NoLostDesign
<1> DEFINE Replaced == \A r \in Requests :
        At(r, "commit") /\ req[r].expect # 0 /\ card' # card /\ req'[r] # req[r] =>
            card[req[r].school] = req[r].base
<1>1. DesignInv /\ [Next]_vars => [Replaced]_vars
  <2> SUFFICES ASSUME DesignInv, Next, NEW r \in Requests, At(r, "commit"),
                      req[r].expect # 0, card' # card, req'[r] # req[r]
               PROVE  card[req[r].school] = req[r].base
    BY DEF vars
  <2>1. PICK p \in Requests : Step(p)
    BY DEF Next
  <2>2. CommitSave(p)
    BY <2>1, OnlyCommitWrites
  <2>3. p = r
    BY <2>2 DEF CommitSave, End, DesignInv, TypeOK
  <2> QED
    BY <2>2, <2>3, CommitFacts
<1>2. DesignInv /\ [PagesNext]_<<vars, formVars, linkVars, limiterVars>> => [Replaced]_vars
  BY <1>1, PagesStep
<1>3. NoLostDesign <=> [][Replaced]_vars
  BY DEF NoLostDesign
<1> QED
  BY <1>2, <1>3, PagesInvariance, PTL DEF PagesSpec

\* Whatever reviews, submissions and other creations of students overlap and
\* whatever fails, approve_public_form_submission and its counterparts implement a
\* register of decisions, each made once, and each approval admits one student.
THEOREM DecisionsStand == PagesSpec => DecidedOnce
<1>1. Forms!Init => Forms!Decisions!Init
  BY DEF Forms!Init, Forms!Decisions!Init
<1>2. FormInv /\ [Forms!Next]_formVars => [Forms!Decisions!Next]_(Forms!Decisions!vars)
  BY PagesAssumption, AbstractSteps
<1>3. FormInv /\ [PagesNext]_<<vars, formVars, linkVars, limiterVars>> =>
          [Forms!Decisions!Next]_(Forms!Decisions!vars)
  BY <1>2, PagesStep
<1> QED
  BY <1>1, <1>3, PagesInvariance, PTL
     DEF PagesSpec, DecidedOnce, Forms!DecidedOnce, Forms!Decisions!Spec

\* Whatever a review, a failed step or a crash deletes in public_forms.py, nothing
\* refers to it any more, but for the one recorded in lost; and unless a deletion or
\* a refresh failed or the process stopped, the bucket at rest holds nothing else.
THEOREM PhotosStay == PagesSpec => []PhotosHold
<1>1. FormInv /\ PhotoInv => PhotosHold
  BY AtRest DEF PhotosHold, FormInv, PhotoInv
<1> QED
  BY <1>1, PagesInvariance, PTL

\* Whatever rotations, disablings, settings and creations overlap, the public page
\* refuses a credential that was replaced and those of a student whose link was
\* disabled last (public_verification.py, public_credentials.py).
THEOREM LinksStayRevoked == PagesSpec => []RevokedCredentialsRefused
<1>1. CredentialInv => RevokedCredentialsRefused
  BY PagesAssumption, Refused DEF RevokedCredentialsRefused
<1> QED
  BY <1>1, PagesInvariance, PTL

\* However many checks overlap and in whatever order they take the lock, of the
\* requests of the last Window the limiter has let through at most Limit, but for
\* the keys of which a purge dropped a live timestamp (rate_limit.py).
THEOREM LimitStays == PagesSpec => []WindowHolds
<1>1. LimiterInv => WindowHolds
  BY PagesAssumption, LimitHolds DEF WindowHolds
<1> QED
  BY <1>1, PagesInvariance, PTL
=============================================================================
