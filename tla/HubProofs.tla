------------------------------ MODULE HubProofs ------------------------------
(***************************************************************************)
(* For any number of mates, users, failing calls and withdrawn pages: a    *)
(* mate makes one issue and one page or citation of its finding, cites no  *)
(* page of its own user, and two users publish the same thing only when a  *)
(* call failed, a page was withdrawn or two scans overlapped; nothing is   *)
(* published twice but for failures; and the figures of yesterday are sent *)
(* by a scan in which nothing fails.                                       *)
(***************************************************************************)
EXTENDS MCHub, FiniteSetTheorems, WellFoundedInduction, TLAPS

Issue == [by : Mates, status : {"open", "resolved", "knowledge_linked"}]
Page(is) == [by : Mates, issue : DOMAIN is, active : BOOLEAN]
Reuse(is, ps) == [issue : DOMAIN is, page : DOMAIN ps, by : Mates]

\* Page p is by another user than mate m.
Foreign(p, m) == p \in DOMAIN pages /\ UserOf[pages[p].by] # UserOf[m]

\* What a scan holds fits the hub and the mate's own table.
ScanFits(m) ==
  /\ scan[m].hit # 0 => Foreign(scan[m].hit, m)
  /\ scan[m].stage \in {"mark_issue", "cite", "resolve", "mark_published"} =>
       scan[m].issue \in DOMAIN issues
  /\ scan[m].stage \in {"cite", "resolve", "mark_published"} => share[m].issue = scan[m].issue
  /\ scan[m].stage \in {"search", "open", "mark_issue"} => share[m].issue = 0
  /\ scan[m].stage # "idle" => share[m].page = 0
  /\ scan[m].stage = "cite" => scan[m].hit # 0
  /\ scan[m].stage = "resolve" => scan[m].hit = 0
  /\ scan[m].stage = "mark_published" => scan[m].page \in DOMAIN pages

\* A request can be served: its issue and its page exist, and are not its own.
Servable(r) ==
  /\ r \in Request
  /\ r.op \in {"resolve_issue", "cite_knowledge"} => r.issue \in DOMAIN issues
  /\ r.op = "cite_knowledge" => Foreign(r.page, r.by)

ShareInv ==
  /\ TypeOK /\ NoSelfCitation
  /\ \A m \in Mates : ScanFits(m)
  /\ \A r \in late : Servable(r)

-----------------------------------------------------------------------------
(* The hub only adds, and pages are only withdrawn.                        *)

HubTypeOK ==
  /\ issues \in Seq(Issue) /\ pages \in Seq(Page(issues))
  /\ reuses \in Seq(Reuse(issues, pages))

HubGrows ==
  /\ DOMAIN issues \subseteq DOMAIN issues'
  /\ \A p \in DOMAIN pages :
       /\ p \in DOMAIN pages' /\ pages'[p].by = pages[p].by
       /\ pages'[p].issue = pages[p].issue
       /\ pages'[p].active => pages[p].active
  /\ \A e \in DOMAIN reuses : e \in DOMAIN reuses' /\ reuses'[e] = reuses[e]

LEMMA Appended ==
  ASSUME NEW S, NEW s \in Seq(S), NEW x \in S
  PROVE  /\ Append(s, x) \in Seq(S) /\ Len(Append(s, x)) = Len(s) + 1
         /\ DOMAIN Append(s, x) = DOMAIN s \cup {Len(s) + 1}
         /\ Len(s) + 1 \notin DOMAIN s
         /\ \A i \in DOMAIN s : Append(s, x)[i] = s[i]
         /\ Append(s, x)[Len(s) + 1] = x
  OBVIOUS

LEMMA Wider ==
  ASSUME NEW S, NEW T, NEW s \in Seq(S), \A x \in S : x \in T
  PROVE  s \in Seq(T)
  OBVIOUS

LEMMA Replaced ==
  ASSUME NEW S, NEW s \in Seq(S), NEW i \in DOMAIN s, NEW x \in S
  PROVE  /\ [s EXCEPT ![i] = x] \in Seq(S) /\ Len([s EXCEPT ![i] = x]) = Len(s)
         /\ DOMAIN [s EXCEPT ![i] = x] = DOMAIN s
  OBVIOUS

\* Rows stay what they are when there are more issues and pages.
LEMMA RowsStay ==
  ASSUME HubTypeOK, NEW is, DOMAIN issues \subseteq DOMAIN is,
         NEW ps, DOMAIN pages \subseteq DOMAIN ps
  PROVE  pages \in Seq(Page(is)) /\ reuses \in Seq(Reuse(is, ps))
<1>1. \A x \in Page(issues) : x \in Page(is)
  BY DEF Page
<1>2. \A x \in Reuse(issues, pages) : x \in Reuse(is, ps)
  BY DEF Reuse
<1> QED
  BY <1>1, <1>2, Wider DEF HubTypeOK

LEMMA StatusSetFits ==
  ASSUME HubTypeOK, NEW i \in DOMAIN issues,
         NEW status \in {"open", "resolved", "knowledge_linked"}, StatusSet(i, status)
  PROVE  issues' \in Seq(Issue) /\ DOMAIN issues' = DOMAIN issues
         /\ \A k \in DOMAIN issues : issues'[k].by = issues[k].by
<1>1. issues[i] \in Issue
  BY DEF HubTypeOK
<1>2. [issues[i] EXCEPT !.status = status] \in Issue
  BY <1>1 DEF Issue
<1>3. issues' = [issues EXCEPT ![i] = [issues[i] EXCEPT !.status = status]]
  BY DEF StatusSet
<1>4. issues' \in Seq(Issue) /\ DOMAIN issues' = DOMAIN issues
  BY <1>2, <1>3, Replaced DEF HubTypeOK
<1>5. [issues[i] EXCEPT !.status = status].by = issues[i].by
  BY <1>1 DEF Issue
<1> QED
  BY <1>3, <1>4, <1>5

\* What a request leaves of the hub.
LEMMA ServeFits ==
  ASSUME HubTypeOK, NEW r, Servable(r), Serve(r) \/ ServeHalf(r)
  PROVE  HubTypeOK' /\ HubGrows
<1>1. r.by \in Mates
  BY DEF Servable, Request
<1>2. CASE OpenIssue(r)
  <2>1. [by |-> r.by, status |-> "open"] \in Issue
    BY <1>1 DEF Issue
  <2>2. issues' \in Seq(Issue) /\ DOMAIN issues \subseteq DOMAIN issues'
    BY <1>2, <2>1, Appended DEF OpenIssue, HubTypeOK
  <2>3. pages' = pages /\ reuses' = reuses
    BY <1>2 DEF OpenIssue
  <2> QED
    BY <2>2, <2>3, RowsStay DEF HubTypeOK, HubGrows
<1>3. ASSUME r.op = "resolve_issue", StatusSet(r.issue, "resolved")
      PROVE  issues' \in Seq(Issue) /\ DOMAIN issues' = DOMAIN issues
             /\ r.issue \in DOMAIN issues
  BY <1>3, StatusSetFits DEF Servable
<1>4. CASE ResolveIssue(r)
  <2> DEFINE x == [by |-> r.by, issue |-> r.issue, active |-> TRUE]
  <2>1. x \in Page(issues')
    BY <1>1, <1>3, <1>4 DEF Page, ResolveIssue
  <2>2. pages \in Seq(Page(issues')) /\ pages' = Append(pages, x) /\ reuses' = reuses
    BY <1>3, <1>4, RowsStay DEF ResolveIssue
  <2> HIDE DEF x
  <2>3. pages' \in Seq(Page(issues')) /\ DOMAIN pages \subseteq DOMAIN pages'
        /\ \A p \in DOMAIN pages : pages'[p] = pages[p]
    BY <2>1, <2>2, Appended
  <2>4. reuses' \in Seq(Reuse(issues', pages'))
    BY <1>3, <1>4, <2>2, <2>3, RowsStay DEF ResolveIssue
  <2> QED
    BY <1>3, <1>4, <2>2, <2>3, <2>4 DEF HubTypeOK, HubGrows, ResolveIssue
<1>5. CASE AddReuse(r) /\ issues' \in Seq(Issue) /\ DOMAIN issues' = DOMAIN issues
  <2> DEFINE x == [issue |-> r.issue, page |-> r.page, by |-> r.by]
  <2>1. x \in Reuse(issues', pages') /\ pages' = pages
    BY <1>1, <1>5 DEF Reuse, AddReuse, Servable, Foreign
  <2>2. reuses \in Seq(Reuse(issues', pages')) /\ reuses' = Append(reuses, x)
    BY <1>5, <2>1, RowsStay DEF AddReuse
  <2> HIDE DEF x
  <2>3. reuses' \in Seq(Reuse(issues', pages')) /\ DOMAIN reuses \subseteq DOMAIN reuses'
        /\ \A e \in DOMAIN reuses : reuses'[e] = reuses[e]
    BY <2>1, <2>2, Appended
  <2>4. pages' \in Seq(Page(issues'))
    BY <1>5, <2>1, RowsStay
  <2> QED
    BY <1>5, <2>1, <2>3, <2>4 DEF HubTypeOK, HubGrows
<1>6. CASE CiteKnowledge(r)
  <2>1. issues' \in Seq(Issue) /\ DOMAIN issues' = DOMAIN issues
    BY <1>6, StatusSetFits DEF CiteKnowledge, AddReuse, Servable
  <2> QED
    BY <1>5, <1>6, <2>1 DEF CiteKnowledge
<1>7. CASE ServeHalf(r)
  <2>1. CASE r.op = "resolve_issue" /\ StatusSet(r.issue, "resolved")
             /\ UNCHANGED <<pages, reuses>>
    <3>1. pages' \in Seq(Page(issues')) /\ reuses' \in Seq(Reuse(issues', pages'))
      BY <1>3, <2>1, RowsStay
    <3> QED
      BY <1>3, <2>1, <3>1 DEF HubTypeOK, HubGrows
  <2>2. CASE AddReuse(r) /\ UNCHANGED issues
    BY <1>5, <2>2 DEF HubTypeOK
  <2> QED
    BY <1>7, <2>1, <2>2 DEF ServeHalf
<1> QED
  BY <1>2, <1>4, <1>6, <1>7 DEF Serve

LEMMA HubTyped == TypeOK <=> /\ HubTypeOK /\ late \subseteq Request
                             /\ share \in [Mates -> [issue : 0 .. Len(issues), page : 0 .. Len(pages)]]
                             /\ scan \in [Mates -> Held] /\ faults \in [Mates -> Nat]
                             /\ overlapped \in BOOLEAN
BY DEF TypeOK, HubTypeOK, Issue, Page, Reuse

\* What is served cites pages of others.
LEMMA CitesForeign ==
  ASSUME HubTypeOK, NoSelfCitation, NEW r, Servable(r), Serve(r) \/ ServeHalf(r)
  PROVE  NoSelfCitation'
<1>1. HubTypeOK' /\ HubGrows
  BY ServeFits
<1>2. ASSUME NEW e \in DOMAIN reuses
      PROVE  UserOf[reuses'[e].by] # UserOf[pages'[reuses'[e].page].by]
  <2>1. reuses[e] \in Reuse(issues, pages)
    BY DEF HubTypeOK
  <2>2. reuses[e].page \in DOMAIN pages
    BY <2>1 DEF Reuse
  <2> QED
    BY <1>1, <2>2 DEF HubGrows, NoSelfCitation
<1>3. CASE reuses' = reuses
  BY <1>2, <1>3 DEF NoSelfCitation
<1>4. CASE AddReuse(r)
  <2> DEFINE x == [issue |-> r.issue, page |-> r.page, by |-> r.by]
  <2>1. x \in Reuse(issues, pages) /\ UserOf[x.by] # UserOf[pages[x.page].by]
    BY <1>4 DEF Reuse, AddReuse, Servable, Foreign, Request
  <2>2. reuses' = Append(reuses, x) /\ pages' = pages
    BY <1>4 DEF AddReuse
  <2> HIDE DEF x
  <2>3. /\ DOMAIN reuses' = DOMAIN reuses \cup {Len(reuses) + 1}
        /\ reuses'[Len(reuses) + 1] = x
    BY <2>1, <2>2, Appended DEF HubTypeOK
  <2> QED
    BY <1>2, <2>1, <2>2, <2>3 DEF NoSelfCitation
<1> QED
  BY <1>3, <1>4 DEF Serve, ServeHalf, OpenIssue, ResolveIssue, CiteKnowledge

\* What was fit stays so while the hub grows.
LEMMA StaysFit ==
  ASSUME HubTypeOK, HubTypeOK', HubGrows
  PROVE  /\ \A p, m : Foreign(p, m) => Foreign(p, m)'
         /\ \A r \in Request : Servable(r) => Servable(r)'
         /\ \A m \in Mates : scan'[m] = scan[m] /\ share'[m] = share[m] /\ ScanFits(m)
                               => ScanFits(m)'
         /\ Len(issues) <= Len(issues') /\ Len(pages) <= Len(pages')
         /\ Len(issues') \in Nat /\ Len(pages') \in Nat
<1>1. \A p, m : Foreign(p, m) => Foreign(p, m)'
  BY DEF Foreign, HubGrows
<1>2. \A r \in Request : Servable(r) => Servable(r)'
  BY <1>1 DEF Servable, HubGrows
<1>3. ASSUME NEW m \in Mates, scan'[m] = scan[m], share'[m] = share[m], ScanFits(m)
      PROVE  ScanFits(m)'
  BY <1>1, <1>3 DEF ScanFits, HubGrows
<1>4. /\ DOMAIN issues = 1 .. Len(issues) /\ DOMAIN issues' = 1 .. Len(issues')
      /\ DOMAIN pages = 1 .. Len(pages) /\ DOMAIN pages' = 1 .. Len(pages')
      /\ {Len(issues), Len(issues'), Len(pages), Len(pages')} \subseteq Nat
  BY DEF HubTypeOK
<1>5. Len(issues) <= Len(issues') /\ Len(pages) <= Len(pages')
  <2>1. DOMAIN pages \subseteq DOMAIN pages'
    BY DEF HubGrows
  <2> QED
    BY <1>4, <2>1 DEF HubGrows
<1> QED
  BY <1>1, <1>2, <1>3, <1>4, <1>5

\* A step of mate m, or of nobody, by what it does to scans and requests.
LEMMA ShareStep ==
  ASSUME ShareInv, HubTypeOK', HubGrows, NoSelfCitation', NEW m \in Mates,
         \A n \in Mates \ {m} : scan'[n] = scan[n] /\ share'[n] = share[n],
         scan' \in [Mates -> Held], faults' \in [Mates -> Nat], overlapped' \in BOOLEAN,
         share' \in [Mates -> [issue : Nat, page : Nat]],
         share'[m].issue \in 0 .. Len(issues'), share'[m].page \in 0 .. Len(pages'),
         ScanFits(m)', \A r \in late' : r \in late \/ Servable(r)
  PROVE  ShareInv'
<1>1. HubTypeOK /\ \A n \in Mates : ScanFits(n)
  BY HubTyped DEF ShareInv
<1>2. ASSUME NEW n \in Mates, n # m PROVE ScanFits(n)'
  BY <1>1, <1>2, StaysFit
<1>3. \A r \in late' : r \in Request /\ Servable(r) /\ Servable(r)'
  BY <1>1, StaysFit DEF ShareInv, Servable
<1>4. ASSUME NEW n \in Mates
      PROVE  share'[n] \in [issue : 0 .. Len(issues'), page : 0 .. Len(pages')]
  <2>1. CASE n = m
    BY <2>1
  <2>2. CASE n # m
    <3>1. share[n] \in [issue : 0 .. Len(issues), page : 0 .. Len(pages)]
      BY DEF ShareInv, TypeOK
    <3>2. Len(issues) \in Nat /\ Len(pages) \in Nat
      BY DEF ShareInv, TypeOK
    <3> QED
      BY <1>1, <2>2, <3>1, <3>2, StaysFit
  <2> QED
    BY <2>1, <2>2
<1>5. late' \subseteq Request
  BY <1>3
<1>6. TypeOK'
  BY <1>4, <1>5 DEF TypeOK, HubTypeOK, Issue, Page, Reuse
<1> QED
  BY <1>2, <1>3, <1>6 DEF ShareInv

LEMMA HubSame ==
  ASSUME ShareInv, UNCHANGED hub
  PROVE  HubTypeOK' /\ HubGrows /\ NoSelfCitation'
<1>1. HubTypeOK /\ NoSelfCitation
  BY HubTyped DEF ShareInv
<1> QED
  BY <1>1 DEF hub, HubTypeOK, HubGrows, NoSelfCitation

\* Withdrawing a page.
LEMMA WithdrawFits ==
  ASSUME ShareInv, NEW p \in DOMAIN pages, Withdraw(p)
  PROVE  HubTypeOK' /\ HubGrows /\ NoSelfCitation'
<1>1. HubTypeOK /\ NoSelfCitation
  BY HubTyped DEF ShareInv
<1>2. pages[p] \in Page(issues)
  BY <1>1 DEF HubTypeOK
<1>3. [pages[p] EXCEPT !.active = FALSE] \in Page(issues)
  BY <1>2 DEF Page
<1>4. pages' = [pages EXCEPT ![p] = [pages[p] EXCEPT !.active = FALSE]]
  BY DEF Withdraw
<1>5. pages' \in Seq(Page(issues)) /\ DOMAIN pages' = DOMAIN pages
  BY <1>1, <1>3, <1>4, Replaced DEF HubTypeOK
<1>6. UNCHANGED <<issues, reuses>>
  BY DEF Withdraw
<1>7. ASSUME NEW q \in DOMAIN pages
      PROVE  /\ pages'[q].by = pages[q].by /\ pages'[q].issue = pages[q].issue
             /\ pages'[q].active => pages[q].active
  <2>1. pages[q] \in Page(issues)
    BY <1>1 DEF HubTypeOK
  <2> QED
    BY <1>2, <1>4, <1>7, <2>1 DEF Page
<1>8. HubTypeOK' /\ HubGrows
  BY <1>1, <1>5, <1>6, <1>7 DEF HubTypeOK, HubGrows, Reuse
<1>9. ASSUME NEW e \in DOMAIN reuses PROVE reuses[e].page \in DOMAIN pages
  <2>1. reuses[e] \in Reuse(issues, pages)
    BY <1>1 DEF HubTypeOK
  <2> QED
    BY <2>1 DEF Reuse
<1> QED
  BY <1>1, <1>6, <1>7, <1>8, <1>9 DEF NoSelfCitation

\* The search cites a page of another user, or none.
LEMMA PickFits ==
  ASSUME HubTypeOK, NEW m \in Mates
  PROVE  /\ PickCitable(m) # 0 => Foreign(PickCitable(m), m)
         /\ PickCitable(m) \in Nat
         /\ PickCitable(m) = 0 <=> Citable(m) = {}
<1>1. Citable(m) \subseteq DOMAIN pages /\ DOMAIN pages = 1 .. Len(pages) /\ Len(pages) \in Nat
  BY DEF Citable, Results, HubTypeOK
<1>2. CASE Citable(m) = {}
  BY <1>2 DEF PickCitable
<1>3. CASE Citable(m) # {}
  <2>1. Citable(m) \subseteq Nat
    BY <1>1
  <2>2. \E x \in Citable(m) : \A y \in Citable(m) : x <= y
    <3>1. PICK x \in Citable(m) : \A y \in Citable(m) : <<y, x>> \notin OpToRel(<, Nat)
      BY <1>3, <2>1, NatLessThanWellFounded, WFMin, Zenon
    <3>2. \A y \in Citable(m) : ~(y < x)
      BY <2>1, <3>1 DEF OpToRel
    <3> QED
      BY <2>1, <3>2
  <2>3. PickCitable(m) \in Citable(m)
    BY <1>3, <2>2, Zenon DEF PickCitable
  <2>4. PickCitable(m) \in DOMAIN pages /\ PickCitable(m) # 0 /\ PickCitable(m) \in Nat
    BY <1>1, <2>3
  <2> QED
    BY <1>3, <2>3, <2>4 DEF Citable, Foreign
<1> QED
  BY <1>2, <1>3

-----------------------------------------------------------------------------
(* The invariant, step by step.                                            *)

\* What mate m does when the hub is left alone.
LEMMA LocalStep ==
  ASSUME ShareInv, NEW m \in Mates,
         ResumeScan(m) \/ NewScan(m) \/ Search(m) \/ SearchFails(m) \/ MarkIssue(m)
           \/ CiteRefused(m) \/ MarkPublished(m) \/ Quit(m)
  PROVE  ShareInv'
<1>1. UNCHANGED hub /\ UNCHANGED late
  BY DEF ResumeScan, NewScan, Search, SearchFails, MarkIssue, CiteRefused, MarkPublished, Quit
<1>2. HubTypeOK' /\ HubGrows /\ NoSelfCitation'
  BY <1>1, HubSame
<1>3. /\ scan \in [Mates -> Held] /\ scan[m] \in Held /\ faults \in [Mates -> Nat]
      /\ overlapped \in BOOLEAN /\ ScanFits(m)
      /\ share \in [Mates -> [issue : 0 .. Len(issues), page : 0 .. Len(pages)]]
      /\ share[m].issue \in 0 .. Len(issues) /\ share[m].page \in 0 .. Len(pages)
      /\ HubTypeOK
  BY HubTyped DEF ShareInv, TypeOK
<1>4. /\ Len(issues) \in Nat /\ Len(pages) \in Nat
      /\ DOMAIN issues = 1 .. Len(issues) /\ DOMAIN pages = 1 .. Len(pages)
      /\ Len(issues') = Len(issues) /\ Len(pages') = Len(pages)
      /\ \A p : Foreign(p, m)' <=> Foreign(p, m)
  BY <1>1, <1>3 DEF HubTypeOK, hub, Foreign
<1>5. \A r \in late' : r \in late
  BY <1>1
<1>6. Idle \in Held
  BY DEF Idle, Held
<1>7. share \in [Mates -> [issue : Nat, page : Nat]]
  BY <1>3, <1>4
<1>8. faults' \in [Mates -> Nat] /\ overlapped' \in BOOLEAN
  <2>1. Fault(m) => faults' \in [Mates -> Nat]
    BY <1>3 DEF Fault
  <2>2. Search(m) => overlapped' \in BOOLEAN
    BY <1>3 DEF Search
  <2>3. UNCHANGED faults \/ Fault(m)
    BY DEF ResumeScan, NewScan, Search, SearchFails, MarkIssue, CiteRefused, MarkPublished, Quit
  <2>4. UNCHANGED overlapped \/ Search(m)
    BY DEF ResumeScan, NewScan, Search, SearchFails, MarkIssue, CiteRefused, MarkPublished, Quit
  <2> QED
    BY <1>3, <2>1, <2>2, <2>3, <2>4
<1>9. ASSUME UNCHANGED share, NEW h \in Held, scan' = [scan EXCEPT ![m] = h], ScanFits(m)'
      PROVE  ShareInv'
  BY <1>2, <1>3, <1>4, <1>5, <1>7, <1>8, <1>9, ShareStep
<1>10. ASSUME UNCHANGED share, Ends(m) PROVE ShareInv'
  <2>1. scan' = [scan EXCEPT ![m] = Idle]
    BY <1>10 DEF Ends
  <2>2. ScanFits(m)'
    BY <1>3, <2>1 DEF ScanFits, Idle
  <2> QED
    BY <1>6, <1>9, <1>10, <2>1, <2>2
<1>11. CASE CiteRefused(m) \/ Quit(m)
  BY <1>10, <1>11 DEF CiteRefused, Quit
<1>12. CASE ResumeScan(m)
  <2> DEFINE h == [Idle EXCEPT !.stage = "resolve", !.issue = share[m].issue]
  <2>1. scan' = [scan EXCEPT ![m] = h] /\ UNCHANGED share
    BY <1>12 DEF ResumeScan
  <2>2. Idle.hit = 0
    BY DEF Idle
  <2>3. h \in Held /\ h.stage = "resolve" /\ h.hit = 0 /\ h.issue = share[m].issue
    <3> DEFINE i == share[m].issue
    <3>1. i \in Nat
      BY <1>3, <1>4
    <3> HIDE DEF i
    <3>2. LET k == [Idle EXCEPT !.stage = "resolve", !.issue = i]
          IN  k \in Held /\ k.stage = "resolve" /\ k.hit = 0 /\ k.issue = i
      BY <1>6, <2>2, <3>1 DEF Held
    <3> QED
      BY <3>2 DEF i
  <2> HIDE DEF h
  <2>4. scan'[m] = h
    BY <1>3, <2>1
  <2>5. share[m].issue \in DOMAIN issues' /\ share[m].page = 0
    BY <1>1, <1>3, <1>4, <1>12 DEF ResumeScan, Pending, hub
  <2>6. ScanFits(m)'
    BY <2>1, <2>3, <2>4, <2>5 DEF ScanFits
  <2> QED
    BY <1>9, <2>1, <2>3, <2>6
<1>13. CASE NewScan(m)
  <2> DEFINE h == [scan[m] EXCEPT !.stage = "search"]
  <2>1. scan' = [scan EXCEPT ![m] = h] /\ UNCHANGED share
    BY <1>13 DEF NewScan, Goes
  <2>2. h \in Held /\ scan'[m] = h /\ h.stage = "search" /\ h.hit = scan[m].hit
    BY <1>3, <2>1 DEF Held
  <2>3. ScanFits(m)'
    BY <1>3, <1>4, <1>13, <2>1, <2>2 DEF NewScan, Unshared, ScanFits
  <2> QED
    BY <1>9, <2>1, <2>2, <2>3
<1>14. CASE Search(m)
  <2> DEFINE h == [scan[m] EXCEPT !.stage = "open", !.hit = PickCitable(m)]
  <2>1. scan' = [scan EXCEPT ![m] = h] /\ UNCHANGED share
    BY <1>14 DEF Search
  <2>2. /\ h \in Held /\ scan'[m] = h /\ h.stage = "open" /\ h.hit = PickCitable(m)
    BY <1>3, <2>1, PickFits DEF Held
  <2>3. ScanFits(m)'
    BY <1>3, <1>4, <1>14, <2>1, <2>2, PickFits DEF Search, ScanFits
  <2> QED
    BY <1>9, <2>1, <2>2, <2>3
<1>15. CASE SearchFails(m)
  <2> DEFINE h == [scan[m] EXCEPT !.stage = "open"]
  <2>1. scan' = [scan EXCEPT ![m] = h] /\ UNCHANGED share
    BY <1>15 DEF SearchFails, Goes
  <2>2. h \in Held /\ scan'[m] = h /\ h.stage = "open" /\ h.hit = scan[m].hit
    BY <1>3, <2>1 DEF Held
  <2>3. ScanFits(m)'
    BY <1>3, <1>4, <1>15, <2>1, <2>2 DEF SearchFails, ScanFits
  <2> QED
    BY <1>9, <2>1, <2>2, <2>3
<1>16. CASE MarkIssue(m)
  <2> DEFINE h == [scan[m] EXCEPT !.stage = IF scan[m].hit # 0 THEN "cite" ELSE "resolve"]
             s == [share[m] EXCEPT !.issue = scan[m].issue]
  <2>1. scan' = [scan EXCEPT ![m] = h] /\ share' = [share EXCEPT ![m] = s]
    BY <1>16 DEF MarkIssue, Goes
  <2>2. /\ h \in Held /\ scan'[m] = h /\ h.hit = scan[m].hit /\ h.issue = scan[m].issue
        /\ h.stage = IF scan[m].hit # 0 THEN "cite" ELSE "resolve"
    BY <1>3, <2>1 DEF Held
  <2>3. scan[m].issue \in DOMAIN issues /\ share[m] \in [issue : Nat, page : Nat]
    BY <1>3, <1>7, <1>16 DEF MarkIssue, ScanFits
  <2>4. s \in [issue : Nat, page : Nat] /\ s.issue = scan[m].issue /\ s.page = share[m].page
    BY <1>4, <2>3
  <2> HIDE DEF h, s
  <2>5. share'[m] = s /\ share' \in [Mates -> [issue : Nat, page : Nat]]
    BY <1>7, <2>1, <2>4
  <2>6. ScanFits(m)'
    BY <1>1, <1>3, <1>4, <1>16, <2>2, <2>3, <2>4, <2>5 DEF MarkIssue, ScanFits, hub
  <2>7. /\ scan' \in [Mates -> Held]
        /\ \A n \in Mates \ {m} : scan'[n] = scan[n] /\ share'[n] = share[n]
    BY <1>3, <2>1, <2>2
  <2>8. share'[m].issue \in 0 .. Len(issues') /\ share'[m].page \in 0 .. Len(pages')
    BY <1>3, <1>4, <2>3, <2>4, <2>5
  <2> QED
    BY <1>2, <1>5, <1>8, <2>5, <2>6, <2>7, <2>8, ShareStep
<1>17. CASE MarkPublished(m)
  <2> DEFINE s == [share[m] EXCEPT !.page = scan[m].page]
  <2>1. scan' = [scan EXCEPT ![m] = Idle] /\ share' = [share EXCEPT ![m] = s]
    BY <1>17 DEF MarkPublished, Ends
  <2>2. scan[m].page \in DOMAIN pages /\ share[m] \in [issue : Nat, page : Nat]
    BY <1>3, <1>7, <1>17 DEF MarkPublished, ScanFits
  <2>3. s \in [issue : Nat, page : Nat] /\ s.page = scan[m].page /\ s.issue = share[m].issue
    BY <1>4, <2>2
  <2> HIDE DEF s
  <2>4. share'[m] = s /\ share' \in [Mates -> [issue : Nat, page : Nat]]
    BY <1>7, <2>1, <2>3
  <2>5. ScanFits(m)'
    BY <1>3, <2>1 DEF ScanFits, Idle
  <2>6. /\ scan' \in [Mates -> Held]
        /\ \A n \in Mates \ {m} : scan'[n] = scan[n] /\ share'[n] = share[n]
    BY <1>3, <1>6, <2>1
  <2>7. share'[m].issue \in 0 .. Len(issues') /\ share'[m].page \in 0 .. Len(pages')
    BY <1>3, <1>4, <2>2, <2>3, <2>4
  <2> QED
    BY <1>2, <1>5, <1>8, <2>4, <2>5, <2>6, <2>7, ShareStep
<1> QED
  BY <1>11, <1>12, <1>13, <1>14, <1>15, <1>16, <1>17

\* What a mate asks for can be served.
LEMMA RequestsFit ==
  ASSUME ShareInv, NEW m \in Mates
  PROVE  /\ scan[m].stage = "open" => Servable(OpenRequest(m))
         /\ scan[m].stage = "resolve" => Servable(ResolveRequest(m))
         /\ scan[m].stage = "cite" => Servable(CiteRequest(m))
<1>1. scan[m] \in Held /\ ScanFits(m)
  BY DEF ShareInv, TypeOK
<1>2. scan[m].issue \in Nat /\ scan[m].hit \in Nat
  BY <1>1 DEF Held
<1>3. CASE scan[m].stage = "open"
  <2>1. OpenRequest(m) \in Request
    BY DEF OpenRequest, Request
  <2> QED
    BY <1>3, <2>1 DEF Servable, OpenRequest
<1>4. CASE scan[m].stage = "resolve"
  <2>1. ResolveRequest(m) \in Request
    BY <1>2 DEF ResolveRequest, Request
  <2> QED
    BY <1>1, <1>4, <2>1 DEF Servable, ResolveRequest, ScanFits
<1>5. CASE scan[m].stage = "cite"
  <2>1. CiteRequest(m) \in Request
    BY <1>2 DEF CiteRequest, Request
  <2> QED
    BY <1>1, <1>5, <2>1 DEF Servable, CiteRequest, ScanFits
<1> QED
  BY <1>3, <1>4, <1>5

\* The hub changes while the mate's own table and all requests stay.
LEMMA HubStep ==
  ASSUME ShareInv, HubTypeOK', HubGrows, NoSelfCitation', NEW m \in Mates,
         UNCHANGED <<share, overlapped>>, faults' \in [Mates -> Nat],
         NEW h \in Held, scan' = [scan EXCEPT ![m] = h], ScanFits(m)',
         \A r \in late' : r \in late \/ Servable(r)
  PROVE  ShareInv'
<1>1. /\ scan \in [Mates -> Held] /\ overlapped \in BOOLEAN /\ HubTypeOK
      /\ share \in [Mates -> [issue : 0 .. Len(issues), page : 0 .. Len(pages)]]
      /\ share[m].issue \in 0 .. Len(issues) /\ share[m].page \in 0 .. Len(pages)
  BY HubTyped DEF ShareInv, TypeOK
<1>2. Len(issues) \in Nat /\ Len(pages) \in Nat
  BY <1>1 DEF HubTypeOK
<1>3. /\ Len(issues) <= Len(issues') /\ Len(pages) <= Len(pages')
      /\ Len(issues') \in Nat /\ Len(pages') \in Nat
  BY <1>1, StaysFit
<1>4. share' \in [Mates -> [issue : Nat, page : Nat]]
  BY <1>1, <1>2
<1>5. share'[m].issue \in 0 .. Len(issues') /\ share'[m].page \in 0 .. Len(pages')
  BY <1>1, <1>2, <1>3
<1> QED
  BY <1>1, <1>4, <1>5, ShareStep

\* A call of mate m that is answered.
LEMMA CallStep ==
  ASSUME ShareInv, NEW m \in Mates, CallOpenIssue(m) \/ CallResolveIssue(m) \/ CallCite(m)
  PROVE  ShareInv'
<1>1. /\ scan \in [Mates -> Held] /\ scan[m] \in Held /\ faults \in [Mates -> Nat]
      /\ ScanFits(m) /\ HubTypeOK /\ NoSelfCitation
  BY HubTyped DEF ShareInv, TypeOK
<1>2. PICK r : Servable(r) /\ Serve(r)
  BY RequestsFit DEF CallOpenIssue, CallResolveIssue, CallCite, Serve
<1>3. HubTypeOK' /\ HubGrows /\ NoSelfCitation'
  BY <1>1, <1>2, ServeFits, CitesForeign
<1>4. /\ UNCHANGED <<share, overlapped>> /\ faults' \in [Mates -> Nat]
      /\ \A q \in late' : q \in late
  BY <1>1 DEF CallOpenIssue, CallResolveIssue, CallCite
<1>5. /\ Len(issues') \in Nat /\ Len(pages') \in Nat
      /\ DOMAIN issues' = 1 .. Len(issues') /\ DOMAIN pages' = 1 .. Len(pages')
  BY <1>3 DEF HubTypeOK
<1>6. \A p : Foreign(p, m) => Foreign(p, m)'
  BY <1>1, <1>3, StaysFit
<1>7. ASSUME NEW h \in Held, scan' = [scan EXCEPT ![m] = h], ScanFits(m)'
      PROVE  ShareInv'
  BY <1>3, <1>4, <1>7, HubStep
<1>8. CASE CallOpenIssue(m)
  <2> DEFINE h == [scan[m] EXCEPT !.stage = "mark_issue", !.issue = Len(issues')]
  <2>1. scan' = [scan EXCEPT ![m] = h]
    BY <1>8 DEF CallOpenIssue
  <2>2. h \in Held /\ h.stage = "mark_issue" /\ h.issue = Len(issues') /\ h.hit = scan[m].hit
    BY <1>1, <1>5 DEF Held
  <2>3. Len(issues') # 0
    <3>1. Len(issues') = Len(issues) + 1
      BY <1>8 DEF CallOpenIssue, OpenIssue, HubTypeOK
    <3>2. Len(issues) \in Nat
      BY <1>1 DEF HubTypeOK
    <3> QED
      BY <3>1, <3>2
  <2> HIDE DEF h
  <2>4. scan'[m] = h
    BY <1>1, <2>1
  <2>5. ScanFits(m)'
    BY <1>1, <1>4, <1>5, <1>6, <1>8, <2>2, <2>3, <2>4 DEF CallOpenIssue, ScanFits
  <2> QED
    BY <1>7, <2>1, <2>2, <2>5
<1>9. CASE CallResolveIssue(m)
  <2> DEFINE h == [scan[m] EXCEPT !.stage = "mark_published", !.page = Len(pages')]
  <2>1. scan' = [scan EXCEPT ![m] = h]
    BY <1>9 DEF CallResolveIssue
  <2>2. /\ h \in Held /\ h.stage = "mark_published" /\ h.page = Len(pages')
        /\ h.hit = scan[m].hit /\ h.issue = scan[m].issue
    BY <1>1, <1>5 DEF Held
  <2>3. Len(pages') # 0
    <3>1. Len(pages') = Len(pages) + 1
      BY <1>1, <1>9 DEF CallResolveIssue, ResolveIssue, HubTypeOK
    <3>2. Len(pages) \in Nat
      BY <1>1 DEF HubTypeOK
    <3> QED
      BY <3>1, <3>2
  <2> HIDE DEF h
  <2>4. scan'[m] = h
    BY <1>1, <2>1
  <2>5. ScanFits(m)'
    BY <1>1, <1>3, <1>4, <1>5, <1>6, <1>9, <2>2, <2>3, <2>4
       DEF CallResolveIssue, ScanFits, HubGrows
  <2> QED
    BY <1>7, <2>1, <2>2, <2>5
<1>10. CASE CallCite(m)
  <2> DEFINE h == [scan[m] EXCEPT !.stage = "mark_published", !.page = scan[m].hit]
  <2>1. scan' = [scan EXCEPT ![m] = h]
    BY <1>10 DEF CallCite
  <2>2. /\ h \in Held /\ h.stage = "mark_published" /\ h.page = scan[m].hit
        /\ h.hit = scan[m].hit /\ h.issue = scan[m].issue
    BY <1>1 DEF Held
  <2>3. Foreign(scan[m].hit, m)' /\ scan[m].hit \in DOMAIN pages'
    BY <1>1, <1>6, <1>10 DEF CallCite, ScanFits, Foreign
  <2> HIDE DEF h
  <2>4. scan'[m] = h
    BY <1>1, <2>1
  <2>5. ScanFits(m)'
    BY <1>1, <1>3, <1>4, <1>10, <2>2, <2>3, <2>4 DEF CallCite, ScanFits, HubGrows
  <2> QED
    BY <1>7, <2>1, <2>2, <2>5
<1> QED
  BY <1>8, <1>9, <1>10

\* A call of mate m that fails.
LEMMA FailStep ==
  ASSUME ShareInv, NEW m \in Mates, CallFails(m)
  PROVE  ShareInv'
<1>1. /\ scan \in [Mates -> Held] /\ faults \in [Mates -> Nat]
      /\ ScanFits(m) /\ HubTypeOK /\ NoSelfCitation
  BY HubTyped DEF ShareInv, TypeOK
<1>2. PICK r : Servable(r) /\ Fails(m, r)
  BY RequestsFit DEF CallFails
<1>3. /\ scan' = [scan EXCEPT ![m] = Idle] /\ UNCHANGED <<share, overlapped>>
      /\ Idle \in Held /\ faults' \in [Mates -> Nat]
  BY <1>1, <1>2 DEF Fails, Ends, Fault, Idle, Held
<1>4. HubTypeOK' /\ HubGrows /\ NoSelfCitation'
  BY <1>1, <1>2, HubSame, ServeFits, CitesForeign DEF Fails
<1>5. \A q \in late' : q \in late \/ Servable(q)
  <2> DEFINE x == [r EXCEPT !.n = faults[m] + 1]
  <2>1. late' = late \/ late' = late \cup {x}
    BY <1>2 DEF Fails
  <2>2. Servable(x)
    <3>1. r \in Request /\ faults[m] + 1 \in Nat
      BY <1>1, <1>2 DEF Servable
    <3>2. x \in Request /\ x.op = r.op /\ x.issue = r.issue /\ x.page = r.page /\ x.by = r.by
      BY <3>1 DEF Request
    <3> QED
      BY <1>2, <3>2 DEF Servable
  <2> QED
    BY <2>1, <2>2
<1>6. ScanFits(m)'
  BY <1>1, <1>3 DEF ScanFits, Idle
<1> QED
  BY <1>3, <1>4, <1>5, <1>6, HubStep

\* The hub carries out a request given up, or a page is withdrawn.
LEMMA HubAlone ==
  ASSUME ShareInv,
         (\E r \in late : ServeLate(r)) \/ (\E p \in DOMAIN pages : Withdraw(p))
  PROVE  ShareInv'
<1>1. /\ scan \in [Mates -> Held] /\ faults \in [Mates -> Nat] /\ HubTypeOK /\ NoSelfCitation
      /\ \A n \in Mates : ScanFits(n)
  BY HubTyped DEF ShareInv, TypeOK
<1>2. PICK m : m \in Mates
  <2>1. CASE \E r \in late : ServeLate(r)
    BY <2>1 DEF ShareInv, Servable, Request
  <2>2. CASE \E p \in DOMAIN pages : Withdraw(p)
    <3>1. PICK p \in DOMAIN pages : Withdraw(p)
      BY <2>2
    <3>2. pages[p] \in Page(issues)
      BY <1>1 DEF HubTypeOK
    <3> QED
      BY <3>2 DEF Page
  <2> QED
    BY <2>1, <2>2
<1>3. HubTypeOK' /\ HubGrows /\ NoSelfCitation'
  BY <1>1, WithdrawFits, ServeFits, CitesForeign DEF ServeLate, ShareInv
<1>4. UNCHANGED <<share, scan, faults, overlapped>> /\ \A q \in late' : q \in late
  BY DEF ServeLate, Withdraw
<1>5. ScanFits(m)'
  BY <1>1, <1>2, <1>3, <1>4, StaysFit
<1>6. scan' = [scan EXCEPT ![m] = scan[m]] /\ scan[m] \in Held
  BY <1>1, <1>2, <1>4
<1> QED
  BY <1>1, <1>2, <1>3, <1>4, <1>5, <1>6, HubStep

LEMMA ShareInvInit == Init => ShareInv
<1> SUFFICES ASSUME Init PROVE ShareInv
  OBVIOUS
<1>1. Idle \in Held /\ Idle.stage = "idle" /\ Idle.hit = 0
  BY DEF Idle, Held
<1>2. /\ issues = <<>> /\ pages = <<>> /\ reuses = <<>> /\ late = {}
      /\ \A m \in Mates : scan[m] = Idle
  BY DEF Init
<1>3. TypeOK
  <2>1. share \in [Mates -> [issue : 0 .. Len(issues), page : 0 .. Len(pages)]]
    BY <1>2 DEF Init
  <2>2. HubTypeOK
    BY <1>2 DEF HubTypeOK
  <2>3. scan \in [Mates -> Held] /\ faults \in [Mates -> Nat]
    BY <1>1 DEF Init
  <2> QED
    BY <1>2, <2>1, <2>2, <2>3, HubTyped DEF Init
<1> QED
  BY <1>1, <1>2, <1>3 DEF ShareInv, ScanFits, NoSelfCitation

LEMMA ShareInvNext ==
  ASSUME ShareInv, [Next]_vars
  PROVE  ShareInv'
<1>1. ASSUME NEW m \in Mates, Step(m) \/ SearchFails(m) \/ CallFails(m) \/ Quit(m)
      PROVE  ShareInv'
  BY <1>1, LocalStep, CallStep, FailStep DEF Step
<1>2. CASE UNCHANGED vars
  BY <1>2 DEF vars, hub, ShareInv, TypeOK, NoSelfCitation, ScanFits, Foreign, Servable
<1> QED
  BY <1>1, <1>2, HubAlone DEF Next

\* The hub's rows, the mates' tables and the requests on their way fit each other.
THEOREM TypeCorrect == Spec => []TypeOK
<1>1. ShareInv => TypeOK
  BY DEF ShareInv
<1> QED
  BY <1>1, ShareInvInit, ShareInvNext, PTL DEF Spec

-----------------------------------------------------------------------------
(* Who comes second cites.                                                 *)

\* Nothing failed, no search overlapped with another mate's publishing, all pages stand.
Calm ==
  /\ \A m \in Mates : faults[m] = 0
  /\ ~overlapped
  /\ \A p \in DOMAIN pages : pages[p].active

AllBy(u) == \A p \in DOMAIN pages : UserOf[pages[p].by] = u

\* All there is has one user, and that is the user of the one mate about to publish.
OnePublisher ==
  /\ late = {}
  /\ \A m \in Mates : scan[m].stage = "idle" => ~Pending(m)
  /\ \A p, q \in DOMAIN pages : UserOf[pages[p].by] = UserOf[pages[q].by]
  /\ \A m, n \in Mates : Publishing(m) /\ Publishing(n) => m = n
  /\ \A m \in Mates : Publishing(m) => AllBy(UserOf[m])

\* A search that finds nothing to cite proves that there is nothing by another user.
LEMMA NothingToCite ==
  ASSUME HubTypeOK, Calm, OnePublisher, NEW m \in Mates, PickCitable(m) = 0
  PROVE  AllBy(UserOf[m])
<1> SUFFICES ASSUME DOMAIN pages # {} PROVE AllBy(UserOf[m])
  BY DEF AllBy
<1>1. 1 \in DOMAIN pages /\ \A q \in DOMAIN pages : q \in Nat /\ q >= 1
  BY DEF HubTypeOK
<1>2. 1 \in Results
  <2> DEFINE active == {p \in DOMAIN pages : pages[p].active}
  <2>1. {q \in active : q < 1} = {}
    BY <1>1
  <2>2. Cardinality({q \in active : q < 1}) = 0
    BY <2>1, FS_EmptySet
  <2>3. 1 \in active /\ 0 < SearchLimit
    BY <1>1, ShareAssumption DEF Calm
  <2> QED
    BY <2>2, <2>3 DEF Results
<1>3. Citable(m) = {}
  BY PickFits
<1>4. UserOf[pages[1].by] = UserOf[m]
  BY <1>2, <1>3 DEF Citable
<1> QED
  BY <1>1, <1>4 DEF AllBy, OnePublisher

\* In calm weather mate m takes one step of its scan.
LEMMA CalmStep ==
  ASSUME ShareInv, Calm, OnePublisher, Calm', NEW m \in Mates, Step(m)
  PROVE  OnePublisher'
<1>1. /\ scan \in [Mates -> Held] /\ scan[m] \in Held /\ ScanFits(m) /\ HubTypeOK
      /\ share \in [Mates -> [issue : 0 .. Len(issues), page : 0 .. Len(pages)]]
      /\ Len(issues) \in Nat /\ Len(pages) \in Nat
  BY HubTyped DEF ShareInv, TypeOK
<1>2. late' = {}
  BY DEF OnePublisher, Step, ResumeScan, NewScan, Search, CallOpenIssue, MarkIssue,
         CallResolveIssue, CallCite, CiteRefused, MarkPublished
<1>3. \A n \in Mates \ {m} : scan'[n] = scan[n] /\ share'[n] = share[n]
  BY <1>1 DEF Step, ResumeScan, NewScan, Search, CallOpenIssue, MarkIssue,
         CallResolveIssue, CallCite, CiteRefused, MarkPublished, Goes, Ends
<1>4. \A n \in Mates \ {m} : /\ Publishing(n)' <=> Publishing(n)
                             /\ scan'[n].stage = "idle" => ~Pending(n)'
  BY <1>3 DEF Publishing, Pending, OnePublisher
\* Pages stay, and mate m does not begin to publish.
<1>5. ASSUME UNCHANGED pages, Publishing(m)' => Publishing(m),
             scan'[m].stage = "idle" => ~Pending(m)'
      PROVE  OnePublisher'
  BY <1>2, <1>4, <1>5 DEF OnePublisher, AllBy
<1>6. CASE ResumeScan(m)
  BY <1>6 DEF ResumeScan, OnePublisher
<1>7. CASE NewScan(m)
  <2>1. scan'[m].stage = "search" /\ UNCHANGED pages
    BY <1>1, <1>7 DEF NewScan, Goes, hub, Held
  <2> QED
    BY <1>5, <2>1 DEF Publishing
<1>8. CASE Search(m)
  <2>1. scan'[m].stage = "open" /\ scan'[m].hit = PickCitable(m) /\ UNCHANGED pages
    BY <1>1, <1>8 DEF Search, hub, Held
  <2>2. \A n \in Mates \ {m} : ~Publishing(n)
    BY <1>8 DEF Search, Calm
  <2>3. Publishing(m)' => AllBy(UserOf[m])
    BY <1>1, <2>1, NothingToCite DEF Publishing
  <2> QED
    BY <1>2, <1>4, <2>1, <2>2, <2>3 DEF OnePublisher, AllBy
<1>9. CASE CallOpenIssue(m)
  <2>1. /\ scan'[m].stage = "mark_issue" /\ scan'[m].hit = scan[m].hit /\ UNCHANGED pages
        /\ scan[m].stage = "open"
    BY <1>1, <1>9 DEF CallOpenIssue, OpenIssue, Held
  <2> QED
    BY <1>5, <2>1 DEF Publishing
<1>10. CASE MarkIssue(m)
  <2>1. /\ scan'[m].stage = IF scan[m].hit # 0 THEN "cite" ELSE "resolve"
        /\ scan'[m].hit = scan[m].hit /\ UNCHANGED pages /\ scan[m].stage = "mark_issue"
    BY <1>1, <1>10 DEF MarkIssue, Goes, hub, Held
  <2> QED
    BY <1>5, <2>1 DEF Publishing
<1>11. CASE CallResolveIssue(m)
  <2>1. Publishing(m) /\ ResolveIssue(ResolveRequest(m)) /\ Servable(ResolveRequest(m))
    BY <1>1, <1>11, RequestsFit DEF CallResolveIssue, Publishing, ScanFits
  <2>2. ResolveRequest(m).by = m /\ ResolveRequest(m).issue = scan[m].issue
    BY DEF ResolveRequest
  <2> DEFINE x == [by |-> m, issue |-> scan[m].issue, active |-> TRUE]
  <2>3. x \in Page(issues) /\ pages' = Append(pages, x) /\ x.by = m
    BY <1>1, <1>11, <2>1, <2>2 DEF Page, ResolveIssue, ScanFits, CallResolveIssue
  <2> HIDE DEF x
  <2>4. /\ DOMAIN pages' = DOMAIN pages \cup {Len(pages) + 1}
        /\ \A p \in DOMAIN pages : pages'[p] = pages[p]
        /\ pages'[Len(pages) + 1].by = m
    BY <1>1, <2>3, Appended DEF HubTypeOK
  <2>5. AllBy(UserOf[m])
    BY <2>1 DEF OnePublisher
  <2>6. \A p \in DOMAIN pages' : UserOf[pages'[p].by] = UserOf[m]
    BY <2>4, <2>5 DEF AllBy
  <2>7. \A n \in Mates \ {m} : ~Publishing(n)
    BY <2>1 DEF OnePublisher
  <2>8. scan'[m].stage = "mark_published"
    BY <1>1, <1>11 DEF CallResolveIssue, Held
  <2> QED
    BY <1>2, <1>4, <2>6, <2>7, <2>8 DEF OnePublisher, Publishing
<1>12. CASE CallCite(m)
  <2>1. scan'[m].stage = "mark_published" /\ UNCHANGED pages
    BY <1>1, <1>12 DEF CallCite, CiteKnowledge, AddReuse, Held
  <2> QED
    BY <1>5, <2>1 DEF Publishing
<1>13. CASE CiteRefused(m)
  BY <1>1, <1>13 DEF CiteRefused, Calm, ScanFits, Foreign
<1>14. CASE MarkPublished(m)
  <2>1. scan'[m] = Idle /\ share'[m].page = scan[m].page /\ UNCHANGED pages
    BY <1>1, <1>14 DEF MarkPublished, Ends, hub
  <2>2. scan[m].page # 0
    BY <1>1, <1>14 DEF MarkPublished, ScanFits, HubTypeOK
  <2> QED
    BY <1>5, <2>1, <2>2 DEF Publishing, Pending, Idle
<1> QED
  BY <1>6, <1>7, <1>8, <1>9, <1>10, <1>11, <1>12, <1>13, <1>14 DEF Step

\* Calm weather was calm before.
LEMMA CalmBefore ==
  ASSUME ShareInv, [Next]_vars, Calm'
  PROVE  /\ Calm
         /\ UNCHANGED vars \/ (\E m \in Mates : Step(m)) \/ (\E r \in late : ServeLate(r))
<1>1. HubTypeOK /\ faults \in [Mates -> Nat]
  BY HubTyped DEF ShareInv, TypeOK
<1>2. ASSUME NEW m \in Mates PROVE ~Fault(m)
  <2> SUFFICES ASSUME Fault(m) PROVE FALSE
    OBVIOUS
  <2>1. faults'[m] = faults[m] + 1 /\ faults[m] \in Nat
    BY <1>1 DEF Fault
  <2> QED
    BY <2>1 DEF Calm
<1>3. ASSUME NEW p \in DOMAIN pages PROVE ~Withdraw(p)
  <2> SUFFICES ASSUME Withdraw(p) PROVE FALSE
    OBVIOUS
  <2>1. pages[p] \in Page(issues)
    BY <1>1 DEF HubTypeOK
  <2>2. DOMAIN pages' = DOMAIN pages /\ ~pages'[p].active
    BY <1>1, <2>1 DEF Withdraw, Page, HubTypeOK
  <2> QED
    BY <2>2 DEF Calm
<1>4. UNCHANGED vars \/ (\E m \in Mates : Step(m)) \/ (\E r \in late : ServeLate(r))
  BY <1>2, <1>3 DEF Next, SearchFails, CallFails, Fails, Quit
<1>5. UNCHANGED faults /\ (overlapped => overlapped')
  <2>1. ASSUME NEW m \in Mates, Step(m) PROVE UNCHANGED faults /\ (overlapped => overlapped')
    <3>1. CASE Search(m)
      BY <3>1 DEF Search
    <3>2. CASE ResumeScan(m) \/ NewScan(m) \/ CallOpenIssue(m) \/ MarkIssue(m)
      BY <3>2 DEF ResumeScan, NewScan, CallOpenIssue, MarkIssue
    <3>3. CASE CallResolveIssue(m) \/ CallCite(m) \/ CiteRefused(m) \/ MarkPublished(m)
      BY <3>3 DEF CallResolveIssue, CallCite, CiteRefused, MarkPublished
    <3> QED
      BY <2>1, <3>1, <3>2, <3>3 DEF Step
  <2>2. ASSUME NEW r \in late, ServeLate(r)
        PROVE  UNCHANGED faults /\ (overlapped => overlapped')
    BY <2>2 DEF ServeLate
  <2>3. CASE UNCHANGED vars
    BY <2>3 DEF vars
  <2> QED
    BY <1>4, <2>1, <2>2, <2>3
<1>6. HubGrows
  <2>1. CASE UNCHANGED hub
    BY <2>1, HubSame
  <2>2. ASSUME NEW r, Servable(r), Serve(r) PROVE HubGrows
    BY <1>1, <2>2, ServeFits
  <2>3. ASSUME NEW m \in Mates, CallOpenIssue(m) \/ CallResolveIssue(m) \/ CallCite(m)
        PROVE  HubGrows
    BY <2>2, <2>3, RequestsFit DEF CallOpenIssue, CallResolveIssue, CallCite, Serve
  <2>4. ASSUME NEW r \in late, ServeLate(r) PROVE HubGrows
    BY <2>2, <2>4 DEF ServeLate, ShareInv
  <2>5. ASSUME NEW m \in Mates, Step(m) PROVE HubGrows
    <3>1. UNCHANGED hub \/ CallOpenIssue(m) \/ CallResolveIssue(m) \/ CallCite(m)
      BY <2>5 DEF Step, ResumeScan, NewScan, Search, MarkIssue, CiteRefused, MarkPublished
    <3> QED
      BY <2>1, <2>3, <3>1
  <2>6. CASE UNCHANGED vars
    BY <2>1, <2>6 DEF vars
  <2> QED
    BY <1>4, <2>4, <2>5, <2>6
<1> QED
  BY <1>4, <1>5, <1>6 DEF Calm, HubGrows

\* Who comes second cites another user's page instead of repeating it: no mate cites a page
\* of its own user, and two users publish the same only where a call failed, a page was
\* withdrawn or scans overlapped (maybe_share_findings, pick_citable).
THEOREM SecondCites == Spec => []KnowledgeIsShared
<1> DEFINE IInv == ShareInv /\ (Calm => OnePublisher)
<1>1. Init => IInv
  <2> SUFFICES ASSUME Init PROVE Calm => OnePublisher
    BY ShareInvInit
  <2>1. pages = <<>> /\ late = {} /\ \A m \in Mates : scan[m] = Idle /\ share[m].issue = 0
    BY DEF Init
  <2> QED
    BY <2>1 DEF OnePublisher, Pending, Publishing, Idle, AllBy
<1>2. IInv /\ [Next]_vars => IInv'
  <2> SUFFICES ASSUME IInv, [Next]_vars PROVE IInv'
    OBVIOUS
  <2>1. ShareInv'
    BY ShareInvNext
  <2>2. ASSUME Calm' PROVE OnePublisher'
    <3>1. Calm /\ OnePublisher
      BY <2>2, CalmBefore
    <3>2. CASE UNCHANGED vars
      BY <3>1, <3>2 DEF vars, hub, OnePublisher, Pending, Publishing, AllBy
    <3>3. CASE \E m \in Mates : Step(m)
      BY <2>2, <3>1, <3>3, CalmStep
    <3>4. ASSUME NEW r \in late PROVE FALSE
      BY <3>1 DEF OnePublisher
    <3> QED
      BY <2>2, <3>2, <3>3, <3>4, CalmBefore
  <2> QED
    BY <2>1, <2>2
<1>3. IInv => KnowledgeIsShared
  BY DEF ShareInv, KnowledgeIsShared, OnePageUnlessOverlapped, Calm, OnePublisher
<1> QED
  BY <1>1, <1>2, <1>3, PTL DEF Spec

-----------------------------------------------------------------------------
(* A finding is dealt with once.                                           *)

Bit(b) == IF b THEN 1 ELSE 0

\* What mate m made of its finding, requests that may still be carried out included.
LateDeals(m) == {r \in late : r.by = m /\ r.op # "open_issue"}
LateOpens(m) == {r \in late : r.by = m /\ r.op = "open_issue"}
Deals(m) == By(m, pages) + By(m, reuses) + Cardinality(LateDeals(m))
Opens(m) == By(m, issues) + Cardinality(LateOpens(m))

\* Its own table, or the scan at hand, knows of one of them.
KnowsDeal(m) == share[m].page # 0 \/ scan[m].stage = "mark_published"
KnowsIssue(m) == share[m].issue # 0 \/ scan[m].stage = "mark_issue"

\* Mate m dealt with issue i by page p.
DealtBy(m, i, p) ==
  /\ p \in DOMAIN pages
  /\ \/ pages[p].by = m /\ pages[p].issue = i
     \/ \E e \in DOMAIN reuses : reuses[e] = [issue |-> i, page |-> p, by |-> m]

MateOnce(m) ==
  /\ Deals(m) <= faults[m] + Bit(KnowsDeal(m))
  /\ Opens(m) <= faults[m] + Bit(KnowsIssue(m))
  /\ share[m].page # 0 => DealtBy(m, share[m].issue, share[m].page)
  /\ scan[m].stage = "mark_published" => DealtBy(m, scan[m].issue, scan[m].page)

OnceInv == IsFiniteSet(late) /\ \A m \in Mates : MateOnce(m)

\* Counting the rows of a mate.
LEMMA ByAppend ==
  ASSUME NEW S, NEW s \in Seq(S), NEW x \in S, NEW m
  PROVE  /\ By(m, s) \in Nat
         /\ By(m, Append(s, x)) = By(m, s) + Bit(x.by = m)
<1> DEFINE A == {i \in DOMAIN s : s[i].by = m}
           B == {i \in DOMAIN Append(s, x) : Append(s, x)[i].by = m}
           k == Len(s) + 1
<1>1. DOMAIN s = 1 .. Len(s) /\ Len(s) \in Nat
  OBVIOUS
<1>2. IsFiniteSet(A)
  <2>1. IsFiniteSet(1 .. Len(s))
    BY <1>1, FS_Interval
  <2> QED
    BY <1>1, <2>1, FS_Subset
<1>3. /\ DOMAIN Append(s, x) = DOMAIN s \cup {k} /\ k \notin DOMAIN s
      /\ \A i \in DOMAIN s : Append(s, x)[i] = s[i]
      /\ Append(s, x)[k] = x
  BY Appended
<1>4. B = A \cup IF x.by = m THEN {k} ELSE {}
  BY <1>3
<1>5. k \notin A /\ By(m, s) = Cardinality(A) /\ By(m, Append(s, x)) = Cardinality(B)
  BY <1>3 DEF By
<1> HIDE DEF A, B, k
<1>6. /\ Cardinality(A \cup {k}) = Cardinality(A) + 1 /\ Cardinality(A) \in Nat
  BY <1>2, <1>5, FS_AddElement, FS_CardinalityType
<1>7. CASE x.by = m
  <2>1. Cardinality(B) = Cardinality(A \cup {k})
    BY <1>4, <1>7
  <2> QED
    BY <1>5, <1>6, <1>7, <2>1 DEF Bit
<1>8. CASE x.by # m
  <2>1. B = A
    BY <1>4, <1>8
  <2> QED
    BY <1>5, <1>6, <1>8, <2>1 DEF Bit
<1> QED
  BY <1>7, <1>8

LEMMA BySame ==
  ASSUME NEW s, NEW u, DOMAIN u = DOMAIN s, \A i \in DOMAIN s : u[i].by = s[i].by, NEW m
  PROVE  By(m, u) = By(m, s)
<1>1. {i \in DOMAIN u : u[i].by = m} = {i \in DOMAIN s : s[i].by = m}
  OBVIOUS
<1> QED
  BY <1>1 DEF By

LEMMA SeqByNat ==
  ASSUME NEW S, NEW s \in Seq(S), NEW m
  PROVE  By(m, s) \in Nat
<1>1. DOMAIN s = 1 .. Len(s) /\ Len(s) \in Nat
  OBVIOUS
<1>2. IsFiniteSet(DOMAIN s)
  BY <1>1, FS_Interval
<1>3. IsFiniteSet({i \in DOMAIN s : s[i].by = m})
  BY <1>2, FS_Subset
<1> QED
  BY <1>3, FS_CardinalityType DEF By

LEMMA ByNat ==
  ASSUME HubTypeOK, NEW m
  PROVE  By(m, issues) \in Nat /\ By(m, pages) \in Nat /\ By(m, reuses) \in Nat
BY SeqByNat DEF HubTypeOK

\* A request adds at most one row, of the mate that made it.
LEMMA ServeCounts ==
  ASSUME HubTypeOK, NEW r, Servable(r), Serve(r) \/ ServeHalf(r), NEW m
  PROVE  /\ By(m, issues') <= By(m, issues) + Bit(r.by = m /\ r.op = "open_issue")
         /\ By(m, pages') + By(m, reuses')
              <= By(m, pages) + By(m, reuses) + Bit(r.by = m /\ r.op # "open_issue")
<1> USE ByNat
<1>1. r.by \in Mates
  BY DEF Servable, Request
<1>2. CASE OpenIssue(r)
  <2> DEFINE x == [by |-> r.by, status |-> "open"]
  <2>1. x \in Issue /\ issues' = Append(issues, x) /\ x.by = r.by
    BY <1>1, <1>2 DEF Issue, OpenIssue
  <2> HIDE DEF x
  <2>2. By(m, issues') = By(m, issues) + Bit(r.by = m)
    BY <2>1, ByAppend DEF HubTypeOK
  <2> QED
    BY <1>2, <2>2 DEF OpenIssue, Bit
<1>3. ASSUME NEW i \in DOMAIN issues, NEW status \in {"open", "resolved", "knowledge_linked"},
             StatusSet(i, status)
      PROVE  By(m, issues') = By(m, issues)
  BY <1>3, StatusSetFits, BySame
<1>4. CASE ResolveIssue(r)
  <2> DEFINE x == [by |-> r.by, issue |-> r.issue, active |-> TRUE]
  <2>1. x \in Page(issues) /\ pages' = Append(pages, x) /\ reuses' = reuses /\ x.by = r.by
    BY <1>1, <1>4 DEF Page, ResolveIssue, Servable
  <2> HIDE DEF x
  <2>2. By(m, pages') = By(m, pages) + Bit(r.by = m)
    BY <2>1, ByAppend DEF HubTypeOK
  <2>3. By(m, issues') = By(m, issues)
    BY <1>3, <1>4 DEF ResolveIssue, Servable
  <2> QED
    BY <1>4, <2>1, <2>2, <2>3 DEF ResolveIssue, Bit
<1>5. ASSUME AddReuse(r), By(m, issues') = By(m, issues)
      PROVE  /\ By(m, issues') <= By(m, issues) + Bit(r.by = m /\ r.op = "open_issue")
             /\ By(m, pages') + By(m, reuses')
                  <= By(m, pages) + By(m, reuses) + Bit(r.by = m /\ r.op # "open_issue")
  <2> DEFINE x == [issue |-> r.issue, page |-> r.page, by |-> r.by]
  <2>1. x \in Reuse(issues, pages) /\ reuses' = Append(reuses, x) /\ pages' = pages
        /\ x.by = r.by
    BY <1>1, <1>5 DEF Reuse, AddReuse, Servable, Foreign
  <2> HIDE DEF x
  <2>2. By(m, reuses') = By(m, reuses) + Bit(r.by = m)
    BY <2>1, ByAppend DEF HubTypeOK
  <2> QED
    BY <1>5, <2>1, <2>2 DEF AddReuse, Bit
<1>6. CASE CiteKnowledge(r)
  <2>1. By(m, issues') = By(m, issues)
    BY <1>3, <1>6 DEF CiteKnowledge, AddReuse, Servable
  <2> QED
    BY <1>5, <1>6, <2>1 DEF CiteKnowledge
<1>7. CASE ServeHalf(r)
  <2>1. CASE r.op = "resolve_issue" /\ StatusSet(r.issue, "resolved")
             /\ UNCHANGED <<pages, reuses>>
    BY <1>3, <2>1 DEF Servable, Bit
  <2>2. CASE AddReuse(r) /\ UNCHANGED issues
    BY <1>5, <2>2
  <2> QED
    BY <1>7, <2>1, <2>2 DEF ServeHalf
<1> QED
  BY <1>2, <1>4, <1>6, <1>7 DEF Serve

\* One element more, or one less, where b says so.
Some(b, x) == IF b THEN {x} ELSE {}

LEMMA OneMoreOrLess ==
  ASSUME NEW S, IsFiniteSet(S), NEW x, NEW b \in BOOLEAN
  PROVE  /\ Cardinality(S) \in Nat
         /\ Cardinality(S \cup Some(b, x)) \in Nat
         /\ Cardinality(S \cup Some(b, x)) <= Cardinality(S) + Bit(b)
         /\ (b => x \in S) => /\ Cardinality(S \ Some(b, x)) \in Nat
                             /\ Cardinality(S \ Some(b, x)) = Cardinality(S) - Bit(b)
<1>1. Cardinality(S) \in Nat
  BY FS_CardinalityType
<1>2. CASE b
  <2>1. /\ IsFiniteSet(S \cup {x})
        /\ Cardinality(S \cup {x}) = Cardinality(S)
             \/ Cardinality(S \cup {x}) = Cardinality(S) + 1
    BY FS_AddElement
  <2>2. x \in S => Cardinality(S \ {x}) = Cardinality(S) - 1
    BY FS_RemoveElement
  <2>3. IsFiniteSet(S \ {x})
    BY FS_Subset
  <2>4. Cardinality(S \cup {x}) \in Nat /\ Cardinality(S \ {x}) \in Nat
    BY <2>1, <2>3, FS_CardinalityType
  <2>5. Some(b, x) = {x} /\ Bit(b) = 1
    BY <1>2 DEF Some, Bit
  <2>6. Cardinality(S \cup {x}) <= Cardinality(S) + 1
    BY <1>1, <2>1
  <2> QED
    BY <1>1, <1>2, <2>2, <2>4, <2>5, <2>6
<1>3. CASE ~b
  <2>1. S \cup Some(b, x) = S /\ S \ Some(b, x) = S /\ Bit(b) = 0
    BY <1>3 DEF Some, Bit
  <2>2. /\ Cardinality(S \cup Some(b, x)) = Cardinality(S)
        /\ Cardinality(S \ Some(b, x)) = Cardinality(S)
    BY <2>1
  <2> QED
    BY <1>1, <2>1, <2>2
<1> QED
  BY <1>2, <1>3

LEMMA LateNat ==
  ASSUME IsFiniteSet(late), NEW m
  PROVE  /\ IsFiniteSet(LateDeals(m)) /\ IsFiniteSet(LateOpens(m))
         /\ Cardinality(LateDeals(m)) \in Nat /\ Cardinality(LateOpens(m)) \in Nat
BY FS_Subset, FS_CardinalityType DEF LateDeals, LateOpens

LEMMA LateCounts ==
  ASSUME IsFiniteSet(late), NEW x, NEW m
  PROVE  LET deal == Bit(x.by = m /\ x.op # "open_issue")
             open == Bit(x.by = m /\ x.op = "open_issue")
         IN  /\ late' = late \cup {x} =>
                  /\ IsFiniteSet(late')
                  /\ Cardinality(LateDeals(m)') \in Nat /\ Cardinality(LateOpens(m)') \in Nat
                  /\ Cardinality(LateDeals(m)') <= Cardinality(LateDeals(m)) + deal
                  /\ Cardinality(LateOpens(m)') <= Cardinality(LateOpens(m)) + open
             /\ late' = late \ {x} /\ x \in late =>
                  /\ IsFiniteSet(late')
                  /\ Cardinality(LateDeals(m)') \in Nat /\ Cardinality(LateOpens(m)') \in Nat
                  /\ Cardinality(LateDeals(m)') = Cardinality(LateDeals(m)) - deal
                  /\ Cardinality(LateOpens(m)') = Cardinality(LateOpens(m)) - open
<1> DEFINE d == x.by = m /\ x.op # "open_issue"
           o == x.by = m /\ x.op = "open_issue"
<1>1. IsFiniteSet(LateDeals(m)) /\ IsFiniteSet(LateOpens(m)) /\ d \in BOOLEAN /\ o \in BOOLEAN
  BY LateNat
<1>2. ASSUME late' = late \cup {x}
      PROVE  /\ LateDeals(m)' = LateDeals(m) \cup Some(d, x)
             /\ LateOpens(m)' = LateOpens(m) \cup Some(o, x)
             /\ IsFiniteSet(late')
  BY <1>2, FS_AddElement DEF LateDeals, LateOpens, Some
<1>3. ASSUME late' = late \ {x}, x \in late
      PROVE  /\ LateDeals(m)' = LateDeals(m) \ Some(d, x)
             /\ LateOpens(m)' = LateOpens(m) \ Some(o, x)
             /\ IsFiniteSet(late')
             /\ (d => x \in LateDeals(m)) /\ (o => x \in LateOpens(m))
  BY <1>3, FS_RemoveElement DEF LateDeals, LateOpens, Some
<1> HIDE DEF d, o
<1>4. ASSUME late' = late \cup {x}
      PROVE  /\ Cardinality(LateDeals(m)') \in Nat /\ Cardinality(LateOpens(m)') \in Nat
             /\ Cardinality(LateDeals(m)') <= Cardinality(LateDeals(m)) + Bit(d)
             /\ Cardinality(LateOpens(m)') <= Cardinality(LateOpens(m)) + Bit(o)
  BY <1>1, <1>2, <1>4, OneMoreOrLess
<1>5. ASSUME late' = late \ {x}, x \in late
      PROVE  /\ Cardinality(LateDeals(m)') \in Nat /\ Cardinality(LateOpens(m)') \in Nat
             /\ Cardinality(LateDeals(m)') = Cardinality(LateDeals(m)) - Bit(d)
             /\ Cardinality(LateOpens(m)') = Cardinality(LateOpens(m)) - Bit(o)
  BY <1>1, <1>3, <1>5, OneMoreOrLess
<1> QED
  BY <1>2, <1>3, <1>4, <1>5 DEF d, o

\* Request r is made by a mate and carried out, or half of it, or left for later; or the
\* hub carries out one that was left.
LEMMA CountsStep ==
  ASSUME HubTypeOK, HubTypeOK', IsFiniteSet(late), NEW r, NEW m
  PROVE  LET deal == Bit(r.by = m /\ r.op # "open_issue")
             open == Bit(r.by = m /\ r.op = "open_issue")
         IN  /\ Deals(m) \in Nat /\ Opens(m) \in Nat
             /\ UNCHANGED <<hub, late>> =>
                  IsFiniteSet(late') /\ Deals(m)' = Deals(m) /\ Opens(m)' = Opens(m)
             /\ Servable(r) /\ (Serve(r) \/ ServeHalf(r)) /\ UNCHANGED late =>
                  /\ IsFiniteSet(late') /\ Deals(m)' \in Nat /\ Opens(m)' \in Nat
                  /\ Deals(m)' <= Deals(m) + deal /\ Opens(m)' <= Opens(m) + open
             /\ UNCHANGED hub
                  /\ (\E x : late' = late \cup {x} /\ x.by = r.by /\ x.op = r.op) =>
                  /\ IsFiniteSet(late') /\ Deals(m)' \in Nat /\ Opens(m)' \in Nat
                  /\ Deals(m)' <= Deals(m) + deal /\ Opens(m)' <= Opens(m) + open
             /\ r \in late /\ Servable(r) /\ Serve(r) /\ late' = late \ {r} =>
                  /\ IsFiniteSet(late') /\ Deals(m)' \in Nat /\ Opens(m)' \in Nat
                  /\ Deals(m)' <= Deals(m) /\ Opens(m)' <= Opens(m)
<1> DEFINE deal == Bit(r.by = m /\ r.op # "open_issue")
           open == Bit(r.by = m /\ r.op = "open_issue")
           dealt == By(m, pages) + By(m, reuses)
           told == By(m, issues)
           ld == Cardinality(LateDeals(m))
           lo == Cardinality(LateOpens(m))
           dealt1 == By(m, pages') + By(m, reuses')
           told1 == By(m, issues')
           ld1 == Cardinality(LateDeals(m)')
           lo1 == Cardinality(LateOpens(m)')
<1>1. /\ dealt \in Nat /\ told \in Nat /\ ld \in Nat /\ lo \in Nat
      /\ deal \in Nat /\ open \in Nat
  BY ByNat, LateNat DEF Bit
<1>2. dealt1 \in Nat /\ told1 \in Nat
  <2>1. By(m, issues') \in Nat /\ By(m, pages') \in Nat /\ By(m, reuses') \in Nat
    BY SeqByNat DEF HubTypeOK
  <2> QED
    BY <2>1
<1>3. Deals(m) = dealt + ld /\ Opens(m) = told + lo
  BY DEF Deals, Opens
<1>4. Deals(m)' = dealt1 + ld1 /\ Opens(m)' = told1 + lo1
  BY DEF Deals, Opens
<1>5. UNCHANGED late => IsFiniteSet(late') /\ ld1 = ld /\ lo1 = lo
  BY DEF LateDeals, LateOpens
<1>6. UNCHANGED hub => dealt1 = dealt /\ told1 = told
  BY DEF hub
<1>7. Servable(r) /\ (Serve(r) \/ ServeHalf(r)) =>
        dealt1 <= dealt + deal /\ told1 <= told + open
  BY ServeCounts
<1>8. ASSUME NEW x, late' = late \cup {x}, x.by = r.by, x.op = r.op
      PROVE  /\ IsFiniteSet(late') /\ ld1 \in Nat /\ lo1 \in Nat
             /\ ld1 <= ld + deal /\ lo1 <= lo + open
  BY <1>8, LateCounts
<1>9. ASSUME r \in late, late' = late \ {r}
      PROVE  /\ IsFiniteSet(late') /\ ld1 \in Nat /\ lo1 \in Nat
             /\ ld1 = ld - deal /\ lo1 = lo - open
  BY <1>9, LateCounts
<1> HIDE DEF deal, open, dealt, told, ld, lo, dealt1, told1, ld1, lo1
<1>10. /\ Deals(m) \in Nat /\ Opens(m) \in Nat
       /\ UNCHANGED <<hub, late>> =>
            IsFiniteSet(late') /\ Deals(m)' = Deals(m) /\ Opens(m)' = Opens(m)
  BY <1>1, <1>3, <1>4, <1>5, <1>6
<1>11. ASSUME Servable(r), Serve(r) \/ ServeHalf(r), UNCHANGED late
       PROVE  /\ IsFiniteSet(late') /\ Deals(m)' \in Nat /\ Opens(m)' \in Nat
              /\ Deals(m)' <= Deals(m) + deal /\ Opens(m)' <= Opens(m) + open
  <2>1. /\ IsFiniteSet(late') /\ ld1 = ld /\ lo1 = lo
        /\ dealt1 <= dealt + deal /\ told1 <= told + open
    BY <1>5, <1>7, <1>11
  <2> QED
    BY <1>1, <1>2, <1>3, <1>4, <2>1
<1>12. ASSUME UNCHANGED hub, NEW x, late' = late \cup {x}, x.by = r.by, x.op = r.op
       PROVE  /\ IsFiniteSet(late') /\ Deals(m)' \in Nat /\ Opens(m)' \in Nat
              /\ Deals(m)' <= Deals(m) + deal /\ Opens(m)' <= Opens(m) + open
  <2>1. IsFiniteSet(late') /\ ld1 \in Nat /\ lo1 \in Nat /\ ld1 <= ld + deal /\ lo1 <= lo + open
    BY <1>8, <1>12
  <2>2. dealt1 = dealt /\ told1 = told
    BY <1>6, <1>12
  <2> QED
    BY <1>1, <1>3, <1>4, <2>1, <2>2
<1>13. ASSUME r \in late, Servable(r), Serve(r), late' = late \ {r}
       PROVE  /\ IsFiniteSet(late') /\ Deals(m)' \in Nat /\ Opens(m)' \in Nat
              /\ Deals(m)' <= Deals(m) /\ Opens(m)' <= Opens(m)
  <2>1. /\ IsFiniteSet(late') /\ ld1 \in Nat /\ lo1 \in Nat
        /\ ld1 = ld - deal /\ lo1 = lo - open
    BY <1>9, <1>13
  <2>2. dealt1 <= dealt + deal /\ told1 <= told + open
    BY <1>7, <1>13
  <2> QED
    BY <1>1, <1>2, <1>3, <1>4, <2>1, <2>2
<1> QED
  BY <1>10, <1>11, <1>12, <1>13 DEF deal, open

\* Mate n has by now at most d deals and o issues more.
Books(n, d, o) ==
  /\ Deals(n)' \in Nat /\ Opens(n)' \in Nat
  /\ Deals(n)' <= Deals(n) + d /\ Opens(n)' <= Opens(n) + o

\* DealtBy after the step, of values that may be the step's own.
DealtNow(m, i, p) ==
  /\ p \in DOMAIN pages'
  /\ \/ pages'[p].by = m /\ pages'[p].issue = i
     \/ \E e \in DOMAIN reuses' : reuses'[e] = [issue |-> i, page |-> p, by |-> m]

LEMMA DealtStays ==
  ASSUME HubGrows, NEW m, NEW i, NEW p, DealtBy(m, i, p)
  PROVE  DealtNow(m, i, p)
<1>1. p \in DOMAIN pages /\ p \in DOMAIN pages' /\ pages'[p].by = pages[p].by
      /\ pages'[p].issue = pages[p].issue
  BY DEF DealtBy, HubGrows
<1>2. CASE pages[p].by = m /\ pages[p].issue = i
  BY <1>1, <1>2 DEF DealtNow
<1>3. ASSUME NEW e \in DOMAIN reuses, reuses[e] = [issue |-> i, page |-> p, by |-> m]
      PROVE  DealtNow(m, i, p)
  <2>1. e \in DOMAIN reuses' /\ reuses'[e] = [issue |-> i, page |-> p, by |-> m]
    BY <1>3 DEF HubGrows
  <2> QED
    BY <1>1, <2>1 DEF DealtNow
<1> QED
  BY <1>2, <1>3 DEF DealtBy

\* What the mate remembers outweighs what it made.
LEMMA Balanced ==
  ASSUME NEW n \in Mates, MateOnce(n), NEW d \in Nat, NEW o \in Nat, Books(n, d, o),
         Deals(n) \in Nat, Opens(n) \in Nat, faults[n] \in Nat, faults'[n] \in Nat,
         faults[n] + Bit(KnowsDeal(n)) + d <= faults'[n] + Bit(KnowsDeal(n)'),
         faults[n] + Bit(KnowsIssue(n)) + o <= faults'[n] + Bit(KnowsIssue(n)')
  PROVE  /\ Deals(n)' <= faults'[n] + Bit(KnowsDeal(n)')
         /\ Opens(n)' <= faults'[n] + Bit(KnowsIssue(n)')
<1>1. \A b : Bit(b) \in {0, 1}
  BY DEF Bit
<1>2. /\ Bit(KnowsDeal(n)) \in Nat /\ Bit(KnowsDeal(n)') \in Nat
      /\ Bit(KnowsIssue(n)) \in Nat /\ Bit(KnowsIssue(n)') \in Nat
  BY DEF Bit
<1>3. /\ Deals(n) <= faults[n] + Bit(KnowsDeal(n)) /\ Deals(n)' <= Deals(n) + d
      /\ Opens(n) <= faults[n] + Bit(KnowsIssue(n)) /\ Opens(n)' <= Opens(n) + o
      /\ Deals(n)' \in Nat /\ Opens(n)' \in Nat
  BY DEF MateOnce, Books
<1> QED
  BY <1>2, <1>3

\* A mate that does nothing while the others act.
LEMMA MateRests ==
  ASSUME HubGrows, NEW n \in Mates, MateOnce(n), Books(n, 0, 0), faults[n] \in Nat,
         Deals(n) \in Nat, Opens(n) \in Nat,
         share'[n] = share[n], scan'[n] = scan[n], faults'[n] = faults[n]
  PROVE  MateOnce(n)'
<1>1. (KnowsDeal(n)' <=> KnowsDeal(n)) /\ (KnowsIssue(n)' <=> KnowsIssue(n))
  BY DEF KnowsDeal, KnowsIssue
<1>2. Bit(KnowsDeal(n)') = Bit(KnowsDeal(n)) /\ Bit(KnowsIssue(n)') = Bit(KnowsIssue(n))
  BY <1>1 DEF Bit
<1>3. Bit(KnowsDeal(n)) \in Nat /\ Bit(KnowsIssue(n)) \in Nat
  BY DEF Bit
<1>4. /\ Deals(n)' <= faults'[n] + Bit(KnowsDeal(n)')
      /\ Opens(n)' <= faults'[n] + Bit(KnowsIssue(n)')
  BY <1>2, <1>3, Balanced
<1>5. /\ share'[n].page # 0 => DealtNow(n, share'[n].issue, share'[n].page)
      /\ scan'[n].stage = "mark_published" => DealtNow(n, scan'[n].issue, scan'[n].page)
  BY DealtStays DEF MateOnce
<1> QED
  BY <1>4, <1>5 DEF MateOnce, DealtBy, DealtNow

\* A step of mate m, or of the hub alone.
LEMMA OnceStep ==
  ASSUME ShareInv, ShareInv', OnceInv, HubGrows, IsFiniteSet(late'), NEW m,
         \A n \in Mates \ {m} : /\ Books(n, 0, 0) /\ share'[n] = share[n]
                                /\ scan'[n] = scan[n] /\ faults'[n] = faults[n],
         m \in Mates => MateOnce(m)'
  PROVE  OnceInv'
<1>1. ASSUME NEW n \in Mates, n # m PROVE MateOnce(n)'
  <2>1. HubTypeOK /\ HubTypeOK' /\ faults[n] \in Nat
    BY HubTyped DEF ShareInv, TypeOK, HubTypeOK, Issue, Page, Reuse
  <2>2. Deals(n) \in Nat /\ Opens(n) \in Nat
    BY <2>1, CountsStep DEF OnceInv
  <2> QED
    BY <1>1, <2>1, <2>2, MateRests DEF OnceInv
<1> QED
  BY <1>1 DEF OnceInv

\* The counts of a mate that makes no request, and of one that makes none now.
LEMMA BooksStay ==
  ASSUME ShareInv, ShareInv', OnceInv, NEW n
  PROVE  /\ Deals(n) \in Nat /\ Opens(n) \in Nat
         /\ UNCHANGED <<hub, late>> => IsFiniteSet(late') /\ Books(n, 0, 0)
         /\ \A r \in late : Servable(r) /\ Serve(r) /\ late' = late \ {r} =>
              IsFiniteSet(late') /\ Books(n, 0, 0)
         /\ \A r : /\ Servable(r)
                   /\ \/ (Serve(r) \/ ServeHalf(r)) /\ UNCHANGED late
                      \/ UNCHANGED hub
                         /\ \E x : late' = late \cup {x} /\ x.by = r.by /\ x.op = r.op
                   => /\ IsFiniteSet(late')
                      /\ Books(n, Bit(r.by = n /\ r.op # "open_issue"),
                                  Bit(r.by = n /\ r.op = "open_issue"))
                      /\ r.by # n => Books(n, 0, 0)
<1>1. HubTypeOK /\ HubTypeOK'
  BY HubTyped DEF ShareInv, TypeOK, HubTypeOK, Issue, Page, Reuse
<1>2. Deals(n) \in Nat /\ Opens(n) \in Nat
  BY <1>1, CountsStep DEF OnceInv
<1>3. ASSUME UNCHANGED <<hub, late>> PROVE IsFiniteSet(late') /\ Books(n, 0, 0)
  BY <1>1, <1>2, <1>3, CountsStep DEF OnceInv, Books
<1>4. ASSUME NEW r \in late, Servable(r), Serve(r), late' = late \ {r}
      PROVE  IsFiniteSet(late') /\ Books(n, 0, 0)
  <2>1. /\ IsFiniteSet(late') /\ Deals(n)' \in Nat /\ Opens(n)' \in Nat
        /\ Deals(n)' <= Deals(n) /\ Opens(n)' <= Opens(n)
    BY <1>1, <1>4, CountsStep DEF OnceInv
  <2> QED
    BY <1>2, <2>1 DEF Books
<1>5. ASSUME NEW r, Servable(r),
             \/ (Serve(r) \/ ServeHalf(r)) /\ UNCHANGED late
             \/ UNCHANGED hub /\ \E x : late' = late \cup {x} /\ x.by = r.by /\ x.op = r.op
      PROVE  /\ IsFiniteSet(late')
             /\ Books(n, Bit(r.by = n /\ r.op # "open_issue"),
                         Bit(r.by = n /\ r.op = "open_issue"))
             /\ r.by # n => Books(n, 0, 0)
  <2>1. /\ IsFiniteSet(late')
        /\ Books(n, Bit(r.by = n /\ r.op # "open_issue"), Bit(r.by = n /\ r.op = "open_issue"))
    BY <1>1, <1>5, CountsStep DEF OnceInv, Books
  <2>2. r.by # n => Bit(r.by = n /\ r.op # "open_issue") = 0
                    /\ Bit(r.by = n /\ r.op = "open_issue") = 0
    BY DEF Bit
  <2> QED
    BY <2>1, <2>2
<1> QED
  BY <1>2, <1>3, <1>4, <1>5

\* A step of the scan of mate m that asks nothing of the hub.
LEMMA LocalOnce ==
  ASSUME ShareInv, ShareInv', OnceInv, NEW m \in Mates,
         ResumeScan(m) \/ NewScan(m) \/ Search(m) \/ SearchFails(m) \/ MarkIssue(m)
           \/ CiteRefused(m) \/ MarkPublished(m) \/ Quit(m)
  PROVE  OnceInv'
<1>1. UNCHANGED <<hub, late>>
  BY DEF ResumeScan, NewScan, Search, SearchFails, MarkIssue, CiteRefused, MarkPublished, Quit
<1>2. HubGrows /\ IsFiniteSet(late')
  BY <1>1, HubSame, BooksStay
<1>3. /\ scan \in [Mates -> Held] /\ scan[m] \in Held /\ faults \in [Mates -> Nat]
      /\ share \in [Mates -> [issue : 0 .. Len(issues), page : 0 .. Len(pages)]]
      /\ share[m] \in [issue : 0 .. Len(issues), page : 0 .. Len(pages)]
      /\ faults[m] \in Nat /\ ScanFits(m) /\ MateOnce(m) /\ HubTypeOK
      /\ faults' \in [Mates -> Nat] /\ faults'[m] \in Nat
  BY HubTyped DEF ShareInv, TypeOK, OnceInv
<1>4. Books(m, 0, 0) /\ Deals(m) \in Nat /\ Opens(m) \in Nat
  BY <1>1, BooksStay
<1>5. ASSUME NEW n \in Mates \ {m}
      PROVE  /\ Books(n, 0, 0) /\ share'[n] = share[n]
             /\ scan'[n] = scan[n] /\ faults'[n] = faults[n]
  <2>1. Books(n, 0, 0)
    BY <1>1, BooksStay
  <2>2. share'[n] = share[n]
    BY <1>3 DEF ResumeScan, NewScan, Search, SearchFails, MarkIssue, CiteRefused,
       MarkPublished, Quit
  <2>3. faults'[n] = faults[n]
    BY <1>3 DEF ResumeScan, NewScan, Search, SearchFails, MarkIssue, CiteRefused,
       MarkPublished, Quit, Fault
  <2>4. scan'[n] = scan[n]
    BY <1>3 DEF ResumeScan, NewScan, Search, SearchFails, MarkIssue, CiteRefused,
       MarkPublished, Quit, Goes, Ends
  <2> QED
    BY <2>1, <2>2, <2>3, <2>4
<1>6. SUFFICES MateOnce(m)'
  BY <1>2, <1>5, OnceStep
<1>7. \A b : Bit(b) \in {0, 1}
  BY DEF Bit
<1>8. \/ faults'[m] = faults[m]
      \/ faults'[m] = faults[m] + 1 /\ (SearchFails(m) \/ Quit(m))
  BY <1>3 DEF ResumeScan, NewScan, Search, SearchFails, MarkIssue, CiteRefused,
     MarkPublished, Quit, Fault
<1>9. ASSUME faults[m] + Bit(KnowsDeal(m)) <= faults'[m] + Bit(KnowsDeal(m)'),
             faults[m] + Bit(KnowsIssue(m)) <= faults'[m] + Bit(KnowsIssue(m)'),
             share'[m].page # 0 => DealtNow(m, share'[m].issue, share'[m].page),
             scan'[m].stage # "mark_published"
      PROVE  MateOnce(m)'
  <2>1. /\ faults[m] + Bit(KnowsDeal(m)) + 0 <= faults'[m] + Bit(KnowsDeal(m)')
        /\ faults[m] + Bit(KnowsIssue(m)) + 0 <= faults'[m] + Bit(KnowsIssue(m)')
    <3>1. Bit(KnowsDeal(m)) \in Nat /\ Bit(KnowsIssue(m)) \in Nat
      BY <1>7
    <3> QED
      BY <1>3, <1>9, <3>1
  <2>2. /\ Deals(m)' <= faults'[m] + Bit(KnowsDeal(m)')
        /\ Opens(m)' <= faults'[m] + Bit(KnowsIssue(m)')
    BY <1>3, <1>4, <2>1, Balanced
  <2> QED
    BY <1>9, <2>2 DEF MateOnce, DealtBy, DealtNow
<1>10. ASSUME UNCHANGED share, scan'[m].stage \notin {"mark_issue", "mark_published"},
              scan[m].stage \notin {"mark_issue", "mark_published"} \/ Quit(m)
       PROVE  MateOnce(m)'
  <2>1. share'[m].page # 0 => DealtNow(m, share'[m].issue, share'[m].page)
    BY <1>2, <1>3, <1>10, DealtStays DEF MateOnce
  <2>2. CASE Quit(m)
    <3>1. faults'[m] = faults[m] + 1
      BY <1>3, <2>2 DEF Quit, Fault
    <3>2. /\ Bit(KnowsDeal(m)) \in {0, 1} /\ Bit(KnowsDeal(m)') \in {0, 1}
          /\ Bit(KnowsIssue(m)) \in {0, 1} /\ Bit(KnowsIssue(m)') \in {0, 1}
      BY <1>7
    <3>3. /\ faults[m] + Bit(KnowsDeal(m)) <= faults'[m] + Bit(KnowsDeal(m)')
          /\ faults[m] + Bit(KnowsIssue(m)) <= faults'[m] + Bit(KnowsIssue(m)')
      BY <1>3, <3>1, <3>2
    <3> QED
      BY <1>9, <1>10, <2>1, <3>3
  <2>3. CASE scan[m].stage \notin {"mark_issue", "mark_published"}
    <3>1. Bit(KnowsDeal(m)') = Bit(KnowsDeal(m)) /\ Bit(KnowsIssue(m)') = Bit(KnowsIssue(m))
      BY <1>10, <2>3 DEF Bit, KnowsDeal, KnowsIssue
    <3>2. Bit(KnowsDeal(m)) \in Nat /\ Bit(KnowsIssue(m)) \in Nat
      BY <1>7
    <3> QED
      BY <1>3, <1>8, <1>9, <1>10, <2>1, <3>1, <3>2
  <2> QED
    BY <1>10, <2>2, <2>3
<1>11. CASE ResumeScan(m) \/ NewScan(m)
  <2>1. CASE ResumeScan(m)
    <3>1. scan'[m].stage = "resolve" /\ scan[m].stage = "idle" /\ UNCHANGED share
      BY <1>3, <2>1 DEF ResumeScan, Idle
    <3> QED
      BY <1>10, <3>1
  <2>2. CASE NewScan(m)
    <3>1. scan'[m].stage = "search" /\ scan[m].stage = "idle" /\ UNCHANGED share
      BY <1>3, <2>2 DEF NewScan, Goes, Held
    <3> QED
      BY <1>10, <3>1
  <2> QED
    BY <1>11, <2>1, <2>2
<1>12. CASE Search(m) \/ SearchFails(m)
  <2>1. scan'[m].stage = "open" /\ scan[m].stage = "search" /\ UNCHANGED share
    BY <1>3, <1>12 DEF Search, SearchFails, Goes, Held
  <2> QED
    BY <1>10, <2>1
<1>13. CASE CiteRefused(m) \/ Quit(m)
  <2>1. scan'[m].stage = "idle" /\ UNCHANGED share
        /\ (scan[m].stage = "cite" \/ Quit(m))
    BY <1>3, <1>13 DEF CiteRefused, Quit, Ends, Idle
  <2> QED
    BY <1>10, <2>1
<1>14. CASE MarkIssue(m)
  <2>1. /\ scan[m].stage = "mark_issue" /\ scan'[m].stage \in {"cite", "resolve"}
        /\ share'[m].issue = scan[m].issue /\ share'[m].page = share[m].page
        /\ faults'[m] = faults[m]
    BY <1>3, <1>14 DEF MarkIssue, Goes, Held
  <2>2. share[m].page = 0 /\ scan[m].issue # 0
    BY <1>3, <2>1 DEF ScanFits, HubTypeOK
  <2>3. Bit(KnowsDeal(m)') = Bit(KnowsDeal(m)) /\ Bit(KnowsIssue(m)') = Bit(KnowsIssue(m))
    BY <2>1, <2>2 DEF Bit, KnowsDeal, KnowsIssue
  <2>4. Bit(KnowsDeal(m)) \in Nat /\ Bit(KnowsIssue(m)) \in Nat
    BY <1>7
  <2> QED
    BY <1>3, <1>9, <2>1, <2>2, <2>3, <2>4
<1>15. CASE MarkPublished(m)
  <2>1. /\ scan[m].stage = "mark_published" /\ scan'[m].stage = "idle"
        /\ share'[m].page = scan[m].page /\ share'[m].issue = share[m].issue
        /\ faults'[m] = faults[m]
    BY <1>3, <1>15 DEF MarkPublished, Ends, Idle
  <2>2. share[m].issue = scan[m].issue /\ scan[m].page # 0
    BY <1>3, <2>1 DEF ScanFits, HubTypeOK
  <2>3. DealtNow(m, share'[m].issue, share'[m].page)
    BY <1>2, <1>3, <2>1, <2>2, DealtStays DEF MateOnce
  <2>4. Bit(KnowsDeal(m)') = Bit(KnowsDeal(m)) /\ Bit(KnowsIssue(m)') = Bit(KnowsIssue(m))
    BY <2>1, <2>2 DEF Bit, KnowsDeal, KnowsIssue
  <2>5. Bit(KnowsDeal(m)) \in Nat /\ Bit(KnowsIssue(m)) \in Nat
    BY <1>7
  <2> QED
    BY <1>3, <1>9, <2>1, <2>3, <2>4, <2>5
<1> QED
  BY <1>11, <1>12, <1>13, <1>14, <1>15

\* A call of mate m that is answered.
LEMMA CallOnce ==
  ASSUME ShareInv, ShareInv', OnceInv, NEW m \in Mates,
         CallOpenIssue(m) \/ CallResolveIssue(m) \/ CallCite(m)
  PROVE  OnceInv'
<1>1. /\ scan \in [Mates -> Held] /\ scan[m] \in Held /\ faults[m] \in Nat
      /\ share[m] \in [issue : 0 .. Len(issues), page : 0 .. Len(pages)]
      /\ ScanFits(m) /\ MateOnce(m) /\ HubTypeOK /\ HubTypeOK'
  BY HubTyped DEF ShareInv, TypeOK, OnceInv, HubTypeOK, Issue, Page, Reuse
<1>2. UNCHANGED <<late, share, faults>> /\ \A n \in Mates \ {m} : scan'[n] = scan[n]
  BY <1>1 DEF CallOpenIssue, CallResolveIssue, CallCite
<1>3. PICK r : /\ Servable(r) /\ Serve(r) /\ r.by = m
               /\ r.op = "open_issue" <=> CallOpenIssue(m)
  BY RequestsFit DEF CallOpenIssue, CallResolveIssue, CallCite, Serve, OpenRequest,
     ResolveRequest, CiteRequest
<1>4. HubGrows
  BY <1>1, <1>3, ServeFits
<1>5. /\ IsFiniteSet(late') /\ \A n \in Mates \ {m} : Books(n, 0, 0)
      /\ Deals(m) \in Nat /\ Opens(m) \in Nat
      /\ Books(m, Bit(r.op # "open_issue"), Bit(r.op = "open_issue"))
  BY <1>2, <1>3, BooksStay
<1>6. SUFFICES MateOnce(m)'
  BY <1>2, <1>4, <1>5, OnceStep
<1>7. \A b : Bit(b) \in Nat
  BY DEF Bit
<1>8. share[m].page = 0 /\ share'[m].page = 0
  BY <1>1, <1>2 DEF ScanFits, CallOpenIssue, CallResolveIssue, CallCite
<1>9. CASE CallOpenIssue(m)
  <2>1. /\ scan[m].stage = "open" /\ scan'[m].stage = "mark_issue" /\ share[m].issue = 0
        /\ share'[m].issue = 0
    BY <1>1, <1>2, <1>9 DEF CallOpenIssue, Held, ScanFits
  <2>2. /\ Bit(KnowsDeal(m)) = 0 /\ Bit(KnowsDeal(m)') = 0
        /\ Bit(KnowsIssue(m)) = 0 /\ Bit(KnowsIssue(m)') = 1
    BY <1>8, <2>1 DEF Bit, KnowsDeal, KnowsIssue
  <2>3. Books(m, 0, 1)
    BY <1>3, <1>5, <1>9 DEF Bit
  <2>4. /\ Deals(m)' <= faults'[m] + Bit(KnowsDeal(m)')
        /\ Opens(m)' <= faults'[m] + Bit(KnowsIssue(m)')
    BY <1>1, <1>2, <1>5, <2>2, <2>3, Balanced
  <2> QED
    BY <1>8, <2>1, <2>4 DEF MateOnce
<1>10. CASE CallResolveIssue(m) \/ CallCite(m)
  <2>1. /\ scan[m].stage \in {"resolve", "cite"} /\ scan'[m].stage = "mark_published"
        /\ scan'[m].issue = scan[m].issue /\ r.op # "open_issue"
    BY <1>1, <1>3, <1>10 DEF CallOpenIssue, CallResolveIssue, CallCite, Held
  <2>2. /\ Bit(KnowsDeal(m)) = 0 /\ Bit(KnowsDeal(m)') = 1
        /\ Bit(KnowsIssue(m)') = Bit(KnowsIssue(m))
    BY <1>2, <1>8, <2>1 DEF Bit, KnowsDeal, KnowsIssue
  <2>3. Books(m, 1, 0)
    BY <1>5, <2>1 DEF Bit
  <2>4. /\ Deals(m)' <= faults'[m] + Bit(KnowsDeal(m)')
        /\ Opens(m)' <= faults'[m] + Bit(KnowsIssue(m)')
    BY <1>1, <1>2, <1>5, <1>7, <2>2, <2>3, Balanced
  <2>5. DealtNow(m, scan'[m].issue, scan'[m].page)
    <3>1. CASE CallResolveIssue(m)
      <4> DEFINE x == [by |-> m, issue |-> scan[m].issue, active |-> TRUE]
      <4>1. x \in Page(issues) /\ x.by = m /\ x.issue = scan[m].issue
        BY <1>1, <2>1 DEF Page, ScanFits
      <4>2. pages' = Append(pages, x) /\ scan'[m].page = Len(pages')
        BY <1>1, <3>1 DEF CallResolveIssue, ResolveIssue, ResolveRequest, Held
      <4> HIDE DEF x
      <4>3. scan'[m].page \in DOMAIN pages' /\ pages'[scan'[m].page] = x
        BY <1>1, <4>1, <4>2, Appended DEF HubTypeOK
      <4> QED
        BY <2>1, <4>1, <4>3 DEF DealtNow
    <3>2. CASE CallCite(m)
      <4> DEFINE x == [issue |-> scan[m].issue, page |-> scan[m].hit, by |-> m]
      <4>1. x \in Reuse(issues, pages)
        BY <1>1, <2>1, <3>2 DEF CallCite, Reuse, ScanFits, Foreign
      <4>2. reuses' = Append(reuses, x) /\ scan'[m].page = scan[m].hit /\ pages' = pages
        BY <1>1, <3>2 DEF CallCite, CiteKnowledge, AddReuse, CiteRequest, Held
      <4>3. scan[m].hit \in DOMAIN pages
        BY <1>1, <3>2 DEF CallCite, ScanFits, Foreign
      <4>4. x = [issue |-> scan'[m].issue, page |-> scan'[m].page, by |-> m]
        BY <2>1, <4>2
      <4> HIDE DEF x
      <4>5. Len(reuses) + 1 \in DOMAIN reuses' /\ reuses'[Len(reuses) + 1] = x
        BY <1>1, <4>1, <4>2, Appended DEF HubTypeOK
      <4> QED
        BY <4>2, <4>3, <4>4, <4>5 DEF DealtNow
    <3> QED
      BY <1>10, <3>1, <3>2
  <2> QED
    BY <1>8, <2>4, <2>5 DEF MateOnce, DealtBy, DealtNow
<1> QED
  BY <1>9, <1>10

\* A call of mate m that fails: whatever came of it, a fault pays for it.
LEMMA FailOnce ==
  ASSUME ShareInv, ShareInv', OnceInv, NEW m \in Mates, CallFails(m)
  PROVE  OnceInv'
<1>1. /\ scan \in [Mates -> Held] /\ faults \in [Mates -> Nat] /\ faults[m] \in Nat
      /\ MateOnce(m) /\ HubTypeOK
  BY HubTyped DEF ShareInv, TypeOK, OnceInv
<1>2. PICK r : /\ Servable(r) /\ Fails(m, r) /\ r.by = m
  BY RequestsFit DEF CallFails, OpenRequest, ResolveRequest, CiteRequest
<1>3. scan[m].stage \notin {"mark_issue", "mark_published"} /\ scan'[m].stage = "idle"
  BY <1>1 DEF CallFails, Fails, Ends, Idle
<1>4. /\ UNCHANGED share /\ faults'[m] = faults[m] + 1 /\ faults'[m] \in Nat
      /\ \A n \in Mates \ {m} : scan'[n] = scan[n] /\ faults'[n] = faults[n]
  BY <1>1, <1>2 DEF Fails, Ends, Fault
<1>5. HubGrows
  BY <1>1, <1>2, ServeFits, HubSame DEF Fails
<1>6. /\ IsFiniteSet(late')
      /\ Books(m, Bit(r.op # "open_issue"), Bit(r.op = "open_issue"))
      /\ \A n \in Mates \ {m} : Books(n, 0, 0)
      /\ Deals(m) \in Nat /\ Opens(m) \in Nat
  <2>1. Deals(m) \in Nat /\ Opens(m) \in Nat
    BY BooksStay
  <2>2. CASE UNCHANGED <<hub, late>>
    <3>1. IsFiniteSet(late') /\ \A n \in Mates : Books(n, 0, 0)
      BY <2>2, BooksStay
    <3>2. Bit(r.op # "open_issue") \in Nat /\ Bit(r.op = "open_issue") \in Nat
      BY DEF Bit
    <3>3. Books(m, Bit(r.op # "open_issue"), Bit(r.op = "open_issue"))
      BY <2>1, <3>1, <3>2 DEF Books
    <3> QED
      BY <2>1, <3>1, <3>3
  <2>3. CASE (Serve(r) \/ ServeHalf(r)) /\ UNCHANGED late
    BY <1>2, <2>1, <2>3, BooksStay
  <2>4. CASE UNCHANGED hub /\ \E x : late' = late \cup {x} /\ x.by = r.by /\ x.op = r.op
    BY <1>2, <2>1, <2>4, BooksStay
  <2>5. \/ UNCHANGED <<hub, late>>
        \/ (Serve(r) \/ ServeHalf(r)) /\ UNCHANGED late
        \/ UNCHANGED hub /\ \E x : late' = late \cup {x} /\ x.by = r.by /\ x.op = r.op
    <3> DEFINE x == [r EXCEPT !.n = faults[m] + 1]
    <3>1. x.by = r.by /\ x.op = r.op
      BY <1>2 DEF Servable, Request
    <3> HIDE DEF x
    <3>2. \/ late' = late \cup {x} /\ UNCHANGED hub
          \/ UNCHANGED <<hub, late>>
          \/ (Serve(r) \/ ServeHalf(r)) /\ UNCHANGED late
      BY <1>2 DEF Fails, x
    <3> QED
      BY <3>1, <3>2
  <2> QED
    BY <2>2, <2>3, <2>4, <2>5
<1>7. SUFFICES MateOnce(m)'
  BY <1>4, <1>5, <1>6, OnceStep
<1>8. /\ Bit(r.op # "open_issue") \in {0, 1} /\ Bit(r.op = "open_issue") \in {0, 1}
      /\ Bit(KnowsDeal(m)) \in Nat /\ Bit(KnowsIssue(m)) \in Nat
      /\ Bit(KnowsDeal(m)') = Bit(KnowsDeal(m)) /\ Bit(KnowsIssue(m)') = Bit(KnowsIssue(m))
  BY <1>3, <1>4 DEF Bit, KnowsDeal, KnowsIssue
<1>9. /\ faults[m] + Bit(KnowsDeal(m)) + Bit(r.op # "open_issue")
           <= faults'[m] + Bit(KnowsDeal(m)')
      /\ faults[m] + Bit(KnowsIssue(m)) + Bit(r.op = "open_issue")
           <= faults'[m] + Bit(KnowsIssue(m)')
      /\ Bit(r.op # "open_issue") \in Nat /\ Bit(r.op = "open_issue") \in Nat
  BY <1>1, <1>4, <1>8
<1>10. /\ Deals(m)' <= faults'[m] + Bit(KnowsDeal(m)')
       /\ Opens(m)' <= faults'[m] + Bit(KnowsIssue(m)')
  BY <1>1, <1>4, <1>6, <1>9, Balanced
<1>11. share'[m].page # 0 => DealtNow(m, share'[m].issue, share'[m].page)
  BY <1>1, <1>4, <1>5, DealtStays DEF MateOnce
<1> QED
  BY <1>3, <1>10, <1>11 DEF MateOnce, DealtBy, DealtNow

\* The hub carries out a request given up, or a page is withdrawn, or nothing happens.
LEMMA AloneOnce ==
  ASSUME ShareInv, ShareInv', OnceInv,
         \/ \E r \in late : ServeLate(r)
         \/ \E p \in DOMAIN pages : Withdraw(p)
         \/ UNCHANGED vars
  PROVE  OnceInv'
<1>1. HubTypeOK /\ UNCHANGED <<share, scan, faults>>
  BY HubTyped DEF ShareInv, ServeLate, Withdraw, vars
<1>2. SUFFICES HubGrows /\ IsFiniteSet(late') /\ \A n \in Mates : Books(n, 0, 0)
  <2>1. PICK m : m \notin Mates
    BY NoSetContainsEverything
  <2> QED
    BY <1>1, <2>1, OnceStep
<1>3. CASE UNCHANGED vars
  <2>1. UNCHANGED <<hub, late>>
    BY <1>3 DEF vars
  <2> QED
    BY <2>1, HubSame, BooksStay
<1>4. ASSUME NEW r \in late, ServeLate(r)
      PROVE  HubGrows /\ IsFiniteSet(late') /\ \A n \in Mates : Books(n, 0, 0)
  BY <1>1, <1>4, ServeFits, BooksStay DEF ShareInv, ServeLate
<1>5. ASSUME NEW p \in DOMAIN pages, Withdraw(p)
      PROVE  HubGrows /\ IsFiniteSet(late') /\ \A n \in Mates : Books(n, 0, 0)
  <2>1. HubGrows
    BY <1>5, WithdrawFits
  <2>2. late' = late /\ issues' = issues /\ reuses' = reuses /\ DOMAIN pages' = DOMAIN pages
    BY <1>1, <1>5 DEF Withdraw, HubTypeOK
  <2>3. ASSUME NEW n \in Mates PROVE Books(n, 0, 0)
    <3>1. By(n, pages') = By(n, pages)
      BY <2>1, <2>2, BySame DEF HubGrows
    <3>2. Deals(n)' = Deals(n) /\ Opens(n)' = Opens(n)
      BY <2>2, <3>1 DEF Deals, Opens, LateDeals, LateOpens
    <3>3. Deals(n) \in Nat /\ Opens(n) \in Nat
      BY BooksStay
    <3> QED
      BY <3>2, <3>3 DEF Books
  <2> QED
    BY <2>1, <2>2, <2>3 DEF OnceInv
<1> QED
  BY <1>3, <1>4, <1>5

LEMMA OnceInit == Init => OnceInv
<1> SUFFICES ASSUME Init, NEW m \in Mates PROVE IsFiniteSet(late) /\ MateOnce(m)
  BY FS_EmptySet DEF OnceInv, Init
<1>1. /\ issues = <<>> /\ pages = <<>> /\ reuses = <<>> /\ late = {}
      /\ scan[m].stage = "idle" /\ share[m].issue = 0 /\ share[m].page = 0 /\ faults[m] = 0
  BY DEF Init, Idle
<1>2. By(m, issues) = 0 /\ By(m, pages) = 0 /\ By(m, reuses) = 0
  BY <1>1, FS_EmptySet DEF By
<1>3. Cardinality(LateDeals(m)) = 0 /\ Cardinality(LateOpens(m)) = 0
  BY <1>1, FS_EmptySet DEF LateDeals, LateOpens
<1>4. ~KnowsDeal(m) /\ ~KnowsIssue(m)
  BY <1>1 DEF KnowsDeal, KnowsIssue
<1>5. Deals(m) = 0 /\ Opens(m) = 0 /\ Bit(KnowsDeal(m)) = 0 /\ Bit(KnowsIssue(m)) = 0
  BY <1>2, <1>3, <1>4 DEF Deals, Opens, Bit
<1> QED
  BY <1>1, <1>5, FS_EmptySet DEF MateOnce

LEMMA OnceNext ==
  ASSUME ShareInv, OnceInv, [Next]_vars
  PROVE  ShareInv' /\ OnceInv'
<1>1. ShareInv'
  BY ShareInvNext
<1>2. ASSUME NEW m \in Mates, Step(m) \/ SearchFails(m) \/ CallFails(m) \/ Quit(m)
      PROVE  OnceInv'
  BY <1>1, <1>2, LocalOnce, CallOnce, FailOnce DEF Step
<1> QED
  BY <1>1, <1>2, AloneOnce DEF Next

LEMMA OnceEnough == ShareInv /\ OnceInv => SharedOnce
<1> SUFFICES ASSUME ShareInv, OnceInv, NEW m \in Mates
             PROVE  /\ By(m, pages) + By(m, reuses) <= 1 + faults[m]
                    /\ By(m, issues) <= 1 + faults[m]
                    /\ share[m].page # 0 => DealtBy(m, share[m].issue, share[m].page)
  BY DEF SharedOnce, OncePerLifetime, OneIssueEach, MarkedMeansDone, DealtBy
<1>1. /\ HubTypeOK /\ IsFiniteSet(late) /\ MateOnce(m) /\ faults[m] \in Nat
  BY HubTyped DEF ShareInv, OnceInv, TypeOK
<1>2. /\ By(m, issues) \in Nat /\ By(m, pages) \in Nat /\ By(m, reuses) \in Nat
      /\ Cardinality(LateDeals(m)) \in Nat /\ Cardinality(LateOpens(m)) \in Nat
  BY <1>1, ByNat, LateNat
<1>3. Bit(KnowsDeal(m)) \in {0, 1} /\ Bit(KnowsIssue(m)) \in {0, 1}
  BY DEF Bit
<1> QED
  BY <1>1, <1>2, <1>3 DEF MateOnce, Deals, Opens

\* Through lost answers, late calls and quits a mate makes of its finding one issue and one
\* page or citation, each fault costing at most one more, and remembers what it made
\* (maybe_share_findings, hub_mark_issue, hub_mark_published).
THEOREM DealsOnce == Spec => []SharedOnce
<1> QED
  BY ShareInvInit, OnceInit, OnceNext, OnceEnough, PTL DEF Spec

-----------------------------------------------------------------------------
(* A day's figures and a session's retrospective are published once.       *)

TelemetryStages == {"register", "send", "space", "join", "resend", "mark_day"}
RetroStages == {"open", "mark_issue", "resolve", "mark_page"}
PushStages == TelemetryStages \cup RetroStages \cup {"idle", "retros", "retro", "register_retro"}

PushRecord ==
  [stage : PushStages, day : Nat, of : Struggles \cup {0}, issue : Nat, page : Nat,
   todo : SUBSET Struggles]

Days == Pushes!Days
Subjects == Pushes!Subjects
Post == [of : Subjects, issue : Nat]

PushTypeOK ==
  /\ opened \in Seq(Struggles) /\ posted \in Seq(Post)
  /\ row \in [Subjects -> [issue : Nat, page : Nat]]
  /\ push \in PushRecord /\ failed \in Nat /\ today \in Days

\* The mate knows of a page, of an issue.
KnowsPage(k) ==
  \/ row[k].page # 0
  \/ push.stage = "mark_day" /\ push.day = k
  \/ push.stage = "mark_page" /\ push.of = k
KnowsOpened(s) ==
  \/ row[s].issue # 0
  \/ push.stage = "mark_issue" /\ push.of = s

\* Page p is what was published of k, out of issue i.
PostOf(p, k, i) == p \in DOMAIN posted /\ posted[p].of = k /\ posted[p].issue = i

\* What the scan holds fits the mate's table.
PushFits ==
  /\ push.stage \in TelemetryStages =>
       /\ push.day \in Days
       /\ row[push.day].issue = 0 /\ row[push.day].page = 0
  /\ push.stage \in RetroStages =>
       /\ push.of \in Struggles \ push.todo /\ row[push.of].page = 0
       /\ row[push.of].issue = IF push.stage = "mark_issue" THEN 0 ELSE push.issue
  /\ push.stage \in {"open", "mark_issue"} => (push.issue = 0) = (push.stage = "open")
  /\ \A s \in push.todo : row[s].page = 0
  /\ push.stage = "mark_day" => PostOf(push.page, push.day, 0)
  /\ push.stage = "mark_page" => PostOf(push.page, push.of, push.issue)

PushOnce ==
  /\ \A k \in Subjects : Pushes!MadeOf(k) <= failed + Bit(KnowsPage(k))
  /\ \A s \in Struggles : Pushes!OpenedFor(s) <= failed + Bit(KnowsOpened(s))
  /\ \A k \in Subjects : row[k].page # 0 => PostOf(row[k].page, k, row[k].issue)

PushInv == PushTypeOK /\ PushFits /\ PushOnce

LEMMA SameCardinality == \A S : Pushes!Cardinality(S) = Cardinality(S)
BY DEF Cardinality, Pushes!Cardinality, IsFiniteSet, Pushes!IsFiniteSet

LEMMA CountOneMore ==
  ASSUME NEW n \in Nat, NEW A, A \subseteq 1 .. n, NEW b \in BOOLEAN
  PROVE  /\ Cardinality(A) \in Nat
         /\ Cardinality(A \cup Some(b, n + 1)) = Cardinality(A) + Bit(b)
<1>1. IsFiniteSet(A) /\ n + 1 \notin A
  <2>1. IsFiniteSet(1 .. n)
    BY FS_Interval
  <2>2. IsFiniteSet(A)
    BY <2>1, FS_Subset
  <2> QED
    BY <2>2
<1>2. Cardinality(A) \in Nat /\ Cardinality(A \cup {n + 1}) = Cardinality(A) + 1
  BY <1>1, FS_CardinalityType, FS_AddElement
<1>3. CASE b
  BY <1>2, <1>3 DEF Some, Bit
<1>4. CASE ~b
  <2>1. A \cup Some(b, n + 1) = A
    BY <1>4 DEF Some
  <2>2. Cardinality(A \cup Some(b, n + 1)) = Cardinality(A)
    BY <2>1
  <2> QED
    BY <1>2, <1>4, <2>2 DEF Bit
<1> QED
  BY <1>3, <1>4

\* How a row more counts.
LEMMA PostAppended ==
  ASSUME PushTypeOK, NEW x \in Post, posted' = Append(posted, x), NEW k
  PROVE  /\ posted' \in Seq(Post) /\ Len(posted') \in DOMAIN posted'
         /\ posted'[Len(posted')] = x /\ Len(posted') # 0 /\ posted' # posted
         /\ \A p \in DOMAIN posted : p \in DOMAIN posted' /\ posted'[p] = posted[p]
         /\ Pushes!MadeOf(k)' = Pushes!MadeOf(k) + Bit(x.of = k)
<1>1. /\ posted \in Seq(Post) /\ Len(posted) \in Nat /\ DOMAIN posted = 1 .. Len(posted)
  BY DEF PushTypeOK
<1>2. /\ posted' \in Seq(Post) /\ Len(posted') = Len(posted) + 1
      /\ DOMAIN posted' = DOMAIN posted \cup {Len(posted) + 1}
      /\ \A i \in DOMAIN posted : posted'[i] = posted[i]
      /\ posted'[Len(posted) + 1] = x
  BY <1>1, Appended
<1>3. Len(posted') # 0 /\ posted' # posted /\ Len(posted) + 1 \notin DOMAIN posted
  <2> DEFINE n == Len(posted)
  <2>1. n \in Nat /\ DOMAIN posted = 1 .. n /\ Len(posted') = n + 1
    BY <1>1, <1>2
  <2> HIDE DEF n
  <2>2. n + 1 # 0 /\ n + 1 # n /\ n + 1 \notin 1 .. n
    BY <2>1
  <2>3. Len(posted) = n
    BY DEF n
  <2>4. posted' # posted
    BY <2>1, <2>2, <2>3, Zenon
  <2> QED
    BY <2>1, <2>2, <2>3, <2>4
<1> DEFINE A == {p \in DOMAIN posted : posted[p].of = k}
<1>4. {p \in DOMAIN posted' : posted'[p].of = k} = A \cup Some(x.of = k, Len(posted) + 1)
  BY <1>2, <1>3 DEF Some
<1>5. Cardinality(A \cup Some(x.of = k, Len(posted) + 1)) = Cardinality(A) + Bit(x.of = k)
  BY <1>1, CountOneMore
<1>6. Pushes!MadeOf(k)' = Cardinality(A \cup Some(x.of = k, Len(posted) + 1))
  BY <1>4, SameCardinality DEF Pushes!MadeOf
<1>7. Pushes!MadeOf(k) = Cardinality(A)
  BY SameCardinality DEF Pushes!MadeOf
<1>8. Len(posted') \in DOMAIN posted'
  BY <1>2
<1> QED
  BY <1>2, <1>3, <1>5, <1>6, <1>7, <1>8

LEMMA IssueAppended ==
  ASSUME PushTypeOK, NEW x \in Struggles, opened' = Append(opened, x), NEW s
  PROVE  /\ opened' \in Seq(Struggles) /\ Len(opened') \in Nat \ {0}
         /\ Pushes!OpenedFor(s)' = Pushes!OpenedFor(s) + Bit(x = s)
<1>1. /\ opened \in Seq(Struggles) /\ Len(opened) \in Nat /\ DOMAIN opened = 1 .. Len(opened)
  BY DEF PushTypeOK
<1>2. /\ opened' \in Seq(Struggles) /\ Len(opened') = Len(opened) + 1
      /\ DOMAIN opened' = DOMAIN opened \cup {Len(opened) + 1}
      /\ \A i \in DOMAIN opened : opened'[i] = opened[i]
      /\ opened'[Len(opened) + 1] = x
  BY <1>1, Appended
<1> DEFINE A == {i \in DOMAIN opened : opened[i] = s}
<1>3. {i \in DOMAIN opened' : opened'[i] = s} = A \cup Some(x = s, Len(opened) + 1)
  BY <1>1, <1>2 DEF Some
<1>4. Cardinality(A \cup Some(x = s, Len(opened) + 1)) = Cardinality(A) + Bit(x = s)
  BY <1>1, CountOneMore
<1>5. Pushes!OpenedFor(s)' = Cardinality(A \cup Some(x = s, Len(opened) + 1))
  BY <1>3, SameCardinality DEF Pushes!OpenedFor
<1>6. Pushes!OpenedFor(s) = Cardinality(A)
  BY SameCardinality DEF Pushes!OpenedFor
<1> QED
  BY <1>1, <1>2, <1>4, <1>5, <1>6

LEMMA PostsNat ==
  ASSUME NEW S, NEW s \in Seq(S), NEW k
  PROVE  /\ Cardinality({p \in DOMAIN s : s[p].of = k}) \in Nat
         /\ Cardinality({i \in DOMAIN s : s[i] = k}) \in Nat
<1>1. DOMAIN s = 1 .. Len(s) /\ Len(s) \in Nat
  OBVIOUS
<1> QED
  BY <1>1, CountOneMore

LEMMA PushCountsNat ==
  ASSUME PushTypeOK, NEW k
  PROVE  Pushes!MadeOf(k) \in Nat /\ Pushes!OpenedFor(k) \in Nat
BY PostsNat, SameCardinality DEF PushTypeOK, Pushes!MadeOf, Pushes!OpenedFor

\* PostOf after the step, of values that may be the step's own.
PostNow(p, k, i) == p \in DOMAIN posted' /\ posted'[p].of = k /\ posted'[p].issue = i

PostsStay == \A p \in DOMAIN posted : p \in DOMAIN posted' /\ posted'[p] = posted[p]

\* Of n rows there are n1 by now: the mate knows of the new one, or something failed.
Covered(n, n1, b, b1) ==
  \/ n1 <= n /\ (b => b1)
  \/ n1 <= n + 1 /\ ~b /\ b1
  \/ failed' = failed + 1 /\ n1 <= n
  \/ failed' = failed + 1 /\ n1 <= n + 1 /\ (b => b1)

LEMMA CoveredFits ==
  ASSUME NEW n \in Nat, NEW n1 \in Nat, NEW b \in BOOLEAN, NEW b1 \in BOOLEAN,
         failed \in Nat, failed' \in Nat, failed <= failed',
         Covered(n, n1, b, b1), n <= failed + Bit(b)
  PROVE  n1 <= failed' + Bit(b1)
<1>1. Bit(b) \in {0, 1} /\ Bit(b1) \in {0, 1} /\ (b => Bit(b) = 1) /\ (~b => Bit(b) = 0)
      /\ (b1 => Bit(b1) = 1) /\ (~b1 => Bit(b1) = 0)
  BY DEF Bit
<1>2. CASE b
  <2>1. /\ Bit(b) = 1
        /\ \/ n1 <= n /\ b1
           \/ failed' = failed + 1 /\ n1 <= n
           \/ failed' = failed + 1 /\ n1 <= n + 1 /\ b1
    BY <1>1, <1>2 DEF Covered
  <2> QED
    BY <1>1, <2>1
<1>3. CASE ~b
  <2>1. /\ Bit(b) = 0
        /\ \/ n1 <= n
           \/ n1 <= n + 1 /\ (b1 \/ failed' = failed + 1)
    BY <1>1, <1>3 DEF Covered
  <2> QED
    BY <1>1, <2>1
<1> QED
  BY <1>2, <1>3

LEMMA PushStep ==
  ASSUME PushInv, PushTypeOK', PushFits', PostsStay, failed <= failed',
         \A k \in Subjects :
           Covered(Pushes!MadeOf(k), Pushes!MadeOf(k)', KnowsPage(k), KnowsPage(k)'),
         \A s \in Struggles :
           Covered(Pushes!OpenedFor(s), Pushes!OpenedFor(s)', KnowsOpened(s), KnowsOpened(s)'),
         \A k \in Subjects : row'[k].page # 0 =>
           row'[k] = row[k] \/ PostNow(row'[k].page, k, row'[k].issue)
  PROVE  PushInv'
<1>1. failed \in Nat /\ failed' \in Nat
  BY DEF PushInv, PushTypeOK
<1>2. ASSUME NEW k \in Subjects PROVE Pushes!MadeOf(k)' <= failed' + Bit(KnowsPage(k)')
  <2>1. KnowsPage(k) \in BOOLEAN /\ KnowsPage(k)' \in BOOLEAN
    BY DEF KnowsPage
  <2>2. Pushes!MadeOf(k) \in Nat /\ Pushes!MadeOf(k)' \in Nat
    <3>1. PushTypeOK
      BY DEF PushInv
    <3>2. Pushes!MadeOf(k) \in Nat
      BY <3>1, PushCountsNat
    <3>3. Pushes!MadeOf(k)' \in Nat
      BY PostsNat, SameCardinality DEF PushTypeOK, Pushes!MadeOf
    <3> QED
      BY <3>2, <3>3
  <2>3. Pushes!MadeOf(k) <= failed + Bit(KnowsPage(k))
    BY DEF PushInv, PushOnce
  <2> QED
    BY <1>1, <2>1, <2>2, <2>3, CoveredFits
<1>3. ASSUME NEW s \in Struggles PROVE Pushes!OpenedFor(s)' <= failed' + Bit(KnowsOpened(s)')
  <2>1. KnowsOpened(s) \in BOOLEAN /\ KnowsOpened(s)' \in BOOLEAN
    BY DEF KnowsOpened
  <2>2. Pushes!OpenedFor(s) \in Nat /\ Pushes!OpenedFor(s)' \in Nat
    <3>1. PushTypeOK
      BY DEF PushInv
    <3>2. Pushes!OpenedFor(s) \in Nat
      BY <3>1, PushCountsNat
    <3>3. Pushes!OpenedFor(s)' \in Nat
      BY PostsNat, SameCardinality DEF PushTypeOK, Pushes!OpenedFor
    <3> QED
      BY <3>2, <3>3
  <2>3. Pushes!OpenedFor(s) <= failed + Bit(KnowsOpened(s))
    BY DEF PushInv, PushOnce
  <2> QED
    BY <1>1, <2>1, <2>2, <2>3, CoveredFits
<1>4. ASSUME NEW k \in Subjects, row'[k].page # 0
      PROVE  PostNow(row'[k].page, k, row'[k].issue)
  BY <1>4 DEF PushInv, PushOnce, PostOf, PostNow, PostsStay
<1> QED
  BY <1>2, <1>3, <1>4 DEF PushInv, PushOnce, PostOf, PostNow

\* Nothing is published, and nothing noted.
LEMMA PushQuiet ==
  ASSUME PushInv, UNCHANGED <<opened, posted, row>>, push' \in PushRecord, today' \in Days,
         \/ failed' = failed /\ push.stage \notin {"mark_day", "mark_issue", "mark_page"}
         \/ failed' = failed + 1,
         PushFits'
  PROVE  PushInv'
<1>1. PushTypeOK' /\ failed <= failed' /\ failed \in Nat
  BY DEF PushInv, PushTypeOK
<1>2. PostsStay
  BY DEF PostsStay
<1>3. ASSUME NEW k PROVE Pushes!MadeOf(k) \in Nat /\ Pushes!OpenedFor(k) \in Nat
                         /\ Pushes!MadeOf(k)' = Pushes!MadeOf(k)
                         /\ Pushes!OpenedFor(k)' = Pushes!OpenedFor(k)
  BY PushCountsNat DEF PushInv, Pushes!MadeOf, Pushes!OpenedFor
<1>4. ASSUME NEW k PROVE
        /\ Covered(Pushes!MadeOf(k), Pushes!MadeOf(k)', KnowsPage(k), KnowsPage(k)')
        /\ Covered(Pushes!OpenedFor(k), Pushes!OpenedFor(k)', KnowsOpened(k), KnowsOpened(k)')
  <2>1. CASE failed' = failed + 1
    BY <1>3, <2>1 DEF Covered
  <2>2. CASE push.stage \notin {"mark_day", "mark_issue", "mark_page"}
    <3>1. (KnowsPage(k) => KnowsPage(k)') /\ (KnowsOpened(k) => KnowsOpened(k)')
      BY <2>2 DEF KnowsPage, KnowsOpened
    <3> QED
      BY <1>3, <3>1 DEF Covered
  <2> QED
    BY <2>1, <2>2
<1> QED
  BY <1>1, <1>2, <1>4, PushStep

\* What a request adds: nothing, a page of k out of issue i, or an issue.
Made(k, i) == posted' = Append(posted, [of |-> k, issue |-> i]) /\ UNCHANGED opened

LEMMA MadeOne ==
  ASSUME PushTypeOK, NEW k \in Subjects, NEW i \in Nat, Made(k, i)
  PROVE  /\ posted' \in Seq(Post) /\ PostsStay /\ PostNow(Len(posted'), k, i)
         /\ Len(posted') \in Nat \ {0} /\ posted' # posted
         /\ \A j : Pushes!MadeOf(j)' = Pushes!MadeOf(j) + Bit(k = j)
         /\ \A j : Pushes!OpenedFor(j)' = Pushes!OpenedFor(j)
<1> DEFINE x == [of |-> k, issue |-> i]
<1>1. x \in Post /\ posted' = Append(posted, x) /\ x.of = k /\ x.issue = i /\ opened' = opened
  BY DEF Post, Made
<1> HIDE DEF x
<1>2. /\ posted' \in Seq(Post) /\ Len(posted') \in DOMAIN posted'
      /\ posted'[Len(posted')] = x /\ Len(posted') # 0 /\ posted' # posted
      /\ \A p \in DOMAIN posted : p \in DOMAIN posted' /\ posted'[p] = posted[p]
  BY <1>1, PostAppended
<1>3. \A j : Pushes!MadeOf(j)' = Pushes!MadeOf(j) + Bit(x.of = j)
  BY <1>1, PostAppended
<1>4. \A j : Pushes!OpenedFor(j)' = Pushes!OpenedFor(j)
  BY <1>1 DEF Pushes!OpenedFor
<1>5. Len(posted') \in Nat
  BY <1>2
<1> QED
  BY <1>1, <1>2, <1>3, <1>4, <1>5 DEF PostNow, PostsStay

LEMMA PushServes ==
  ASSUME PushInv, Pushes!Serve
  PROVE  \/ /\ push.stage \in {"register", "register_retro", "join", "space"}
            /\ UNCHANGED <<opened, posted>>
         \/ push.stage \in {"send", "resend"} /\ Made(push.day, 0)
         \/ push.stage = "open" /\ opened' = Append(opened, push.of) /\ UNCHANGED posted
         \/ push.stage = "resolve" /\ Made(push.of, push.issue)
BY DEF Pushes!Serve, Pushes!Registered, Pushes!Created, Pushes!Paged, Pushes!Opened,
   Pushes!Resolved, Made

\* Where a failing or refused call leads to.
LEMMA FailureFits ==
  ASSUME PushInv, Pushes!AfterFailure, Pushes!Calling, UNCHANGED row
  PROVE  /\ push' \in PushRecord /\ push'.stage \in {"space", "join", "retros", "idle", "retro"}
         /\ PushFits'
<1>1. push \in PushRecord /\ PushFits
  BY DEF PushInv, PushTypeOK
<1>2. CASE push.stage \in DOMAIN Pushes!NextStage /\ Pushes!AfterTelemetryFailure
  <2>1. push.stage \in {"register", "send", "space", "join", "resend"}
    BY <1>2 DEF Pushes!NextStage
  <2>2. CASE push' = [push EXCEPT !.stage = "space"] \/ push' = [push EXCEPT !.stage = "join"]
    <3>1. push' \in PushRecord /\ push'.stage \in {"space", "join"} /\ push'.day = push.day
          /\ push'.todo = push.todo
      BY <1>1, <2>2 DEF PushRecord, PushStages, TelemetryStages
    <3> QED
      BY <1>1, <2>1, <3>1 DEF PushFits, TelemetryStages, RetroStages
  <2>3. CASE Pushes!ToRetros
    <3>1. push' \in PushRecord /\ push'.stage = "retros" /\ push'.todo = push.todo
      BY <1>1, <2>3 DEF Pushes!ToRetros, PushRecord, PushStages
    <3> QED
      BY <1>1, <3>1 DEF PushFits, TelemetryStages, RetroStages
  <2> QED
    BY <1>2, <2>2, <2>3 DEF Pushes!AfterTelemetryFailure, Pushes!Goes
<1>3. CASE push.stage \notin DOMAIN Pushes!NextStage /\ Pushes!AfterRetroFailure
  <2>1. CASE push' = Pushes!Resting
    BY <2>1 DEF Pushes!Resting, PushRecord, PushStages, PushFits, TelemetryStages, RetroStages
  <2>2. CASE Pushes!NextRetro
    <3>1. push' \in PushRecord /\ push'.stage = "retro" /\ push'.todo = push.todo
      BY <1>1, <2>2 DEF Pushes!NextRetro, PushRecord, PushStages
    <3> QED
      BY <1>1, <3>1 DEF PushFits, TelemetryStages, RetroStages
  <2> QED
    BY <1>3, <2>1, <2>2 DEF Pushes!AfterRetroFailure
<1> QED
  BY <1>2, <1>3 DEF Pushes!AfterFailure

\* The summary of session s is written.
Writes(s) ==
  /\ push.stage = "retro"
  /\ push' = [push EXCEPT !.todo = @ \ {s}, !.of = s, !.issue = row[s].issue,
                !.stage = IF s \in Pushes!Resumable THEN "resolve" ELSE "open"]
  /\ UNCHANGED <<Pushes!pushHub, Pushes!sessionVars, Pushes!mate, Pushes!history>>

LEMMA WritesOne == Pushes!WriteRetro => \E s \in push.todo : Writes(s)
BY Zenon DEF Pushes!WriteRetro, Writes

\* The steps that publish and note nothing: what the mate's tables and the hub's rows are
\* stays.
LEMMA QuietSteps ==
  ASSUME PushInv,
         \/ \E s \in Struggles : Pushes!ToolReturns(s) \/ Pushes!Settles(s)
         \/ Pushes!Midnight \/ (\E s \in DOMAIN spaces : Pushes!TwinLoads(s))
         \/ Pushes!TwinSaves \/ Pushes!ManageSpace
         \/ Pushes!BeginScan \/ Pushes!TakeRetros \/ Pushes!WriteRetro \/ Pushes!EndScan
         \/ Pushes!EngineFails \/ Pushes!QuitScan \/ Pushes!Refused
  PROVE  PushInv'
<1>1. /\ push \in PushRecord /\ PushFits /\ today \in Days /\ failed \in Nat
      /\ row \in [Subjects -> [issue : Nat, page : Nat]]
  BY DEF PushInv, PushTypeOK
<1>2. Struggles \subseteq Subjects /\ Days \subseteq Subjects /\ MaxDay \in Nat \ {0}
  BY PushesAssumption DEF Pushes!PushAssumption, Subjects, Days, Pushes!Subjects
<1>3. CASE \/ \E s \in Struggles : Pushes!ToolReturns(s) \/ Pushes!Settles(s)
           \/ Pushes!Midnight \/ (\E s \in DOMAIN spaces : Pushes!TwinLoads(s))
           \/ Pushes!TwinSaves \/ Pushes!ManageSpace
  <2>1. UNCHANGED <<opened, posted, row, push, failed>>
    BY <1>3 DEF Pushes!ToolReturns, Pushes!Settles, Pushes!Midnight, Pushes!TwinLoads,
       Pushes!TwinSaves, Pushes!ManageSpace, Pushes!pushHub, Pushes!mate, Pushes!history
  <2>2. today' \in Days
    <3>1. CASE Pushes!Midnight
      BY <1>1, <1>2, <3>1 DEF Pushes!Midnight, Days, Pushes!Days
    <3> QED
      BY <1>1, <1>3, <3>1 DEF Pushes!ToolReturns, Pushes!Settles, Pushes!TwinLoads,
         Pushes!TwinSaves, Pushes!ManageSpace, Pushes!sessionVars
  <2>3. PushTypeOK'
    BY <2>1, <2>2 DEF PushInv, PushTypeOK
  <2>4. PushFits' /\ PushOnce'
    BY <2>1 DEF PushInv, PushFits, PushOnce, PostOf, KnowsPage, KnowsOpened, Pushes!MadeOf,
       Pushes!OpenedFor
  <2> QED
    BY <2>3, <2>4 DEF PushInv
<1>4. ASSUME UNCHANGED <<opened, posted, row, today>>, push' \in PushRecord, PushFits',
             \/ failed' = failed /\ push.stage \notin {"mark_day", "mark_issue", "mark_page"}
             \/ failed' = failed + 1
      PROVE  PushInv'
  BY <1>1, <1>4, PushQuiet
<1>5. CASE Pushes!BeginScan
  <2>1. /\ UNCHANGED <<opened, posted, row, today, failed>> /\ push.stage = "idle"
    BY <1>5 DEF Pushes!BeginScan, Pushes!pushHub, Pushes!sessionVars, Pushes!mate
  <2>2. /\ push' \in PushRecord /\ push'.stage \in {"retros", "register", "send"}
        /\ push'.todo = {} /\ push'.day = today - 1
        /\ push'.stage \in {"register", "send"} => today # 1 /\ Pushes!Unsent(today - 1)
    <3> DEFINE stage1 == IF today = 1 \/ ~Pushes!Unsent(today - 1) THEN "retros"
                         ELSE IF token THEN "send" ELSE "register"
    <3>1. push' = [Pushes!Resting EXCEPT !.day = today - 1, !.stage = stage1]
      BY <1>5 DEF Pushes!BeginScan
    <3>2. /\ stage1 \in {"retros", "register", "send"}
          /\ stage1 \in {"register", "send"} => today # 1 /\ Pushes!Unsent(today - 1)
      OBVIOUS
    <3> HIDE DEF stage1
    <3>3. push' = [stage |-> stage1, day |-> today - 1, of |-> 0, issue |-> 0, page |-> 0,
                   todo |-> {}]
      BY <3>1 DEF Pushes!Resting
    <3>4. today - 1 \in Nat
      BY <1>1, <1>2 DEF Days, Pushes!Days
    <3> QED
      BY <3>2, <3>3, <3>4 DEF PushRecord, PushStages, TelemetryStages
  <2>3. today # 1 => today - 1 \in Days
    BY <1>1, <1>2 DEF Days, Pushes!Days
  <2>4. PushFits'
    BY <2>1, <2>2, <2>3 DEF PushFits, TelemetryStages, RetroStages, Pushes!Unsent
  <2> QED
    BY <1>4, <2>1, <2>2, <2>4
<1>6. CASE Pushes!TakeRetros
  <2>1. UNCHANGED <<opened, posted, row, today, failed>> /\ push.stage = "retros"
    BY <1>6 DEF Pushes!TakeRetros, Pushes!pushHub, Pushes!sessionVars, Pushes!mate,
       Pushes!history
  <2>2. /\ push' \in PushRecord /\ push'.stage \in {"idle", "retro", "register_retro"}
        /\ push'.todo \subseteq Pushes!Selected \cup Pushes!Resumable
    <3>1. Pushes!Selected \cup Pushes!Resumable \subseteq Struggles
      BY DEF Pushes!Selected, Pushes!Resumable
    <3>2. CASE push' = Pushes!Resting
      BY <3>2 DEF Pushes!Resting, PushRecord, PushStages
    <3>3. CASE push' = [push EXCEPT !.stage = IF token THEN "retro" ELSE "register_retro",
                          !.todo = Pushes!Selected \cup Pushes!Resumable]
      BY <1>1, <3>1, <3>3 DEF PushRecord, PushStages
    <3> QED
      BY <1>6, <3>2, <3>3 DEF Pushes!TakeRetros
  <2>3. PushFits'
    BY <2>1, <2>2 DEF PushFits, TelemetryStages, RetroStages, Pushes!Selected, Pushes!Resumable
  <2> QED
    BY <1>4, <2>1, <2>2, <2>3
<1>7. CASE Pushes!WriteRetro
  <2>1. PICK s \in push.todo : Writes(s)
    BY <1>7, WritesOne
  <2> HIDE <1>7
  <2>2. UNCHANGED <<opened, posted, row, today, failed>> /\ push.stage = "retro"
    BY <2>1 DEF Writes, Pushes!pushHub, Pushes!sessionVars, Pushes!mate, Pushes!history
  <2>3. s \in Struggles /\ row[s].issue \in Nat /\ row[s].page = 0
    BY <1>1, <1>2 DEF PushRecord, PushFits
  <2>4. /\ push' \in PushRecord /\ push'.todo = push.todo \ {s} /\ push'.of = s
        /\ push'.issue = row[s].issue
        /\ push'.stage = IF s \in Pushes!Resumable THEN "resolve" ELSE "open"
    BY <1>1, <2>1, <2>3 DEF Writes, PushRecord, PushStages, RetroStages
  <2>5. s \in Pushes!Resumable <=> row[s].issue # 0
    BY <2>3 DEF Pushes!Resumable
  <2>6. PushFits'
    BY <1>1, <2>2, <2>3, <2>4, <2>5 DEF PushFits, TelemetryStages, RetroStages
  <2> QED
    BY <1>4, <2>2, <2>4, <2>6
<1>8. CASE Pushes!EndScan \/ Pushes!QuitScan
  <2>1. /\ UNCHANGED <<opened, posted, row, today>> /\ push' = Pushes!Resting
        /\ \/ failed' = failed /\ push.stage = "retro"
           \/ failed' = failed + 1
    BY <1>8 DEF Pushes!EndScan, Pushes!QuitScan, Pushes!pushHub, Pushes!sessionVars,
       Pushes!mate, Pushes!history
  <2>2. push' \in PushRecord /\ push'.stage = "idle" /\ push'.todo = {}
    BY <2>1 DEF Pushes!Resting, PushRecord, PushStages
  <2>3. PushFits'
    BY <2>2 DEF PushFits, TelemetryStages, RetroStages
  <2> QED
    BY <1>4, <2>1, <2>2, <2>3
<1>9. CASE Pushes!EngineFails
  <2>1. UNCHANGED <<opened, posted, row, today>> /\ push.stage = "retro" /\ failed' = failed + 1
    BY <1>9 DEF Pushes!EngineFails, Pushes!pushHub, Pushes!sessionVars, Pushes!mate
  <2>2. PICK s \in push.todo : push' = [push EXCEPT !.todo = @ \ {s}]
    BY <1>9 DEF Pushes!EngineFails
  <2>3. push' \in PushRecord /\ push'.stage = "retro" /\ push'.todo = push.todo \ {s}
    BY <1>1, <2>1, <2>2 DEF PushRecord
  <2>4. PushFits'
    BY <1>1, <2>1, <2>3 DEF PushFits, TelemetryStages, RetroStages
  <2> QED
    BY <1>4, <2>1, <2>3, <2>4
<1>10. CASE Pushes!Refused
  <2>1. UNCHANGED <<opened, posted, row, today, failed>> /\ Pushes!AfterFailure
    BY <1>10 DEF Pushes!Refused, Pushes!pushHub, Pushes!sessionVars, Pushes!mate,
       Pushes!history
  <2>2. Pushes!Calling
    BY <1>10 DEF Pushes!Refused, Pushes!Refuses, Pushes!Calling
  <2> QED
    BY <1>4, <2>1, <2>2, FailureFits DEF Pushes!Calling
<1> QED
  BY <1>3, <1>5, <1>6, <1>7, <1>8, <1>9, <1>10

\* A call of the telemetry is answered.
LEMMA TelemetryFits ==
  ASSUME PushInv, Pushes!TelemetryAnswered
  PROVE  PushInv'
<1>1. /\ push \in PushRecord /\ PushFits /\ today \in Days /\ failed \in Nat /\ PushTypeOK
      /\ row \in [Subjects -> [issue : Nat, page : Nat]]
  BY DEF PushInv, PushTypeOK
<1>2. Days \subseteq Subjects /\ Struggles \subseteq Subjects /\ Days \cap Struggles = {}
  BY PushesAssumption DEF Pushes!PushAssumption, Subjects, Days, Pushes!Subjects
<1>3. /\ UNCHANGED <<row, today, failed>> /\ Pushes!Serve
      /\ push.stage \in {"register", "send", "space", "join", "resend"}
      /\ push' = [push EXCEPT !.stage = Pushes!NextStage[push.stage],
                              !.page = IF posted' # posted THEN Len(posted') ELSE @]
  BY DEF Pushes!TelemetryAnswered, Pushes!sessionVars, Pushes!history, Pushes!NextStage
<1>4. /\ push.stage = "register" => Pushes!NextStage[push.stage] = "send"
      /\ push.stage = "space" => Pushes!NextStage[push.stage] = "join"
      /\ push.stage = "join" => Pushes!NextStage[push.stage] = "resend"
      /\ push.stage \in {"send", "resend"} => Pushes!NextStage[push.stage] = "mark_day"
  BY DEF Pushes!NextStage
<1>5. /\ push.day \in Days /\ row[push.day].issue = 0 /\ row[push.day].page = 0
      /\ \A s \in push.todo : row[s].page = 0
  BY <1>1, <1>3 DEF PushFits, TelemetryStages
<1>6. CASE push.stage \in {"register", "space", "join"} /\ UNCHANGED <<opened, posted>>
  <2>1. /\ push' \in PushRecord /\ push'.stage \in {"send", "join", "resend"}
        /\ push'.day = push.day /\ push'.todo = push.todo
    BY <1>1, <1>3, <1>4, <1>6 DEF PushRecord, PushStages, TelemetryStages
  <2>2. PushFits'
    BY <1>3, <1>5, <2>1 DEF PushFits, TelemetryStages, RetroStages
  <2> QED
    BY <1>1, <1>3, <1>6, <2>1, <2>2, PushQuiet
<1>7. CASE push.stage \in {"send", "resend"} /\ Made(push.day, 0)
  <2>1. /\ posted' \in Seq(Post) /\ PostsStay /\ PostNow(Len(posted'), push.day, 0)
        /\ Len(posted') \in Nat \ {0} /\ posted' # posted /\ opened' = opened
        /\ \A j : Pushes!MadeOf(j)' = Pushes!MadeOf(j) + Bit(push.day = j)
        /\ \A j : Pushes!OpenedFor(j)' = Pushes!OpenedFor(j)
    BY <1>1, <1>2, <1>5, <1>7, MadeOne DEF Made
  <2>2. /\ push' \in PushRecord /\ push'.stage = "mark_day" /\ push'.page = Len(posted')
        /\ push'.day = push.day /\ push'.todo = push.todo
    <3>1. push' = [push EXCEPT !.stage = "mark_day", !.page = Len(posted')]
      BY <1>3, <1>4, <1>7, <2>1
    <3> QED
      BY <1>1, <2>1, <3>1 DEF PushRecord, PushStages, TelemetryStages
  <2>3. PushTypeOK'
    BY <1>1, <1>3, <2>1, <2>2 DEF PushTypeOK
  <2>4. PushFits'
    BY <1>3, <1>5, <2>1, <2>2 DEF PushFits, TelemetryStages, RetroStages, PostOf, PostNow
  <2>5. ASSUME NEW k \in Subjects
        PROVE  Covered(Pushes!MadeOf(k), Pushes!MadeOf(k)', KnowsPage(k), KnowsPage(k)')
    <3>1. Pushes!MadeOf(k) \in Nat
      BY <1>1, PushCountsNat
    <3>2. CASE k = push.day
      <4>1. ~KnowsPage(k) /\ KnowsPage(k)'
        BY <1>2, <1>5, <1>7, <2>2, <3>2 DEF KnowsPage
      <4>2. Pushes!MadeOf(k)' = Pushes!MadeOf(k) + 1
        BY <2>1, <3>2 DEF Bit
      <4> QED
        BY <3>1, <4>1, <4>2 DEF Covered
    <3>3. CASE k # push.day
      <4>1. KnowsPage(k) => KnowsPage(k)'
        BY <1>3, <1>7, <3>3 DEF KnowsPage
      <4>2. Pushes!MadeOf(k)' = Pushes!MadeOf(k) + 0
        BY <2>1, <3>3 DEF Bit
      <4> QED
        BY <3>1, <4>1, <4>2 DEF Covered
    <3> QED
      BY <3>2, <3>3
  <2>6. ASSUME NEW s \in Struggles
        PROVE  Covered(Pushes!OpenedFor(s), Pushes!OpenedFor(s)', KnowsOpened(s), KnowsOpened(s)')
    <3>1. Pushes!OpenedFor(s) \in Nat /\ Pushes!OpenedFor(s)' = Pushes!OpenedFor(s)
      BY <1>1, <2>1, PushCountsNat
    <3>2. KnowsOpened(s) => KnowsOpened(s)'
      BY <1>3, <1>7 DEF KnowsOpened
    <3> QED
      BY <3>1, <3>2 DEF Covered
  <2> QED
    BY <1>1, <1>3, <2>1, <2>3, <2>4, <2>5, <2>6, PushStep
<1> QED
  BY <1>3, <1>6, <1>7, PushServes

\* A call of the retrospectives is answered.
LEMMA RetroFits ==
  ASSUME PushInv, Pushes!RetroAnswered
  PROVE  PushInv'
<1>1. /\ push \in PushRecord /\ PushFits /\ today \in Days /\ failed \in Nat /\ PushTypeOK
      /\ row \in [Subjects -> [issue : Nat, page : Nat]]
  BY DEF PushInv, PushTypeOK
<1>2. Days \subseteq Subjects /\ Struggles \subseteq Subjects
  BY DEF Subjects, Days, Pushes!Subjects
<1>3. /\ UNCHANGED <<row, today, failed>> /\ Pushes!Serve
      /\ \/ push.stage = "register_retro" /\ push' = [push EXCEPT !.stage = "retro"]
         \/ /\ push.stage = "open"
            /\ push' = [push EXCEPT !.stage = "mark_issue", !.issue = Len(opened')]
         \/ /\ push.stage = "resolve"
            /\ push' = [push EXCEPT !.stage = "mark_page", !.page = Len(posted')]
  BY DEF Pushes!RetroAnswered, Pushes!sessionVars, Pushes!history, Pushes!Goes
<1>4. \A s \in push.todo : row[s].page = 0
  BY <1>1 DEF PushFits
<1>5. CASE push.stage = "register_retro" /\ UNCHANGED <<opened, posted>>
  <2>1. push' \in PushRecord /\ push'.stage = "retro" /\ push'.todo = push.todo
    BY <1>1, <1>3, <1>5 DEF PushRecord, PushStages
  <2>2. PushFits'
    BY <1>3, <1>4, <2>1 DEF PushFits, TelemetryStages, RetroStages
  <2> QED
    BY <1>1, <1>3, <1>5, <2>1, <2>2, PushQuiet
<1>6. CASE push.stage = "open" /\ opened' = Append(opened, push.of) /\ UNCHANGED posted
  <2>1. /\ push.of \in Struggles \ push.todo /\ row[push.of].page = 0
        /\ row[push.of].issue = 0
    BY <1>1, <1>6 DEF PushFits, RetroStages
  <2>2. /\ opened' \in Seq(Struggles) /\ Len(opened') \in Nat \ {0}
        /\ \A s : Pushes!OpenedFor(s)' = Pushes!OpenedFor(s) + Bit(push.of = s)
        /\ \A j : Pushes!MadeOf(j)' = Pushes!MadeOf(j)
    BY <1>1, <1>6, <2>1, IssueAppended DEF Pushes!MadeOf
  <2>3. /\ push' \in PushRecord /\ push'.stage = "mark_issue" /\ push'.issue = Len(opened')
        /\ push'.of = push.of /\ push'.todo = push.todo
    <3>1. push' = [push EXCEPT !.stage = "mark_issue", !.issue = Len(opened')]
      BY <1>3, <1>6
    <3> QED
      BY <1>1, <2>2, <3>1 DEF PushRecord, PushStages, RetroStages
  <2>4. PushTypeOK'
    BY <1>1, <1>3, <1>6, <2>2, <2>3 DEF PushTypeOK
  <2>5. PushFits'
    BY <1>3, <1>4, <2>1, <2>2, <2>3 DEF PushFits, TelemetryStages, RetroStages
  <2>6. ASSUME NEW k \in Subjects
        PROVE  Covered(Pushes!MadeOf(k), Pushes!MadeOf(k)', KnowsPage(k), KnowsPage(k)')
    <3>1. Pushes!MadeOf(k) \in Nat /\ Pushes!MadeOf(k)' = Pushes!MadeOf(k)
      BY <1>1, <2>2, PushCountsNat
    <3>2. KnowsPage(k) => KnowsPage(k)'
      BY <1>3, <1>6 DEF KnowsPage
    <3> QED
      BY <3>1, <3>2 DEF Covered
  <2>7. ASSUME NEW s \in Struggles
        PROVE  Covered(Pushes!OpenedFor(s), Pushes!OpenedFor(s)', KnowsOpened(s), KnowsOpened(s)')
    <3>1. Pushes!OpenedFor(s) \in Nat
      BY <1>1, PushCountsNat
    <3>2. CASE s = push.of
      <4>1. ~KnowsOpened(s) /\ KnowsOpened(s)'
        BY <1>6, <2>1, <2>3, <3>2 DEF KnowsOpened
      <4>2. Pushes!OpenedFor(s)' = Pushes!OpenedFor(s) + 1
        BY <2>2, <3>2 DEF Bit
      <4> QED
        BY <3>1, <4>1, <4>2 DEF Covered
    <3>3. CASE s # push.of
      <4>1. KnowsOpened(s) => KnowsOpened(s)'
        BY <1>3, <1>6 DEF KnowsOpened
      <4>2. Pushes!OpenedFor(s)' = Pushes!OpenedFor(s) + 0
        BY <2>2, <3>3 DEF Bit
      <4> QED
        BY <3>1, <4>1, <4>2 DEF Covered
    <3> QED
      BY <3>2, <3>3
  <2>8. PostsStay
    BY <1>6 DEF PostsStay
  <2> QED
    BY <1>1, <1>3, <2>4, <2>5, <2>6, <2>7, <2>8, PushStep
<1>7. CASE push.stage = "resolve" /\ Made(push.of, push.issue)
  <2>1. /\ push.of \in Struggles \ push.todo /\ row[push.of].page = 0
        /\ row[push.of].issue = push.issue /\ push.issue \in Nat
    BY <1>1, <1>7 DEF PushFits, RetroStages, PushRecord
  <2>2. /\ posted' \in Seq(Post) /\ PostsStay /\ PostNow(Len(posted'), push.of, push.issue)
        /\ Len(posted') \in Nat \ {0} /\ opened' = opened
        /\ \A j : Pushes!MadeOf(j)' = Pushes!MadeOf(j) + Bit(push.of = j)
        /\ \A j : Pushes!OpenedFor(j)' = Pushes!OpenedFor(j)
    BY <1>1, <1>2, <1>7, <2>1, MadeOne DEF Made
  <2>3. /\ push' \in PushRecord /\ push'.stage = "mark_page" /\ push'.page = Len(posted')
        /\ push'.of = push.of /\ push'.issue = push.issue /\ push'.todo = push.todo
    <3>1. push' = [push EXCEPT !.stage = "mark_page", !.page = Len(posted')]
      BY <1>3, <1>7
    <3> QED
      BY <1>1, <2>2, <3>1 DEF PushRecord, PushStages, RetroStages
  <2>4. PushTypeOK'
    BY <1>1, <1>3, <2>2, <2>3 DEF PushTypeOK
  <2>5. PushFits'
    BY <1>3, <1>4, <2>1, <2>2, <2>3 DEF PushFits, TelemetryStages, RetroStages, PostOf, PostNow
  <2>6. ASSUME NEW k \in Subjects
        PROVE  Covered(Pushes!MadeOf(k), Pushes!MadeOf(k)', KnowsPage(k), KnowsPage(k)')
    <3>1. Pushes!MadeOf(k) \in Nat
      BY <1>1, PushCountsNat
    <3>2. CASE k = push.of
      <4>1. ~KnowsPage(k) /\ KnowsPage(k)'
        BY <1>7, <2>1, <2>3, <3>2 DEF KnowsPage
      <4>2. Pushes!MadeOf(k)' = Pushes!MadeOf(k) + 1
        BY <2>2, <3>2 DEF Bit
      <4> QED
        BY <3>1, <4>1, <4>2 DEF Covered
    <3>3. CASE k # push.of
      <4>1. KnowsPage(k) => KnowsPage(k)'
        BY <1>3, <1>7 DEF KnowsPage
      <4>2. Pushes!MadeOf(k)' = Pushes!MadeOf(k) + 0
        BY <2>2, <3>3 DEF Bit
      <4> QED
        BY <3>1, <4>1, <4>2 DEF Covered
    <3> QED
      BY <3>2, <3>3
  <2>7. ASSUME NEW s \in Struggles
        PROVE  Covered(Pushes!OpenedFor(s), Pushes!OpenedFor(s)', KnowsOpened(s), KnowsOpened(s)')
    <3>1. Pushes!OpenedFor(s) \in Nat /\ Pushes!OpenedFor(s)' = Pushes!OpenedFor(s)
      BY <1>1, <2>2, PushCountsNat
    <3>2. KnowsOpened(s) => KnowsOpened(s)'
      BY <1>3, <1>7 DEF KnowsOpened
    <3> QED
      BY <3>1, <3>2 DEF Covered
  <2> QED
    BY <1>1, <1>3, <2>2, <2>4, <2>5, <2>6, <2>7, PushStep
<1> QED
  BY <1>3, <1>5, <1>6, <1>7, PushServes

\* A call that gets no answer adds one row at most, and is counted.
LEMMA CallFits ==
  ASSUME PushInv, Pushes!CallFails
  PROVE  PushInv'
<1>1. /\ push \in PushRecord /\ PushFits /\ today \in Days /\ failed \in Nat /\ PushTypeOK
      /\ row \in [Subjects -> [issue : Nat, page : Nat]]
  BY DEF PushInv, PushTypeOK
<1>2. Days \subseteq Subjects /\ Struggles \subseteq Subjects
  BY DEF Subjects, Days, Pushes!Subjects
<1>3. /\ UNCHANGED <<row, today>> /\ failed' = failed + 1
      /\ Pushes!Calling /\ Pushes!AfterFailure
      /\ Pushes!Serve \/ UNCHANGED <<opened, posted>>
  BY DEF Pushes!CallFails, Pushes!sessionVars, Pushes!mate, Pushes!pushHub
<1>4. push' \in PushRecord /\ PushFits'
  BY <1>3, FailureFits
<1>5. CASE UNCHANGED <<opened, posted>>
  BY <1>1, <1>3, <1>4, <1>5, PushQuiet
<1>6. ASSUME PostsStay, opened' \in Seq(Struggles), posted' \in Seq(Post),
             \A j : \/ Pushes!MadeOf(j)' = Pushes!MadeOf(j)
                    \/ Pushes!MadeOf(j)' = Pushes!MadeOf(j) + 1,
             \A j : \/ Pushes!OpenedFor(j)' = Pushes!OpenedFor(j)
                    \/ Pushes!OpenedFor(j)' = Pushes!OpenedFor(j) + 1
      PROVE  PushInv'
  <2>1. PushTypeOK' /\ failed <= failed'
    BY <1>1, <1>3, <1>4, <1>6 DEF PushTypeOK
  <2>2. ASSUME NEW k PROVE
          /\ Covered(Pushes!MadeOf(k), Pushes!MadeOf(k)', KnowsPage(k), KnowsPage(k)')
          /\ Covered(Pushes!OpenedFor(k), Pushes!OpenedFor(k)', KnowsOpened(k), KnowsOpened(k)')
    <3>1. (KnowsPage(k) => KnowsPage(k)') /\ (KnowsOpened(k) => KnowsOpened(k)')
      BY <1>3 DEF KnowsPage, KnowsOpened, Pushes!Calling
    <3>2. Pushes!MadeOf(k) \in Nat /\ Pushes!OpenedFor(k) \in Nat
      BY <1>1, PushCountsNat
    <3>3. /\ Pushes!MadeOf(k)' <= Pushes!MadeOf(k) + 1
          /\ Pushes!OpenedFor(k)' <= Pushes!OpenedFor(k) + 1
      <4>1. \A n \in Nat : n <= n + 1
        OBVIOUS
      <4>2. \/ Pushes!MadeOf(k)' = Pushes!MadeOf(k)
            \/ Pushes!MadeOf(k)' = Pushes!MadeOf(k) + 1
        BY <1>6
      <4>3. \/ Pushes!OpenedFor(k)' = Pushes!OpenedFor(k)
            \/ Pushes!OpenedFor(k)' = Pushes!OpenedFor(k) + 1
        BY <1>6
      <4> QED
        BY <3>2, <4>1, <4>2, <4>3
    <3> QED
      BY <1>3, <3>1, <3>3 DEF Covered
  <2> QED
    BY <1>3, <1>4, <1>6, <2>1, <2>2, PushStep
<1>7. \A b \in BOOLEAN, n \in Nat : n + Bit(b) = n \/ n + Bit(b) = n + 1
  BY DEF Bit
<1>8. ASSUME NEW k \in Subjects, NEW i \in Nat, Made(k, i) PROVE PushInv'
  <2>1. /\ posted' \in Seq(Post) /\ PostsStay
        /\ \A j : Pushes!MadeOf(j)' = Pushes!MadeOf(j) + Bit(k = j)
        /\ \A j : Pushes!OpenedFor(j)' = Pushes!OpenedFor(j)
    BY <1>1, <1>8, MadeOne
  <2>2. \A j : Pushes!MadeOf(j) \in Nat
    BY <1>1, PushCountsNat
  <2>3. \A j : \/ Pushes!MadeOf(j)' = Pushes!MadeOf(j)
               \/ Pushes!MadeOf(j)' = Pushes!MadeOf(j) + 1
    BY <1>7, <2>1, <2>2
  <2>4. opened' \in Seq(Struggles)
    BY <1>1, <1>8 DEF Made, PushTypeOK
  <2> QED
    BY <1>6, <2>1, <2>3, <2>4
<1>9. CASE push.stage \in {"send", "resend"} /\ Made(push.day, 0)
  BY <1>1, <1>2, <1>8, <1>9 DEF PushFits, TelemetryStages
<1>10. CASE push.stage = "resolve" /\ Made(push.of, push.issue)
  BY <1>1, <1>2, <1>8, <1>10 DEF PushFits, RetroStages, PushRecord
<1>11. CASE push.stage = "open" /\ opened' = Append(opened, push.of) /\ UNCHANGED posted
  <2>1. push.of \in Struggles
    BY <1>1, <1>11 DEF PushFits, RetroStages
  <2>2. /\ opened' \in Seq(Struggles)
        /\ \A s : Pushes!OpenedFor(s)' = Pushes!OpenedFor(s) + Bit(push.of = s)
        /\ \A j : Pushes!MadeOf(j)' = Pushes!MadeOf(j)
    BY <1>1, <1>11, <2>1, IssueAppended DEF Pushes!MadeOf
  <2>3. \A j : Pushes!OpenedFor(j) \in Nat
    BY <1>1, PushCountsNat
  <2>4. \A j : \/ Pushes!OpenedFor(j)' = Pushes!OpenedFor(j)
               \/ Pushes!OpenedFor(j)' = Pushes!OpenedFor(j) + 1
    BY <1>7, <2>2, <2>3
  <2>5. PostsStay /\ posted' \in Seq(Post)
    BY <1>1, <1>11 DEF PostsStay, PushTypeOK
  <2> QED
    BY <1>6, <2>2, <2>4, <2>5
<1> QED
  BY <1>3, <1>5, <1>9, <1>10, <1>11, PushServes

\* What the scan holds is noted.
LEMMA MarksFit ==
  ASSUME PushInv, Pushes!MarkDay \/ Pushes!MarkRetroIssue \/ Pushes!MarkRetro
  PROVE  PushInv'
<1>1. /\ push \in PushRecord /\ PushFits /\ today \in Days /\ failed \in Nat /\ PushTypeOK
      /\ row \in [Subjects -> [issue : Nat, page : Nat]]
  BY DEF PushInv, PushTypeOK
<1>2. Days \subseteq Subjects /\ Struggles \subseteq Subjects
  BY DEF Subjects, Days, Pushes!Subjects
<1>3. UNCHANGED <<opened, posted, today, failed>>
  BY DEF Pushes!MarkDay, Pushes!MarkRetroIssue, Pushes!MarkRetro, Pushes!pushHub,
     Pushes!sessionVars, Pushes!history
<1>4. \A k : /\ Pushes!MadeOf(k) \in Nat /\ Pushes!MadeOf(k)' = Pushes!MadeOf(k)
             /\ Pushes!OpenedFor(k) \in Nat /\ Pushes!OpenedFor(k)' = Pushes!OpenedFor(k)
  BY <1>1, <1>3, PushCountsNat DEF Pushes!MadeOf, Pushes!OpenedFor
<1>5. \A s \in push.todo : row[s].page = 0
  BY <1>1 DEF PushFits
<1>6. ASSUME PushTypeOK', PushFits',
             \A k \in Subjects : KnowsPage(k) => KnowsPage(k)',
             \A s \in Struggles : KnowsOpened(s) => KnowsOpened(s)',
             \A k \in Subjects : row'[k].page # 0 =>
               row'[k] = row[k] \/ PostNow(row'[k].page, k, row'[k].issue)
      PROVE  PushInv'
  <2>1. PostsStay /\ failed <= failed'
    BY <1>1, <1>3 DEF PostsStay
  <2> QED
    BY <1>4, <1>6, <2>1, PushStep DEF Covered
<1>7. CASE Pushes!MarkDay
  <2>1. /\ push.stage = "mark_day" /\ push.day \in Days
        /\ row[push.day].issue = 0 /\ row[push.day].page = 0
        /\ PostOf(push.page, push.day, 0) /\ push.page \in Nat
    BY <1>1, <1>7 DEF PushFits, TelemetryStages, Pushes!MarkDay, PushRecord
  <2>2. /\ row' \in [Subjects -> [issue : Nat, page : Nat]]
        /\ row'[push.day].issue = 0 /\ row'[push.day].page = push.page
        /\ \A k \in Subjects : k # push.day => row'[k] = row[k]
    BY <1>1, <1>2, <1>7, <2>1 DEF Pushes!MarkDay
  <2>3. push' \in PushRecord /\ push'.stage = "retros" /\ push'.todo = push.todo
    BY <1>1, <1>7 DEF Pushes!MarkDay, Pushes!ToRetros, PushRecord, PushStages
  <2>4. push.page # 0
    BY <1>1, <2>1 DEF PostOf, PushTypeOK
  <2>5. \A s \in Struggles : s # push.day
    BY <2>1, PushesAssumption DEF Pushes!PushAssumption, Days
  <2>6. PushFits'
    <3>1. push.todo \subseteq Struggles
      BY <1>1 DEF PushRecord
    <3> QED
      BY <1>2, <1>5, <2>2, <2>3, <2>5, <3>1 DEF PushFits, TelemetryStages, RetroStages
  <2>7. PushTypeOK'
    BY <1>1, <1>3, <2>2, <2>3 DEF PushTypeOK
  <2>8. ASSUME NEW k \in Subjects PROVE KnowsPage(k) => KnowsPage(k)'
    BY <2>1, <2>2, <2>3, <2>4 DEF KnowsPage
  <2>9. ASSUME NEW s \in Struggles PROVE KnowsOpened(s) => KnowsOpened(s)'
    BY <1>2, <2>1, <2>2, <2>5 DEF KnowsOpened
  <2>10. ASSUME NEW k \in Subjects
         PROVE  row'[k] = row[k] \/ PostNow(row'[k].page, k, row'[k].issue)
    BY <1>3, <2>1, <2>2 DEF PostOf, PostNow
  <2> QED
    BY <1>6, <2>6, <2>7, <2>8, <2>9, <2>10
<1>8. CASE Pushes!MarkRetroIssue
  <2>1. /\ push.stage = "mark_issue" /\ push.of \in Struggles \ push.todo
        /\ row[push.of].page = 0 /\ push.issue \in Nat \ {0}
    BY <1>1, <1>8 DEF PushFits, RetroStages, Pushes!MarkRetroIssue, PushRecord
  <2>2. /\ row' \in [Subjects -> [issue : Nat, page : Nat]]
        /\ row'[push.of].issue = push.issue /\ row'[push.of].page = 0
        /\ \A k \in Subjects : k # push.of => row'[k] = row[k]
    BY <1>1, <1>2, <1>8, <2>1 DEF Pushes!MarkRetroIssue
  <2>3. /\ push' \in PushRecord /\ push'.stage = "resolve" /\ push'.todo = push.todo
        /\ push'.of = push.of /\ push'.issue = push.issue
    BY <1>1, <1>8 DEF Pushes!MarkRetroIssue, Pushes!Goes, PushRecord, PushStages, RetroStages
  <2>4. PushFits'
    <3>1. push.todo \subseteq Struggles
      BY <1>1 DEF PushRecord
    <3> QED
      BY <1>2, <1>5, <2>1, <2>2, <2>3, <3>1 DEF PushFits, TelemetryStages, RetroStages
  <2>5. PushTypeOK'
    BY <1>1, <1>3, <2>2, <2>3 DEF PushTypeOK
  <2>6. ASSUME NEW k \in Subjects PROVE KnowsPage(k) => KnowsPage(k)'
    BY <2>1, <2>2 DEF KnowsPage
  <2>7. ASSUME NEW s \in Struggles PROVE KnowsOpened(s) => KnowsOpened(s)'
    BY <1>2, <2>1, <2>2 DEF KnowsOpened
  <2>8. ASSUME NEW k \in Subjects, row'[k].page # 0 PROVE row'[k] = row[k]
    BY <2>2, <2>8
  <2> QED
    BY <1>6, <2>4, <2>5, <2>6, <2>7, <2>8
<1>9. CASE Pushes!MarkRetro
  <2>1. /\ push.stage = "mark_page" /\ push.of \in Struggles \ push.todo
        /\ row[push.of].issue = push.issue /\ PostOf(push.page, push.of, push.issue)
        /\ push.page \in Nat
    BY <1>1, <1>9 DEF PushFits, RetroStages, Pushes!MarkRetro, PushRecord
  <2>2. /\ row' \in [Subjects -> [issue : Nat, page : Nat]]
        /\ row'[push.of].issue = push.issue /\ row'[push.of].page = push.page
        /\ \A k \in Subjects : k # push.of => row'[k] = row[k]
    BY <1>1, <1>2, <1>9, <2>1 DEF Pushes!MarkRetro
  <2>3. push' \in PushRecord /\ push'.stage = "retro" /\ push'.todo = push.todo
    BY <1>1, <1>9 DEF Pushes!MarkRetro, Pushes!NextRetro, PushRecord, PushStages
  <2>4. push.page # 0
    BY <1>1, <2>1 DEF PostOf, PushTypeOK
  <2>5. PushFits'
    <3>1. push.todo \subseteq Struggles
      BY <1>1 DEF PushRecord
    <3> QED
      BY <1>2, <1>5, <2>1, <2>2, <2>3, <3>1 DEF PushFits, TelemetryStages, RetroStages
  <2>6. PushTypeOK'
    BY <1>1, <1>3, <2>2, <2>3 DEF PushTypeOK
  <2>7. ASSUME NEW k \in Subjects PROVE KnowsPage(k) => KnowsPage(k)'
    BY <2>1, <2>2, <2>3, <2>4 DEF KnowsPage
  <2>8. ASSUME NEW s \in Struggles PROVE KnowsOpened(s) => KnowsOpened(s)'
    BY <1>2, <2>1, <2>2 DEF KnowsOpened
  <2>9. ASSUME NEW k \in Subjects
        PROVE  row'[k] = row[k] \/ PostNow(row'[k].page, k, row'[k].issue)
    BY <1>3, <2>1, <2>2 DEF PostOf, PostNow
  <2> QED
    BY <1>6, <2>5, <2>6, <2>7, <2>8, <2>9
<1> QED
  BY <1>7, <1>8, <1>9

LEMMA PushInvInit == Pushes!PushInit => PushInv
<1> SUFFICES ASSUME Pushes!PushInit PROVE PushInv
  OBVIOUS
<1>1. /\ opened = <<>> /\ posted = <<>> /\ today = 1 /\ failed = 0
      /\ row = [k \in Subjects |-> [issue |-> 0, page |-> 0]]
      /\ push = [stage |-> "idle", day |-> 0, of |-> 0, issue |-> 0, page |-> 0, todo |-> {}]
  BY DEF Pushes!PushInit, Pushes!Resting, Subjects
<1>2. PushTypeOK
  BY <1>1, PushesAssumption DEF PushTypeOK, PushRecord, PushStages, Days, Pushes!Days,
     Pushes!PushAssumption
<1>3. PushFits
  BY <1>1 DEF PushFits, TelemetryStages, RetroStages
<1>4. ASSUME NEW k PROVE Pushes!MadeOf(k) = 0 /\ Pushes!OpenedFor(k) = 0
  <2>1. DOMAIN posted = {} /\ DOMAIN opened = {}
    BY <1>1
  <2>2. {p \in DOMAIN posted : posted[p].of = k} = {} /\ {i \in DOMAIN opened : opened[i] = k} = {}
    BY <2>1
  <2> QED
    BY <2>2, SameCardinality, FS_EmptySet DEF Pushes!MadeOf, Pushes!OpenedFor
<1>5. \A b \in BOOLEAN : 0 <= 0 + Bit(b)
  BY DEF Bit
<1>6. PushOnce
  BY <1>1, <1>4, <1>5 DEF PushOnce, KnowsPage, KnowsOpened
<1> QED
  BY <1>2, <1>3, <1>6 DEF PushInv

LEMMA PushInvNext == PushInv /\ [Pushes!PushNext]_pushVars => PushInv'
<1>1. ASSUME PushInv, UNCHANGED pushVars PROVE PushInv'
  BY <1>1 DEF PushInv, PushTypeOK, PushFits, PushOnce, PostOf, KnowsPage, KnowsOpened,
     Pushes!MadeOf, Pushes!OpenedFor, pushVars
<1>2. ASSUME PushInv, Pushes!PushNext PROVE PushInv'
  BY <1>2, QuietSteps, TelemetryFits, RetroFits, CallFits, MarksFit
     DEF Pushes!PushNext, Pushes!ScanSteps
<1> QED
  BY <1>1, <1>2

LEMMA PushEnough == PushInv => Pushes!PushedOnce
<1> SUFFICES ASSUME PushInv PROVE Pushes!PushedOnce
  OBVIOUS
<1>1. failed \in Nat /\ PushOnce
  BY DEF PushInv, PushTypeOK
<1>2. \A b \in BOOLEAN : Bit(b) \in {0, 1}
  BY DEF Bit
<1>3. ASSUME NEW k \in Subjects PROVE Pushes!MadeOf(k) <= 1 + failed
  <2>1. Pushes!MadeOf(k) \in Nat /\ Pushes!MadeOf(k) <= failed + Bit(KnowsPage(k))
    BY <1>1, PushCountsNat DEF PushInv, PushOnce
  <2>2. Bit(KnowsPage(k)) \in {0, 1}
    BY <1>2 DEF KnowsPage
  <2> QED
    BY <1>1, <2>1, <2>2
<1>4. ASSUME NEW s \in Struggles PROVE Pushes!OpenedFor(s) <= 1 + failed
  <2>1. Pushes!OpenedFor(s) \in Nat /\ Pushes!OpenedFor(s) <= failed + Bit(KnowsOpened(s))
    BY <1>1, PushCountsNat DEF PushInv, PushOnce
  <2>2. Bit(KnowsOpened(s)) \in {0, 1}
    BY <1>2 DEF KnowsOpened
  <2> QED
    BY <1>1, <2>1, <2>2
<1>5. ASSUME NEW k \in Subjects, row[k].page # 0
      PROVE  posted[row[k].page].of = k /\ posted[row[k].page].issue = row[k].issue
  BY <1>1, <1>5 DEF PushOnce, PostOf
<1> QED
  BY <1>3, <1>4, <1>5 DEF Pushes!PushedOnce, Subjects

\* While one part goes on the other one rests, so both invariants hold throughout.
BothInv == ShareInv /\ OnceInv /\ PushInv

LEMMA BothNext == BothInv /\ [MCNext]_<<vars, pushVars, part>> => BothInv'
<1> SUFFICES ASSUME BothInv, [MCNext]_<<vars, pushVars, part>> PROVE BothInv'
  OBVIOUS
<1>1. [Next]_vars /\ [Pushes!PushNext]_pushVars
  BY DEF MCNext
<1>2. ShareInv' /\ OnceInv'
  BY <1>1, OnceNext DEF BothInv
<1>3. PushInv'
  BY <1>1, PushInvNext DEF BothInv
<1> QED
  BY <1>2, <1>3 DEF BothInv

\* Nothing that mates publish in the work hub is published twice: a piece of knowledge, the
\* figures of a day, an issue and the retrospective of a session are there once for each,
\* and once more for each call that failed or quit, whatever the sessions, the
\* administrators and the user's other machine do meanwhile; and what the mate's tables
\* (hub_share_state) mark as published is what they name it after.
THEOREM PublishesOnce == MCSpec => []PublishedOnce
<1>1. MCInit => BothInv
  BY ShareInvInit, OnceInit, PushInvInit DEF MCInit, BothInv
<1>2. BothInv => PublishedOnce
  BY OnceEnough, PushEnough DEF BothInv, PublishedOnce
<1> QED
  BY <1>1, <1>2, BothNext, PTL DEF MCSpec

-----------------------------------------------------------------------------
(* The figures of yesterday.                                               *)

\* Until something fails, the account has joined what it publishes to when it tries again,
\* and there is a space to join before.
CleanFits ==
  /\ "telemetry" \in DOMAIN spaces
  /\ clean /\ push.stage = "join" => spaces["telemetry"] # "none"
  /\ clean /\ push.stage = "resend" => "telemetry" \in account

LEMMA CleanBegins == Pushes!PushInit => CleanFits
BY DEF Pushes!PushInit, CleanFits, Pushes!Resting

\* Neither the account nor the space is lost but with `clean`.
LEMMA MembersStay ==
  ASSUME PushInv, CleanFits, [Pushes!PushNext]_pushVars
  PROVE  /\ "telemetry" \in DOMAIN spaces'
         /\ spaces["telemetry"] # "none" => spaces'["telemetry"] # "none"
         /\ clean' => account \subseteq account'
<1>1. CASE UNCHANGED <<spaces, account>>
  BY <1>1 DEF CleanFits
<1>2. CASE Pushes!Serve
  BY <1>2 DEF CleanFits, Pushes!Serve, Pushes!Registered, Pushes!Created
<1>3. CASE Pushes!TwinSaves
  BY <1>3 DEF CleanFits, Pushes!TwinSaves
<1>4. CASE Pushes!ManageSpace
  BY <1>4 DEF CleanFits, Pushes!ManageSpace
<1>5. CASE Pushes!TelemetryAnswered \/ Pushes!RetroAnswered \/ Pushes!CallFails
  BY <1>1, <1>2, <1>5 DEF Pushes!TelemetryAnswered, Pushes!RetroAnswered, Pushes!CallFails, Pushes!pushHub
<1>6. CASE Pushes!BeginScan \/ Pushes!MarkDay \/ Pushes!TakeRetros \/ Pushes!EndScan
           \/ Pushes!MarkRetroIssue \/ Pushes!MarkRetro
  BY <1>1, <1>6, Zenon DEF Pushes!BeginScan, Pushes!MarkDay, Pushes!TakeRetros, Pushes!EndScan,
     Pushes!MarkRetroIssue, Pushes!MarkRetro, Pushes!pushHub
<1>9. CASE Pushes!WriteRetro \/ Pushes!Refused \/ Pushes!EngineFails \/ Pushes!QuitScan
  BY <1>1, <1>9, Zenon DEF Pushes!WriteRetro, Pushes!Refused, Pushes!EngineFails, Pushes!QuitScan,
     Pushes!pushHub
<1>7. CASE \/ \E s \in Struggles : Pushes!ToolReturns(s) \/ Pushes!Settles(s)
           \/ Pushes!Midnight \/ \E s \in DOMAIN spaces : Pushes!TwinLoads(s)
  BY <1>1, <1>7 DEF Pushes!ToolReturns, Pushes!Settles, Pushes!Midnight, Pushes!TwinLoads, Pushes!pushHub
<1>8. CASE UNCHANGED pushVars
  BY <1>1, <1>8 DEF pushVars
<1> QED
  BY <1>3, <1>4, <1>5, <1>6, <1>7, <1>8, <1>9 DEF Pushes!PushNext, Pushes!ScanSteps

\* Which steps lead to joining, to trying again, and to the retrospectives.
LEMMA WhereSteps ==
  ASSUME PushInv, CleanFits, [Pushes!PushNext]_pushVars
  PROVE  /\ push'.stage = "join" /\ clean' =>
              /\ clean
              /\ \/ push.stage = "join"
                 \/ push.stage = "space" /\ spaces'["telemetry"] = "plain"
         /\ push'.stage = "resend" /\ clean' =>
              /\ clean
              /\ \/ push.stage = "resend"
                 \/ push.stage = "join" /\ "telemetry" \in account'
         /\ push'.stage = "retros" /\ clean' /\ push.stage \notin {"idle", "retros"} =>
              \/ Pushes!MarkDay
              \/ clean /\ Pushes!Refuses /\ push.stage \in {"join", "resend"}
<1>0. push \in PushRecord
  BY DEF PushInv, PushTypeOK
<1> DEFINE Where ==
      /\ push'.stage = "join" /\ clean' =>
           /\ clean
           /\ \/ push.stage = "join"
              \/ push.stage = "space" /\ spaces'["telemetry"] = "plain"
      /\ push'.stage = "resend" /\ clean' =>
           /\ clean
           /\ \/ push.stage = "resend"
              \/ push.stage = "join" /\ "telemetry" \in account'
      /\ push'.stage = "retros" /\ clean' /\ push.stage \notin {"idle", "retros"} =>
           \/ Pushes!MarkDay
           \/ clean /\ Pushes!Refuses /\ push.stage \in {"join", "resend"}
<1>1. CASE clean' = FALSE
  BY <1>1
<1>2. CASE UNCHANGED <<push, clean>>
  BY <1>2
<1>3. CASE push'.stage \notin {"join", "resend", "retros"}
  BY <1>3
<1>4. CASE Pushes!BeginScan
  <2>1. push.stage = "idle" /\ push'.stage \in {"retros", "send", "register"}
    BY <1>4 DEF Pushes!BeginScan, Pushes!Resting
  <2> QED
    BY <2>1
<1>5. CASE Pushes!TelemetryAnswered
  <2>1. /\ push'.stage = Pushes!NextStage[push.stage] /\ push.stage \in DOMAIN Pushes!NextStage
        /\ clean' = clean /\ Pushes!Serve
    BY <1>0, <1>5 DEF Pushes!TelemetryAnswered, PushRecord, Pushes!history
  <2>2. CASE push.stage = "space"
    <3>1. push'.stage = "join" /\ spaces' = [spaces EXCEPT !["telemetry"] = "plain"]
      BY <2>1, <2>2 DEF Pushes!NextStage, Pushes!Serve, Pushes!Created
    <3> QED
      BY <2>1, <2>2, <3>1 DEF CleanFits
  <2>3. CASE push.stage = "join"
    <3>1. push'.stage = "resend" /\ account' = account \cup {"telemetry"}
      BY <2>1, <2>3 DEF Pushes!NextStage, Pushes!Serve, Pushes!Registered
    <3> QED
      BY <2>1, <2>3, <3>1
  <2>4. CASE push.stage \in {"register", "send", "resend"}
    BY <1>3, <2>1, <2>4 DEF Pushes!NextStage
  <2> QED
    BY <2>1, <2>2, <2>3, <2>4 DEF Pushes!NextStage
<1>6. CASE Pushes!MarkDay
  <2>1. push'.stage = "retros"
    BY <1>0, <1>6 DEF Pushes!MarkDay, Pushes!ToRetros, PushRecord
  <2> QED
    BY <1>6, <2>1
<1>7. CASE Pushes!Refused
  <2>1. clean' = clean /\ Pushes!Refuses /\ Pushes!AfterFailure
    BY <1>7 DEF Pushes!Refused, Pushes!history
  <2>2. push.stage \in {"send", "resend", "join", "open", "resolve"}
    BY <2>1 DEF Pushes!Refuses
  <2>3. CASE push.stage \in {"join", "resend"}
    <3>1. push'.stage = "retros"
      BY <1>0, <2>1, <2>3 DEF Pushes!AfterFailure, Pushes!NextStage, Pushes!AfterTelemetryFailure,
                              Pushes!ToRetros, PushRecord
    <3> QED
      BY <2>1, <2>3, <3>1
  <2>4. CASE push.stage = "send"
    <3>1. push'.stage = "space"
      BY <1>0, <2>1, <2>4 DEF Pushes!AfterFailure, Pushes!NextStage, Pushes!AfterTelemetryFailure,
                              Pushes!Goes, PushRecord
    <3> QED
      BY <1>3, <3>1
  <2>5. CASE push.stage \in {"open", "resolve"}
    <3>1. push'.stage = "retro"
      BY <1>0, <2>1, <2>5 DEF Pushes!AfterFailure, Pushes!NextStage, Pushes!AfterRetroFailure,
                              Pushes!NextRetro, PushRecord
    <3> QED
      BY <1>3, <3>1
  <2> QED
    BY <2>2, <2>3, <2>4, <2>5
<1>8. CASE Pushes!TakeRetros
  <2>1. push'.stage \in {"idle", "retro", "register_retro"}
    BY <1>0, <1>8 DEF Pushes!TakeRetros, Pushes!Resting, PushRecord
  <2> QED
    BY <1>3, <2>1
<1>9. CASE Pushes!WriteRetro
  <2>1. PICK s \in push.todo : Writes(s)
    BY <1>9, WritesOne
  <2> HIDE <1>9
  <2>2. push'.stage \in {"resolve", "open"}
    BY <1>0, <2>1 DEF Writes, PushRecord
  <2> QED
    BY <1>3, <2>2
<1>10. CASE Pushes!EndScan \/ Pushes!QuitScan
  <2>1. push'.stage = "idle"
    BY <1>10 DEF Pushes!EndScan, Pushes!QuitScan, Pushes!Resting
  <2> QED
    BY <1>3, <2>1
<1>11. CASE Pushes!EngineFails
  <2>1. push'.stage = "retro"
    BY <1>0, <1>11 DEF Pushes!EngineFails, PushRecord
  <2> QED
    BY <1>3, <2>1
<1>12. CASE Pushes!RetroAnswered \/ Pushes!MarkRetroIssue \/ Pushes!MarkRetro
  <2>1. push'.stage \in {"retro", "mark_issue", "mark_page", "resolve"}
    BY <1>0, <1>12 DEF Pushes!RetroAnswered, Pushes!MarkRetroIssue, Pushes!MarkRetro, Pushes!Goes,
                       Pushes!NextRetro, PushRecord
  <2> QED
    BY <1>3, <2>1
<1>13. CASE Pushes!CallFails \/ Pushes!TwinSaves
  BY <1>1, <1>13 DEF Pushes!CallFails, Pushes!TwinSaves
<1>14. CASE \/ \E s \in Struggles : Pushes!ToolReturns(s) \/ Pushes!Settles(s)
            \/ Pushes!Midnight \/ (\E s \in DOMAIN spaces : Pushes!TwinLoads(s)) \/ Pushes!ManageSpace
  BY <1>2, <1>14 DEF Pushes!ToolReturns, Pushes!Settles, Pushes!Midnight, Pushes!TwinLoads,
     Pushes!ManageSpace, Pushes!history
<1>15. CASE UNCHANGED pushVars
  BY <1>2, <1>15 DEF pushVars
<1> QED
  BY <1>4, <1>5, <1>6, <1>7, <1>8, <1>9, <1>10, <1>11, <1>12, <1>13, <1>14, <1>15
     DEF Pushes!PushNext, Pushes!ScanSteps

LEMMA CleanKeeps ==
  ASSUME PushInv, CleanFits, [Pushes!PushNext]_pushVars
  PROVE  CleanFits'
<1>1. /\ push'.stage = "join" /\ clean' =>
           /\ clean
           /\ \/ push.stage = "join"
              \/ push.stage = "space" /\ spaces'["telemetry"] = "plain"
      /\ push'.stage = "resend" /\ clean' =>
           /\ clean
           /\ \/ push.stage = "resend"
              \/ push.stage = "join" /\ "telemetry" \in account'
  BY WhereSteps
<1>2. /\ "telemetry" \in DOMAIN spaces'
      /\ spaces["telemetry"] # "none" => spaces'["telemetry"] # "none"
      /\ clean' => account \subseteq account'
  BY MembersStay
<1> QED
  BY <1>1, <1>2 DEF CleanFits

\* A scan during which nothing fails leaves the figures of an active yesterday published,
\* also where there is no account, no space and no membership yet (maybe_push_telemetry).
THEOREM YesterdayIsSent == MCSpec => YesterdayGoesOut
<1> DEFINE Sent == push.stage \notin {"idle", "retros"} /\ push'.stage = "retros" /\ clean' =>
                     row'[push.day].page # 0
           Inv == PushInv /\ CleanFits
<1>1. MCInit => Inv
  BY PushInvInit, CleanBegins DEF MCInit
<1>2. [MCNext]_<<vars, pushVars, part>> => [Pushes!PushNext]_pushVars
  BY DEF MCNext
<1>3. Inv /\ [Pushes!PushNext]_pushVars => Inv'
  BY PushInvNext, CleanKeeps
<1>4. [Sent]_pushVars => [Sent]_(Pushes!pushVars)
  <2>1. UNCHANGED pushVars => UNCHANGED Pushes!pushVars
    BY DEF pushVars, Pushes!pushVars, Pushes!pushHub, Pushes!sessionVars, Pushes!mate, Pushes!history
  <2> QED
    BY <2>1, Zenon
<1>5. Inv /\ [Pushes!PushNext]_pushVars => [Sent]_pushVars
  <2> SUFFICES ASSUME PushInv, CleanFits, [Pushes!PushNext]_pushVars,
                      push.stage \notin {"idle", "retros"}, push'.stage = "retros", clean'
               PROVE  row'[push.day].page # 0
    BY Zenon
  <2>1. ~(clean /\ Pushes!Refuses /\ push.stage \in {"join", "resend"})
    BY DEF CleanFits, Pushes!Refuses
  <2>2. Pushes!MarkDay
    BY <2>1, WhereSteps
  <2>3. /\ push.stage = "mark_day" /\ push.day \in Subjects /\ push.page # 0
        /\ row \in [Subjects -> [issue : Nat, page : Nat]]
    BY <2>2 DEF Pushes!MarkDay, PushInv, PushTypeOK, PushFits, TelemetryStages, PostOf, Subjects,
                Pushes!Subjects, Days
  <2> QED
    BY <2>2, <2>3 DEF Pushes!MarkDay
<1> QED
  BY <1>1, <1>2, <1>3, <1>4, <1>5, PTL DEF MCSpec, YesterdayGoesOut, Pushes!YesterdayGoesOut
=============================================================================
