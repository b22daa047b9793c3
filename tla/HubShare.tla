------------------------------ MODULE HubShare ------------------------------
(***************************************************************************)
(* How mates share one piece of knowledge through the work hub: the scan   *)
(* step maybe_share_findings (a-mate/src-tauri/src/pipeline.rs), its        *)
(* table hub_share_state, and the hub's issues, pages and reuse events      *)
(* (a-hub/work/ahub/core/services.py).                                      *)
(*                                                                         *)
(* Every mate has one finding worth sharing, and all findings carry the     *)
(* same marker: the same diagnosis made on several machines, of which one   *)
(* user may own several.  A scan runs in one thread per mate and waits for  *)
(* each answer, but a call can fail before, after or long before the hub    *)
(* carries it out, the hub can stop between the two writes of a handler,    *)
(* and the app can quit between two steps.                                  *)
(***************************************************************************)
EXTENDS Integers, Sequences, FiniteSets, Functions

CONSTANTS
  Mates,
  Users,
  UserOf,        \* the user_id a mate registers with
  SearchLimit,   \* results a search returns (5 in the code)
  MaxFaults,     \* bound on failing calls and quits, over all mates
  MaxWithdrawn   \* bound on pages archived, quarantined or superseded

ASSUME ShareAssumption ==
  /\ IsFiniteSet(Mates)
  /\ UserOf \in [Mates -> Users]
  /\ SearchLimit \in Nat \ {0}
  /\ MaxFaults \in Nat /\ MaxWithdrawn \in Nat

VARIABLES
  issues,     \* hub: the issues, by id; like a page, each knows its mate
  pages,      \* hub: the pages with the marker, by id
  reuses,     \* hub: the reuse events, by id
  late,       \* requests given up that the hub may still carry out
  share,      \* hub_share_state of every mate; 0 is NULL
  scan,       \* where every mate's scan is, and what it holds
  faults,     \* failing calls and quits of every mate
  overlapped  \* history: a search ran while another mate was about to publish

hub == <<issues, pages, reuses>>
vars == <<hub, late, share, scan, faults, overlapped>>

\* A scan between two steps: the next step, the page to cite if any, the issue
\* at hand, and the page that takes care of the finding.
Held ==
  [stage : {"idle", "search", "open", "mark_issue", "cite", "resolve", "mark_published"},
   hit : Nat, issue : Nat, page : Nat]

Idle == [stage |-> "idle", hit |-> 0, issue |-> 0, page |-> 0]

Faults == SumFunction(faults)

Fault(m) == Faults < MaxFaults /\ faults' = [faults EXCEPT ![m] = @ + 1]

-----------------------------------------------------------------------------
(* The hub: what it does with a request.                                   *)

\* n tells the requests that a mate gave up apart.
OpenRequest(m) == [op |-> "open_issue", by |-> m, issue |-> 0, page |-> 0, n |-> 0]

ResolveRequest(m) ==
  [op |-> "resolve_issue", by |-> m, issue |-> scan[m].issue, page |-> 0, n |-> 0]

CiteRequest(m) ==
  [op |-> "cite_knowledge", by |-> m, issue |-> scan[m].issue, page |-> scan[m].hit, n |-> 0]

StatusSet(i, status) == issues' = [issues EXCEPT ![i].status = status]

OpenIssue(r) ==
  /\ r.op = "open_issue"
  /\ issues' = Append(issues, [by |-> r.by, status |-> "open"])
  /\ UNCHANGED <<pages, reuses>>

\* Nothing asks whether the issue is resolved already.
ResolveIssue(r) ==
  /\ r.op = "resolve_issue"
  /\ StatusSet(r.issue, "resolved")
  /\ pages' = Append(pages, [by |-> r.by, issue |-> r.issue, active |-> TRUE])
  /\ UNCHANGED reuses

AddReuse(r) ==
  /\ r.op = "cite_knowledge"
  /\ pages[r.page].active
  /\ reuses' = Append(reuses, [issue |-> r.issue, page |-> r.page, by |-> r.by])
  /\ UNCHANGED pages

CiteKnowledge(r) == AddReuse(r) /\ StatusSet(r.issue, "knowledge_linked")

Serve(r) == OpenIssue(r) \/ ResolveIssue(r) \/ CiteKnowledge(r)

\* The hub stops after the first of two writes: the issue is resolved without a
\* page, or the event is stored and the issue left as it was.
ServeHalf(r) ==
  \/ r.op = "resolve_issue" /\ StatusSet(r.issue, "resolved") /\ UNCHANGED <<pages, reuses>>
  \/ AddReuse(r) /\ UNCHANGED issues

\* The hub carries out a request whose sender has long gone.
ServeLate(r) ==
  /\ r \in late
  /\ late' = late \ {r}
  /\ Serve(r)
  /\ UNCHANGED <<share, scan, faults, overlapped>>

\* A page is archived, quarantined or superseded.
Withdraw(p) ==
  /\ pages[p].active
  /\ Cardinality({q \in DOMAIN pages : ~pages[q].active}) < MaxWithdrawn
  /\ pages' = [pages EXCEPT ![p].active = FALSE]
  /\ UNCHANGED <<issues, reuses, late, share, scan, faults, overlapped>>

-----------------------------------------------------------------------------
(* The scan.                                                               *)

Goes(m, stage) == scan' = [scan EXCEPT ![m].stage = stage]

Ends(m) == scan' = [scan EXCEPT ![m] = Idle]

\* Faulty: a published finding is resumed too.
PendingForever(m) == share[m].issue # 0

\* Faulty: page_id = NULL, which no row satisfies.
PendingEqualsNull(m) == FALSE

\* hub_share_pending: an issue was opened, nothing published.
Pending(m) == share[m].issue # 0 /\ share[m].page = 0

\* Not among hub_shared_or_pending_keys.
Unshared(m) == share[m].issue = 0 /\ share[m].page = 0

ResumeScan(m) ==
  /\ scan[m].stage = "idle" /\ Pending(m)
  /\ scan' = [scan EXCEPT ![m] = [Idle EXCEPT !.stage = "resolve", !.issue = share[m].issue]]
  /\ UNCHANGED <<hub, late, share, faults, overlapped>>

NewScan(m) ==
  /\ scan[m].stage = "idle" /\ Unshared(m)
  /\ Goes(m, "search")
  /\ UNCHANGED <<hub, late, share, faults, overlapped>>

\* search_knowledge: the first active pages.
Results ==
  LET active == {p \in DOMAIN pages : pages[p].active}
  IN  {p \in active : Cardinality({q \in active : q < p}) < SearchLimit}

\* Results by other users.
Citable(m) == {p \in Results : UserOf[pages[p].by] # UserOf[m]}

\* pick_citable: the first of them.
PickCitable(m) ==
  IF Citable(m) = {} THEN 0 ELSE CHOOSE p \in Citable(m) : \A q \in Citable(m) : p <= q

\* Mate n found nothing to cite and is about to publish.
Publishing(n) == scan[n].stage \in {"open", "mark_issue", "resolve"} /\ scan[n].hit = 0

Search(m) ==
  /\ scan[m].stage = "search"
  /\ scan' = [scan EXCEPT ![m].stage = "open", ![m].hit = PickCitable(m)]
  /\ overlapped' = (overlapped \/ \E n \in Mates \ {m} : Publishing(n))
  /\ UNCHANGED <<hub, late, share, faults>>

\* A failed search counts as one without results.
SearchFails(m) ==
  /\ scan[m].stage = "search"
  /\ Fault(m)
  /\ Goes(m, "open")
  /\ UNCHANGED <<hub, late, share, overlapped>>

CallOpenIssue(m) ==
  /\ scan[m].stage = "open"
  /\ OpenIssue(OpenRequest(m))
  /\ scan' = [scan EXCEPT ![m].stage = "mark_issue", ![m].issue = Len(issues')]
  /\ UNCHANGED <<late, share, faults, overlapped>>

\* Faulty: the page found is forgotten.
MarkIssueAndPublish(m) ==
  /\ scan[m].stage = "mark_issue"
  /\ share' = [share EXCEPT ![m].issue = scan[m].issue]
  /\ Goes(m, "resolve")
  /\ UNCHANGED <<hub, late, faults, overlapped>>

\* hub_mark_issue.
MarkIssue(m) ==
  /\ scan[m].stage = "mark_issue"
  /\ share' = [share EXCEPT ![m].issue = scan[m].issue]
  /\ Goes(m, IF scan[m].hit # 0 THEN "cite" ELSE "resolve")
  /\ UNCHANGED <<hub, late, faults, overlapped>>

CallResolveIssue(m) ==
  /\ scan[m].stage = "resolve"
  /\ ResolveIssue(ResolveRequest(m))
  /\ scan' = [scan EXCEPT ![m].stage = "mark_published", ![m].page = Len(pages')]
  /\ UNCHANGED <<late, share, faults, overlapped>>

CallCite(m) ==
  /\ scan[m].stage = "cite"
  /\ CiteKnowledge(CiteRequest(m))
  /\ scan' = [scan EXCEPT ![m].stage = "mark_published", ![m].page = scan[m].hit]
  /\ UNCHANGED <<late, share, faults, overlapped>>

\* The page found was withdrawn: the hub refuses, the next scan publishes.
CiteRefused(m) ==
  /\ scan[m].stage = "cite"
  /\ ~pages[scan[m].hit].active
  /\ Ends(m)
  /\ UNCHANGED <<hub, late, share, faults, overlapped>>

\* hub_mark_published.
MarkPublished(m) ==
  /\ scan[m].stage = "mark_published"
  /\ share' = [share EXCEPT ![m].page = scan[m].page]
  /\ Ends(m)
  /\ UNCHANGED <<hub, late, faults, overlapped>>

\* Call r fails for mate m.  The hub never sees it, or serves it and the answer
\* is lost, or serves half of it, or will serve it after the time-out.
Fails(m, r) ==
  /\ Fault(m)
  /\ Ends(m)
  /\ \/ UNCHANGED <<hub, late>>
     \/ Serve(r) /\ UNCHANGED late
     \/ ServeHalf(r) /\ UNCHANGED late
     \/ late' = late \cup {[r EXCEPT !.n = faults[m] + 1]} /\ UNCHANGED hub
  /\ UNCHANGED <<share, overlapped>>

CallFails(m) ==
  \/ scan[m].stage = "open" /\ Fails(m, OpenRequest(m))
  \/ scan[m].stage = "resolve" /\ Fails(m, ResolveRequest(m))
  \/ scan[m].stage = "cite" /\ Fails(m, CiteRequest(m))

\* The app quits in the middle of a scan.
Quit(m) ==
  /\ scan[m].stage # "idle"
  /\ Fault(m)
  /\ Ends(m)
  /\ UNCHANGED <<hub, late, share, overlapped>>

-----------------------------------------------------------------------------
Init ==
  /\ issues = <<>> /\ pages = <<>> /\ reuses = <<>>
  /\ late = {}
  /\ share = [m \in Mates |-> [issue |-> 0, page |-> 0]]
  /\ scan = [m \in Mates |-> Idle]
  /\ faults = [m \in Mates |-> 0]
  /\ overlapped = FALSE

\* maybe_share_findings when all goes well.
Step(m) ==
  \/ ResumeScan(m) \/ NewScan(m) \/ Search(m) \/ CallOpenIssue(m) \/ MarkIssue(m)
  \/ CallResolveIssue(m) \/ CallCite(m) \/ CiteRefused(m) \/ MarkPublished(m)

Next ==
  \/ \E m \in Mates : Step(m) \/ SearchFails(m) \/ CallFails(m) \/ Quit(m)
  \/ \E r \in late : ServeLate(r)
  \/ \E p \in DOMAIN pages : Withdraw(p)

Spec == Init /\ [][Next]_vars

\* Mates are used, so their scans run and go on.
FairSpec == Spec /\ \A m \in Mates : WF_vars(Step(m))

-----------------------------------------------------------------------------
(* Properties.                                                             *)

Request ==
  [op : {"open_issue", "resolve_issue", "cite_knowledge"}, by : Mates, issue : Nat,
   page : Nat, n : Nat]

TypeOK ==
  /\ issues \in Seq([by : Mates, status : {"open", "resolved", "knowledge_linked"}])
  /\ pages \in Seq([by : Mates, issue : DOMAIN issues, active : BOOLEAN])
  /\ reuses \in Seq([issue : DOMAIN issues, page : DOMAIN pages, by : Mates])
  /\ late \subseteq Request
  /\ share \in [Mates -> [issue : 0 .. Len(issues), page : 0 .. Len(pages)]]
  /\ scan \in [Mates -> Held]
  /\ faults \in [Mates -> Nat]
  /\ overlapped \in BOOLEAN

By(m, seq) == Cardinality({i \in DOMAIN seq : seq[i].by = m})

\* A mate deals with its finding once in its life, by a page or by a citation;
\* it takes a failing call or a quit for it to do more, one each.
OncePerLifetime == \A m \in Mates : By(m, pages) + By(m, reuses) <= 1 + faults[m]

\* The same of the issues it opens.
OneIssueEach == \A m \in Mates : By(m, issues) <= 1 + faults[m]

\* What a mate marks as dealt with is: the marked page came out of the marked
\* issue, or is cited by it.
MarkedMeansDone ==
  \A m \in Mates : share[m].page # 0 =>
    \/ pages[share[m].page].by = m /\ pages[share[m].page].issue = share[m].issue
    \/ \E e \in DOMAIN reuses :
         reuses[e] = [issue |-> share[m].issue, page |-> share[m].page, by |-> m]

\* Through lost answers, late calls and quits a mate makes of its finding one
\* issue and one page or citation, and remembers what it made.
SharedOnce == OncePerLifetime /\ OneIssueEach /\ MarkedMeansDone

\* A user's citations are of other users' pages.
NoSelfCitation ==
  \A e \in DOMAIN reuses : UserOf[reuses[e].by] # UserOf[pages[reuses[e].page].by]

\* The search keeps two users from publishing the same thing, as long as calls
\* succeed, pages stay, and no search runs while another mate is publishing.
OnePageUnlessOverlapped ==
  ((\A m \in Mates : faults[m] = 0) /\ ~overlapped /\ \A p \in DOMAIN pages : pages[p].active) =>
    \A p, q \in DOMAIN pages : UserOf[pages[p].by] = UserOf[pages[q].by]

\* Who comes second cites another user's page instead of repeating it.
KnowledgeIsShared == NoSelfCitation /\ OnePageUnlessOverlapped

\* Whatever fails on the way, every finding is dealt with in the end, for good.
EventuallyShared == \A m \in Mates : <>[](share[m].page # 0)
=============================================================================
