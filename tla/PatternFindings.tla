--------------------------- MODULE PatternFindings ---------------------------
(***************************************************************************)
(* Rule R6 of the coach, "repeated prompts": mining, judging by an LLM, and *)
(* the user's dispositions                                                  *)
(* (a-mate/crates/core/src/{ops,store,judge}.rs, rules/r6_*.rs,             *)
(* a-mate/src-tauri/src/{pipeline,commands}.rs).                            *)
(*                                                                         *)
(* A scan clusters the normalised prompts of the last 14 days and upserts  *)
(* one candidate per cluster, keyed by the cluster's least member; then    *)
(* the same thread takes the pending candidates, asks an LLM about each    *)
(* with the store unlocked, and stores the verdicts.  The user's commands  *)
(* take the store whenever it is free, so also while the LLM is thinking.  *)
(* A quit, or a store that cannot be locked, drops the pass.               *)
(***************************************************************************)
EXTENDS FindingRows, FiniteSets

CONSTANTS
  N,          \* number of normalised prompts, in lexicographic order
  Similar,    \* pairs of prompts whose similarity reaches cluster_threshold
  MaxCount,   \* bound on the sessions a pattern occurs in
  BatchLimit, \* candidates judged per pass (10)
  Legacy      \* keys resolved before baselines existed

Norms == 1 .. N

ASSUME PatternAssumption ==
  /\ N \in Nat
  /\ Similar \subseteq Norms \X Norms
  /\ MaxCount \in Nat \ {0}
  /\ BatchLimit \in Nat \ {0}
  /\ Legacy \subseteq Norms

VARIABLES
  rows,      \* the R6 rows of `findings`, by the anchor of their key
  phase,     \* the scan thread: "idle", "scanned", "asking"
  asked,     \* for a candidate out with the LLM the number of the attempt, else 0
  approved,  \* history: rows with a verdict "worthy"
  accepted,  \* history: for a resolved card, the number it showed when resolved
  silenced   \* history: for a dismissed card, the prompts it showed when dismissed

history == <<approved, accepted, silenced>>
vars == <<rows, phase, asked, history>>

-----------------------------------------------------------------------------
(* Mining.                                                                 *)

\* cluster_norms: the connected components of the prompts P that were seen.
Closed(S, P) == \A m \in S, k \in P : <<m, k>> \in Similar \/ <<k, m>> \in Similar => k \in S

ClusterOf(m, P) == {k \in P : \A S \in SUBSET P : m \in S /\ Closed(S, P) => k \in S}

Clusters == [P \in SUBSET Norms |-> {ClusterOf(m, P) : m \in P}]

Anchor(C) == CHOOSE m \in C : \A k \in C : m <= k

\* dismissed_r6_member_norms
DismissedNorms == UNION {rows[k].about : k \in {i \in Norms : rows[i].status = "dismissed"}}

\* is_dismiss_suppressed
Suppressed(C, S) == 2 * Cardinality(C \cap S) >= Cardinality(C)

\* R6RepeatedPrompts::evaluate, when the prompts P occur in the window.  The
\* clusters below both thresholds are left out of P, which changes no other
\* cluster because clusters are components.
Emitted(P) ==
  LET dismissed == DismissedNorms
  IN  {C \in Clusters[P] : ~Suppressed(C, dismissed)}

\* Faulty: candidates are inserted as cards, before any verdict.
UpsertsShown(emitted, count) ==
  [k \in Norms |->
     IF \E C \in emitted : Anchor(C) = k
       THEN LET C == CHOOSE D \in emitted : Anchor(D) = k
            IN  Upserted(rows[k], "new", count[C], C)
       ELSE rows[k]]

\* run_rules, the upserts (one transaction); count is session_count.
Upserts(emitted, count) ==
  [k \in Norms |->
     IF \E C \in emitted : Anchor(C) = k
       THEN LET C == CHOOSE D \in emitted : Anchor(D) = k
            IN  Upserted(rows[k], "pending", count[C], C)
       ELSE rows[k]]

\* Faulty: the pruning takes rejected candidates too.
PrunedWithRejected(table, emitted) ==
  [k \in Norms |->
     IF /\ ~\E C \in emitted : Anchor(C) = k
        /\ table[k].status \in {"new", "pending", "rejected"}
       THEN Absent
       ELSE table[k]]

\* prune_stale_r6_patterns: active rows that this scan did not emit go.
Pruned(table, emitted) ==
  [k \in Norms |->
     IF /\ ~\E C \in emitted : Anchor(C) = k
        /\ table[k].status \in {"new", "pending"}
       THEN Absent
       ELSE table[k]]

Gone(table) == {k \in Norms : table[k].status = "absent"}

Scan(P, count) ==
  /\ phase = "idle"
  /\ phase' = "scanned"
  /\ LET emitted == Emitted(P)
     IN  rows' = Pruned(Upserts(emitted, count), emitted)
  /\ approved' = approved \ Gone(rows')
  /\ UNCHANGED <<asked, accepted, silenced>>

\* The scan stops after the transaction and before the pruning.
ScanCut(P, count) ==
  /\ phase = "idle"
  /\ LET emitted == Emitted(P) IN rows' = Upserts(emitted, count)
  /\ UNCHANGED <<phase, asked, history>>

-----------------------------------------------------------------------------
(* The judging pass: run_coaching_judgments.                               *)

\* The candidates of one pass.  All were emitted by the same scan, so "most
\* recent first" does not order them.
Batches ==
  LET pending == {k \in Norms : Judgeable(rows[k])}
  IN  {B \in SUBSET pending :
         Cardinality(B) = IF Cardinality(pending) < BatchLimit
                            THEN Cardinality(pending) ELSE BatchLimit}

\* Under the lock: take the candidates and build their prompts; those whose
\* material cannot be read (Failing) count as a failed attempt.
TakeBatch(B, Failing) ==
  /\ phase = "scanned"
  /\ phase' = "asking"
  /\ B \in Batches
  /\ Failing \subseteq B
  /\ asked' = [k \in Norms |-> IF k \in B \ Failing THEN rows[k].attempts + 1 ELSE 0]
  /\ rows' = [k \in Norms |-> IF k \in Failing
                                THEN FailedTry(rows[k], rows[k].attempts + 1)
                                ELSE rows[k]]
  /\ UNCHANGED history

\* "lost" is a call that failed in transport, or a verdict not stored because
\* the program stopped: the candidate keeps its attempts.
Answer == {"new", "rejected", "malformed", "lost"}

Out == {k \in Norms : asked[k] > 0}

\* Faulty: an answer without a verdict is not counted.
StoredUncounted(answer) ==
  [k \in Norms |->
     IF k \in Out /\ answer[k] # "lost"
       THEN Judged(rows[k], answer[k],
                   IF answer[k] = "malformed" THEN asked[k] - 1 ELSE asked[k])
       ELSE rows[k]]

Stored(answer) ==
  [k \in Norms |-> IF k \in Out /\ answer[k] # "lost"
                     THEN Judged(rows[k], answer[k], asked[k])
                     ELSE rows[k]]

\* Under the lock again: the verdicts.
StoreVerdicts(answer) ==
  /\ phase = "asking"
  /\ phase' = "idle"
  /\ rows' = Stored(answer)
  /\ asked' = [k \in Norms |-> 0]
  /\ approved' = approved \cup {k \in Out : rows'[k].status = "new"}
  /\ UNCHANGED <<accepted, silenced>>

\* No engine is configured, the lock is poisoned, or the program restarts.
PassDropped ==
  /\ phase # "idle"
  /\ phase' = "idle"
  /\ asked' = [k \in Norms |-> 0]
  /\ UNCHANGED <<rows, history>>

-----------------------------------------------------------------------------
(* The user: the command set_finding_status from a card (Dispose) or from  *)
(* the list of disposed cards (Undo).                                      *)

Dispose(k, status) ==
  /\ rows[k].status = "new"
  /\ rows' = [rows EXCEPT ![k] = Disposed(@, status)]
  /\ accepted' = [accepted EXCEPT ![k] = IF status = "resolved" THEN rows[k].n ELSE 0]
  /\ silenced' = [silenced EXCEPT ![k] = IF status = "dismissed" THEN rows[k].about ELSE {}]
  /\ UNCHANGED <<phase, asked, approved>>

Undo(k) ==
  /\ rows[k].status \in {"resolved", "dismissed"}
  /\ rows' = [rows EXCEPT ![k] = Disposed(@, "new")]
  /\ accepted' = [accepted EXCEPT ![k] = 0]
  /\ silenced' = [silenced EXCEPT ![k] = {}]
  /\ UNCHANGED <<phase, asked, approved>>

-----------------------------------------------------------------------------
Init ==
  /\ rows = [k \in Norms |-> IF k \in Legacy THEN [Inserted("resolved", 1, {k}) EXCEPT !.base = Unset]
                                             ELSE Absent]
  /\ phase = "idle"
  /\ asked = [k \in Norms |-> 0]
  /\ approved = Legacy
  /\ accepted = [k \in Norms |-> 0]
  /\ silenced = [k \in Norms |-> {}]

Scans == \E P \in SUBSET Norms : \E count \in [Clusters[P] -> 1 .. MaxCount] : Scan(P, count)

Takes == \E B \in SUBSET Norms : \E F \in SUBSET B : TakeBatch(B, F)

\* An answer for every candidate, of whatever form.
Answers == \E answer \in [Out -> Answer \ {"lost"}] : StoreVerdicts(answer)

Next ==
  \/ Scans
  \/ \E P \in SUBSET Norms : \E count \in [Clusters[P] -> 1 .. MaxCount] : ScanCut(P, count)
  \/ Takes
  \/ \E answer \in [Out -> Answer] : StoreVerdicts(answer)
  \/ PassDropped
  \/ \E k \in Norms : \E status \in {"resolved", "dismissed"} : Dispose(k, status)
  \/ \E k \in Norms : Undo(k)

Spec == Init /\ [][Next]_vars

\* The app keeps scanning, an engine is configured again and again, and it
\* answers (sensibly or not) again and again.
FairSpec == Spec /\ WF_vars(Scans) /\ SF_vars(Takes) /\ SF_vars(Answers)

-----------------------------------------------------------------------------
(* Properties.                                                             *)

TypeOK ==
  /\ rows \in [Norms -> Row(SUBSET Norms)]
  /\ phase \in {"idle", "scanned", "asking"}
  /\ asked \in [Norms -> 0 .. MaxAttempts]
  /\ approved \subseteq Norms
  /\ accepted \in [Norms -> Nat]
  /\ silenced \in [Norms -> SUBSET Norms]

\* A candidate waiting for its verdict can still be taken: none is left behind
\* pending with its attempts used up, where neither the judge nor the user
\* would ever see it again.
PendingCanBeTaken == \A k \in Norms : rows[k].status = "pending" => Judgeable(rows[k])

\* The user is only ever shown (now or in the list of disposed cards) a
\* pattern that the judge called worthy: a row that is dropped and mined again
\* starts over as a candidate.
ShownWasApproved ==
  \A k \in Norms : rows[k].status \in {"new", "resolved", "dismissed"} => k \in approved

\* "No" is remembered: a rejected candidate is not mined, judged or shown
\* again, through any number of scans in which its pattern comes and goes.
RejectedForGood ==
  [][\A k \in Norms : rows[k].status = "rejected" => rows'[k].status = "rejected"]_vars

\* The scan, the pruning and late verdicts leave a dismissed card dismissed.
DismissedUntilUndone ==
  [][\A k \in Norms : rows[k].status = "dismissed" =>
        rows'[k].status = "dismissed" \/ Undo(k)]_vars

\* A resolved card comes back, other than by an undo, only with more sessions
\* than the card showed when the user resolved it, however the count moved in
\* between; one resolved before baselines existed does not come back.
ResolvedUntilMore ==
  [][\A k \in Norms : rows[k].status = "resolved" =>
        \/ rows'[k].status = "resolved"
        \/ Undo(k)
        \/ rows[k].base # Unset /\ rows'[k].n > accepted[k]]_vars

\* What the judge and the user decided holds, through scans that lose and find the
\* pattern, late verdicts and growing counts.
DecisionsHold == RejectedForGood /\ DismissedUntilUndone /\ ResolvedUntilMore

\* Every candidate gets its verdict (or its pattern goes away).
EventuallyJudged == \A k \in Norms : []<>(rows[k].status # "pending")

\* The design's rule: a disposition sticks to the content, not to the key.  No
\* scan leaves a card shown at least half of which is prompts on cards the user
\* dismissed (as those cards were when dismissed).
Silenced == UNION {silenced[k] : k \in {i \in Norms : rows[i].status = "dismissed"}}

DismissedContentStaysSilent ==
  [][phase = "idle" /\ phase' = "scanned" =>
        \A k \in Norms : rows'[k].status = "new" => ~Suppressed(rows'[k].about, Silenced)]_vars
=============================================================================
