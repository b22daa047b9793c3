----------------------------- MODULE FindingRows -----------------------------
(***************************************************************************)
(* A row of the coaching table `findings` and the statements that change   *)
(* it (a-mate/crates/core/src/store.rs).  A row is keyed by its dedup_key; *)
(* here a table is a function from keys to rows, and a key without a row   *)
(* maps to Absent.  Wording, severity, savings, first_seen and last_seen   *)
(* are left out.                                                           *)
(***************************************************************************)
EXTENDS Integers

CONSTANT MaxAttempts  \* failed judgments after which a candidate is rejected (3)

ASSUME AttemptsAssumption == MaxAttempts \in Nat \ {0}

Unset == -1  \* status_evidence_n IS NULL

Status == {"absent", "pending", "new", "confirmed", "rejected", "resolved", "dismissed"}

Row(About) ==
  [status : Status,
   attempts : 0 .. MaxAttempts,  \* judgment_json.attempts
   n : Nat,                      \* the number the card shows (recurrence_evidence_n)
   base : Nat \cup {Unset},      \* status_evidence_n, the number when it was resolved
   about : About]                \* the rest of evidence_json that the rules read back

Absent == [status |-> "absent", attempts |-> 0, n |-> 0, base |-> Unset, about |-> {}]

Inserted(init, n, about) ==
  [status |-> init, attempts |-> 0, n |-> n, base |-> Unset, about |-> about]

\* Recurrence: a resolved card returns when its number exceeds the baseline.
Revived(row, n) ==
  IF row.status = "resolved" /\ row.base # Unset /\ n > row.base
    THEN [row EXCEPT !.status = "new", !.base = Unset]
    ELSE row

\* upsert_finding: the status of an existing row is kept, its evidence replaced.
Upserted(row, init, n, about) ==
  IF row.status = "absent"
    THEN Inserted(init, n, about)
    ELSE [Revived(row, n) EXCEPT !.n = n, !.about = about]

\* set_finding_status: resolving takes a snapshot of the number, anything else clears it.
Disposed(row, status) ==
  [row EXCEPT !.status = status,
              !.base = IF status = "resolved" THEN row.n ELSE Unset]

\* A judgment that failed (no material, or an answer without a verdict).
FailedTry(row, attempts) ==
  [row EXCEPT !.attempts = attempts,
              !.status = IF attempts >= MaxAttempts THEN "rejected" ELSE @]

\* set_judgment: an UPDATE by key, so a row that is gone stays gone.
Judged(row, verdict, attempts) ==
  IF row.status = "absent" THEN row
  ELSE IF verdict = "malformed" THEN FailedTry(row, attempts)
  ELSE [row EXCEPT !.status = verdict, !.attempts = attempts]

\* pending_for_judgment
Judgeable(row) == row.status = "pending" /\ row.attempts < MaxAttempts
=============================================================================
