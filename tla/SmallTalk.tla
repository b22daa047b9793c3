------------------------------ MODULE SmallTalk ------------------------------
(***************************************************************************)
(* What the mascot says between times (a-mate/crates/core/src/mascot.rs;   *)
(* maybe_generate_chatter_pool; Mascot.svelte's timer): a pool of lines    *)
(* for the day, asked of the engine when the fingerprint of the day's      *)
(* facts has changed.  Facts and cached fingerprint are read under the     *)
(* lock, the engine is asked without it, the pool is stored under it       *)
(* again; meanwhile the owner changes name, type and findings.             *)
(***************************************************************************)
EXTENDS SequencesExt

CONSTANTS
  Findings,   \* the findings there can be
  Drafts,     \* what the engine can answer: sequences of lines, lines of letters
  PoolSize,   \* CHATTER_POOL_SIZE
  LastDay,
  MaxScans,   \* bounds on the scans,
  MaxWhims    \* and on what the owner does

VARIABLES
  facts,   \* what a prompt is written from
  today,
  pool,    \* the rows of chatter_pool: day -> lines, the facts they were made from, fingerprint
  pass,    \* the scan's pass over the pool
  spoken,  \* history: the last lines the timer took, and the facts at that moment
  scans, whims

talkVars == <<facts, today, pool, pass, spoken, scans, whims>>

Characters == UNION {UNION {Range(l) : l \in Range(d)} : d \in Drafts}

TalkAssumption ==
  /\ PoolSize \in Nat \ {0} /\ LastDay \in Nat /\ IsFiniteSet(Findings)
  /\ Drafts \subseteq Seq(Seq(Characters))

Persona == {"plain", "changed"}
Facts == [busy : BOOLEAN, findings : SUBSET Findings, long : BOOLEAN, persona : Persona]
Quiet(f) == ~f.busy

NoPool == [lines |-> <<>>, made |-> <<>>, print |-> <<>>]
Resting == [pc |-> "rest"]
Silence == [made |-> <<>>, at |-> <<>>]

-----------------------------------------------------------------------------
\* facts_fingerprint: how many findings there are and not which; neither the tokens
\* they would save nor the hours worked.
FingerprintOf(f) == <<f.busy, Cardinality(f.findings), f.persona>>

\* build_chatter_prompt, comic_directives: the facts, and the long day when there is one.
PromptOf(f) == f

Blank(c) == c = " "
TrimLine(l) ==
  LET kept == {i \in DOMAIN l : ~Blank(l[i])}
  IN IF kept = {} THEN <<>>
     ELSE SubSeq(l, CHOOSE i \in kept : \A j \in kept : i <= j,
                    CHOOSE i \in kept : \A j \in kept : i >= j)

\* strip_prefix("- "), strip_leading_number ("1. "): one of each, in this order.
Unbulleted(l) == IF Len(l) >= 2 /\ l[1] = "-" /\ l[2] = " " THEN Tail(Tail(l)) ELSE l
Unnumbered(l) == IF Len(l) >= 2 /\ l[1] = "1." /\ l[2] = " " THEN Tail(Tail(l)) ELSE l
Unquoted(l) == IF Len(l) >= 2 /\ Head(l) = "q" /\ Last(l) = "q"
               THEN TrimLine(Tail(Front(l))) ELSE l

Kept(lines, l) == IF l = <<>> THEN lines ELSE Append(lines, l)

\* parse_chatter_lines: empty lines go, and only the first PoolSize stay.
ParseLines(draft) ==
  LET stripped == [i \in DOMAIN draft |->
                     TrimLine(Unquoted(TrimLine(Unnumbered(Unbulleted(TrimLine(draft[i]))))))]
      lines == FoldLeft(Kept, <<>>, stripped)
  IN SubSeq(lines, 1, IF Len(lines) < PoolSize THEN Len(lines) ELSE PoolSize)

-----------------------------------------------------------------------------
\* A scan that has ingested goes on to the pool; an engine is set.
Scanned ==
  /\ pass.pc = "rest" /\ scans < MaxScans /\ scans' = scans + 1
  /\ \E f \in Facts : f.persona = facts.persona /\ (facts.busy => f.busy) /\ facts' = f
  /\ pass' = [pc |-> "read", day |-> today]
  /\ UNCHANGED <<today, pool, spoken, whims>>

\* compute_chatter_pool: nothing when the fingerprint is the cached one; an empty pool,
\* without asking the engine, for a day without sessions.
ReadFacts ==
  /\ pass.pc = "read"
  /\ pass' = IF pool[pass.day].print = FingerprintOf(facts) THEN Resting
             ELSE [pc |-> IF Quiet(facts) THEN "store" ELSE "ask",
                   day |-> pass.day, facts |-> facts, lines |-> <<>>]
  /\ UNCHANGED <<facts, today, pool, spoken, scans, whims>>

EngineTalks ==
  /\ pass.pc = "ask"
  /\ \E d \in Drafts : pass' = [pass EXCEPT !.pc = "store", !.lines = ParseLines(d)]
  /\ UNCHANGED <<facts, today, pool, spoken, scans, whims>>

EngineFails ==
  /\ pass.pc = "ask" /\ pass' = Resting
  /\ UNCHANGED <<facts, today, pool, spoken, scans, whims>>

\* Faulty: the row gets the fingerprint of the moment it is stored.
StorePoolAsOfNow ==
  /\ pass.pc = "store"
  /\ pool' = [pool EXCEPT ![pass.day] =
               [lines |-> pass.lines, made |-> PromptOf(pass.facts), print |-> FingerprintOf(facts)]]
  /\ pass' = Resting
  /\ UNCHANGED <<facts, today, spoken, scans, whims>>
\* upsert_chatter_pool
StorePool ==
  /\ pass.pc = "store"
  /\ pool' = [pool EXCEPT ![pass.day] =
               [lines |-> pass.lines, made |-> PromptOf(pass.facts),
                print |-> FingerprintOf(pass.facts)]]
  /\ pass' = Resting
  /\ UNCHANGED <<facts, today, spoken, scans, whims>>

\* The timer: chatter_pool_inner hides a pool whose fingerprint is not that of the
\* facts; the front end then says one of its own lines.
Speak ==
  LET row == pool[today]
      lines == IF row.print = FingerprintOf(facts) THEN row.lines ELSE <<>>
  IN /\ spoken' = IF lines = <<>> THEN Silence ELSE [made |-> row.made, at |-> facts]
     /\ UNCHANGED <<facts, today, pool, pass, scans, whims>>

\* Another name for the owner or another type; a finding dismissed.
Whim ==
  /\ whims < MaxWhims /\ whims' = whims + 1
  /\ \/ \E p \in Persona : facts' = [facts EXCEPT !.persona = p]
     \/ \E x \in facts.findings : facts' = [facts EXCEPT !.findings = @ \ {x}]
  /\ UNCHANGED <<today, pool, pass, spoken, scans>>

Midnight ==
  /\ today < LastDay /\ today' = today + 1
  /\ facts' = [facts EXCEPT !.busy = FALSE, !.long = FALSE]
  /\ UNCHANGED <<pool, pass, spoken, scans, whims>>

QuitTalk ==
  /\ pass.pc # "rest" /\ pass' = Resting
  /\ spoken' = Silence
  /\ UNCHANGED <<facts, today, pool, scans, whims>>

TalkInit ==
  /\ facts = [busy |-> FALSE, findings |-> {}, long |-> FALSE, persona |-> "plain"]
  /\ today = 0
  /\ pool = [d \in 0 .. LastDay |-> NoPool]
  /\ pass = Resting /\ spoken = Silence
  /\ scans = 0 /\ whims = 0

TalkNext ==
  \/ Scanned \/ ReadFacts \/ EngineTalks \/ EngineFails \/ StorePool
  \/ Speak \/ Whim \/ Midnight \/ QuitTalk

TalkSpec == TalkInit /\ [][TalkNext]_talkVars

-----------------------------------------------------------------------------
TalkTypeOK ==
  /\ facts \in Facts /\ today \in 0 .. LastDay
  /\ pass.pc \in {"rest", "read", "ask", "store"}

\* What is said was written from a day as busy, with as many findings and for an owner
\* called and typed as at the moment it is said, whatever the owner did while the
\* engine wrote (facts_fingerprint, chatter_pool_inner, maybe_generate_chatter_pool).
SaysOfNow ==
  spoken # Silence =>
    /\ spoken.made.persona = spoken.at.persona
    /\ spoken.made.busy = spoken.at.busy
    /\ Cardinality(spoken.made.findings) = Cardinality(spoken.at.findings)

\* No line of a pool is empty or has blanks at its ends, and none is kept beyond the
\* pool's size, however the engine laid its answer out (parse_chatter_lines).
LinesClean ==
  \A d \in 0 .. LastDay :
    /\ Len(pool[d].lines) <= PoolSize
    /\ \A i \in DOMAIN pool[d].lines :
         LET l == pool[d].lines[i] IN l # <<>> /\ Head(l) # " " /\ Last(l) # " "

TalkFits == SaysOfNow /\ LinesClean
=============================================================================
