----------------------------- MODULE CoachProofs -----------------------------
(***************************************************************************)
(* For every value of the constants: advice on plugins fits what the scan  *)
(* could read, and what the user decided about a project's card outlives   *)
(* the roll-ups.                                                           *)
(***************************************************************************)
EXTENDS MCCoach, FiniteSetTheorems, TLAPS

-----------------------------------------------------------------------------
(* Advice on plugins.                                                      *)

Machine ==
  [plugin : [Plugins -> Advice!Presence], own : SUBSET Served]

AdviceTypeOK ==
  /\ machine \in Machine
  /\ \A p \in Plugins : machine.plugin[p] = "server" => p \in Served

\* What the snapshot of installed plugins says is what the settings said when they were
\* last readable, and a scan that could read everything listed what was there.
ListedIsSeen ==
  \A p \in Plugins :
    /\ listed.installed.taken =>
         (p \in listed.installed.keys <=> sight.plugin[p] # "absent")
    /\ sight.whole =>
         (Advice!Installed(p) <=> sight.plugin[p] \in {"skills", "server"} \/ p \in sight.own)

AdviceInv == AdviceTypeOK /\ ListedIsSeen

LEMMA AdviceBegins == Advice!AdviceInit => AdviceInv
<1> SUFFICES ASSUME Advice!AdviceInit PROVE AdviceInv
  OBVIOUS
<1>1. AdviceTypeOK
  BY DEF Advice!AdviceInit, AdviceTypeOK, Machine, Advice!Presence
<1>2. ~listed.installed.taken /\ ~sight.whole
  BY DEF Advice!AdviceInit, Advice!Unscanned
<1> QED
  BY <1>1, <1>2, Zenon DEF AdviceInv, ListedIsSeen

\* What a scan reads from a machine at rest.
LEMMA ReadIsSeen ==
  ASSUME AdviceInv, "settings" \notin unreadable, listed' = Advice!Read,
         sight' = [plugin |-> machine.plugin, own |-> machine.own, whole |-> unreadable = {}]
  PROVE  ListedIsSeen'
<1>1. ASSUME NEW p \in Plugins
      PROVE  p \in listed'.installed.keys <=> sight'.plugin[p] # "absent"
  <2>1. listed'.installed.keys = Advice!Keys /\ sight'.plugin = machine.plugin
    BY DEF Advice!Read
  <2> QED
    BY <2>1 DEF Advice!Keys
<1>2. ASSUME NEW p \in Plugins, sight'.whole
      PROVE  Advice!Installed(p)' <=> sight'.plugin[p] \in {"skills", "server"} \/ p \in sight'.own
  <2>1. unreadable = {}
    BY <1>2
  <2>2. listed'.servers = Advice!Servers /\ listed'.plugins = Advice!Skillful
    BY <2>1 DEF Advice!Read
  <2>3. sight'.plugin = machine.plugin /\ sight'.own = machine.own /\ machine.own \subseteq Served
    BY DEF AdviceInv, AdviceTypeOK, Machine
  <2>4. machine.plugin[p] = "server" => p \in Served
    BY DEF AdviceInv, AdviceTypeOK
  <2> QED
    BY <2>2, <2>3, <2>4 DEF Advice!Installed, Advice!Servers, Advice!Skillful
<1> QED
  BY <1>1, <1>2 DEF ListedIsSeen

LEMMA AdviceKeeps == AdviceInv /\ [Advice!AdviceNext]_adviceVars => AdviceInv'
<1> SUFFICES ASSUME AdviceInv, [Advice!AdviceNext]_adviceVars PROVE AdviceInv'
  OBVIOUS
<1>1. CASE Advice!Configure
  <2>1. listed' = listed /\ sight' = sight
    BY <1>1 DEF Advice!Configure
  <2>2. AdviceTypeOK'
    <3>1. CASE \E p \in Plugins, to \in Advice!Presence :
                 (to = "server" => p \in Served) /\ machine' = [machine EXCEPT !.plugin[p] = to]
      <4>1. PICK p \in Plugins, to \in Advice!Presence :
              (to = "server" => p \in Served) /\ machine' = [machine EXCEPT !.plugin[p] = to]
        BY <3>1
      <4>2. machine' \in Machine
        BY <4>1 DEF AdviceInv, AdviceTypeOK, Machine
      <4>3. \A q \in Plugins : machine'.plugin[q] = IF q = p THEN to ELSE machine.plugin[q]
        BY <4>1 DEF AdviceInv, AdviceTypeOK, Machine
      <4> QED
        BY <4>1, <4>2, <4>3 DEF AdviceInv, AdviceTypeOK
    <3>2. CASE \E p \in Served : machine' = [machine EXCEPT !.own = @ \cup {p}]
      BY <3>2 DEF AdviceInv, AdviceTypeOK, Machine
    <3> QED
      BY <1>1, <3>1, <3>2 DEF Advice!Configure
  <2> QED
    BY <2>1, <2>2 DEF AdviceInv, ListedIsSeen, Advice!Installed
<1>2. CASE Advice!RunInventory
  <2>1. machine' = machine
    BY <1>2 DEF Advice!RunInventory, Advice!user
  <2>2. ListedIsSeen'
    <3>1. CASE "settings" \in unreadable
      BY <1>2, <3>1 DEF Advice!RunInventory, AdviceInv, ListedIsSeen, Advice!Installed
    <3>2. CASE "settings" \notin unreadable
      BY <1>2, <3>2, ReadIsSeen DEF Advice!RunInventory
    <3> QED
      BY <3>1, <3>2
  <2> QED
    BY <2>1, <2>2 DEF AdviceInv, AdviceTypeOK
<1>3. ASSUME UNCHANGED <<machine, listed, sight>> PROVE AdviceInv'
  BY <1>3 DEF AdviceInv, AdviceTypeOK, ListedIsSeen, Advice!Installed
<1>4. CASE Advice!FileBreaks \/ Advice!FileMends \/ Advice!NextDay \/ Advice!StampExpires
           \/ \E s \in Sessions : Advice!Work(s)
  BY <1>3, <1>4 DEF Advice!FileBreaks, Advice!FileMends, Advice!NextDay, Advice!StampExpires,
                    Advice!Work, Advice!user
<1>5. CASE \/ \E fetched \in BOOLEAN : Advice!CurateAdvice(fetched)
           \/ Advice!JudgeKinds(FALSE)
  BY <1>3, <1>5 DEF Advice!CurateAdvice, Advice!JudgeKinds, Advice!user
<1>6. CASE UNCHANGED adviceVars
  BY <1>3, <1>6 DEF adviceVars
<1> QED
  BY <1>1, <1>2, <1>4, <1>5, <1>6 DEF Advice!AdviceNext

LEMMA AdviceInvariant == Spec => []AdviceInv
<1>1. Init => AdviceInv
  BY AdviceBegins DEF Init
<1>2. [Next]_vars => [Advice!AdviceNext]_adviceVars
  BY DEF Next, vars, adviceVars
<1> QED
  BY <1>1, <1>2, AdviceKeeps, PTL DEF Spec

\* A card that is made anew says what the cards' rule says.
LEMMA MadeAnew ==
  ASSUME ListedIsSeen, NEW catalog, NEW p \in Plugins, Advice!Reco(p, catalog) # "none"
  PROVE  LET reco == Advice!Reco(p, catalog) IN
         /\ ~Advice!InWindow(lastUse[p])
         /\ reco = "install" => sight.plugin[p] = "absent"
         /\ sight.whole =>
              (reco = "use" <=> sight.plugin[p] \in {"skills", "server"} \/ p \in sight.own)
<1>1. ~Advice!InWindow(lastUse[p])
  BY DEF Advice!Reco
<1>2. Advice!Reco(p, catalog) = IF Advice!Installed(p) THEN "use" ELSE "install"
  BY DEF Advice!Reco
<1>3. Advice!Reco(p, catalog) = "install" =>
        listed.installed.taken /\ p \notin listed.installed.keys
  BY DEF Advice!Reco
<1> QED
  BY <1>1, <1>2, <1>3 DEF ListedIsSeen

\* Advice that a scan makes fits what it could read: the settings did not list what it
\* says to install, what it says to use was there, and nobody is told of what was used in
\* the window (run_inventory, plugin_reco_items in run_curation).
THEOREM AdviceFitsScan == Spec => AdviceFits
<1> DEFINE Fit == stage = "read" /\ stage' = "curated" /\ ~stamped =>
             \A p \in Plugins : advice'[p] # "none" =>
               /\ ~Advice!InWindow(lastUse[p])
               /\ advice'[p] = "install" => sight.plugin[p] = "absent"
               /\ sight.whole =>
                    (advice'[p] = "use"
                       <=> sight.plugin[p] \in {"skills", "server"} \/ p \in sight.own)
<1>1. AdviceInv /\ [Advice!AdviceNext]_adviceVars => [Fit]_adviceVars
  <2> SUFFICES ASSUME AdviceInv, Advice!AdviceNext, stage = "read", stage' = "curated", ~stamped,
                      NEW p \in Plugins, advice'[p] # "none"
               PROVE  /\ ~Advice!InWindow(lastUse[p])
                      /\ advice'[p] = "install" => sight.plugin[p] = "absent"
                      /\ sight.whole =>
                           (advice'[p] = "use"
                              <=> sight.plugin[p] \in {"skills", "server"} \/ p \in sight.own)
    BY Zenon
  <2>1. PICK fetched \in BOOLEAN : Advice!CurateAdvice(fetched)
    BY DEF Advice!AdviceNext, Advice!Configure, Advice!FileBreaks, Advice!FileMends, Advice!NextDay,
           Advice!StampExpires, Advice!Work, Advice!RunInventory, Advice!JudgeKinds
  <2>2. PICK catalog : advice'[p] = Advice!Reco(p, catalog)
    BY <2>1 DEF Advice!CurateAdvice, Advice!Exempt
  <2> QED
    BY <2>2, MadeAnew DEF AdviceInv
<1>2. [Next]_vars => [Advice!AdviceNext]_adviceVars
  BY DEF Next, vars, adviceVars
<1> QED
  BY <1>1, <1>2, AdviceInvariant, PTL DEF Spec, AdviceFits, Advice!AdviceFits, Advice!adviceVars, adviceVars

-----------------------------------------------------------------------------
(* The card of a project.                                                  *)

Rows == Cards!Row({{}})
Taken(row) == row.status = "pending" /\ row.attempts < MaxAttempts

CardsTypeOK ==
  /\ srow \in [OpusSessions -> Rows] /\ card \in Rows
  /\ outside \subseteq OpusSessions

\* The engine is asked about sessions whose rows are still pending when it answers.
Asked ==
  /\ pass # "asking" => outside = {}
  /\ \A s \in outside : Taken(srow[s])

CardsInv == CardsTypeOK /\ Asked

LEMMA RowsChange ==
  ASSUME NEW row \in Rows
  PROVE  /\ Cards!Absent \in Rows
         /\ \A init \in Cards!Status, n \in Nat : Cards!Upserted(row, init, n, {}) \in Rows
         /\ \A status \in Cards!Status : Cards!Disposed(row, status) \in Rows
         /\ Taken(row) => /\ Cards!FailedTry(row, row.attempts + 1) \in Rows
                          /\ \A v \in {"confirmed", "rejected", "malformed"} :
                               Cards!Judged(row, v, row.attempts + 1) \in Rows
<1> USE CoachAssumption DEF Cards!CardsAssumption
<1>0. MaxAttempts \in Nat \ {0}
  BY DEF Cards!AttemptsAssumption
<1>1. Cards!Absent \in Rows
  BY <1>0 DEF Rows, Cards!Row, Cards!Absent, Cards!Status, Cards!Unset
<1>2. ASSUME NEW init \in Cards!Status, NEW n \in Nat PROVE Cards!Upserted(row, init, n, {}) \in Rows
  <2>1. Cards!Inserted(init, n, {}) \in Rows
    BY <1>0 DEF Rows, Cards!Row, Cards!Inserted, Cards!Unset
  <2>2. Cards!Revived(row, n) \in Rows
    BY DEF Rows, Cards!Row, Cards!Revived, Cards!Status, Cards!Unset
  <2>3. \A r \in Rows : [r EXCEPT !.n = n, !.about = {}] \in Rows
    BY DEF Rows, Cards!Row
  <2>4. [Cards!Revived(row, n) EXCEPT !.n = n, !.about = {}] \in Rows
    BY <2>2, <2>3
  <2> QED
    BY <2>1, <2>4, Zenon DEF Cards!Upserted
<1>3. ASSUME NEW status \in Cards!Status PROVE Cards!Disposed(row, status) \in Rows
  BY <1>0 DEF Rows, Cards!Row, Cards!Disposed, Cards!Unset
<1>4. ASSUME Taken(row)
      PROVE  row.attempts + 1 \in 0 .. MaxAttempts
  BY <1>0, <1>4 DEF Taken, Rows, Cards!Row
<1>5. ASSUME Taken(row) PROVE Cards!FailedTry(row, row.attempts + 1) \in Rows
  BY <1>4, <1>5 DEF Rows, Cards!Row, Cards!FailedTry, Cards!Status
<1>6. ASSUME Taken(row), NEW v \in {"confirmed", "rejected", "malformed"}
      PROVE  Cards!Judged(row, v, row.attempts + 1) \in Rows
  BY <1>4, <1>5, <1>6 DEF Rows, Cards!Row, Cards!Judged, Cards!Status
<1> QED
  BY <1>1, <1>2, <1>3, <1>5, <1>6

LEMMA CountsAreNumbers == Cards!Confirmed \in Nat
<1> DEFINE S == Cards!InRollup({"confirmed"})
<1>1. IsFiniteSet(OpusSessions)
  BY CoachAssumption DEF Cards!CardsAssumption, IsFiniteSet, Cards!IsFiniteSet
<1>2. S \subseteq OpusSessions
  BY DEF Cards!InRollup
<1>3. Cardinality(S) \in Nat
  <2>1. IsFiniteSet(S)
    BY <1>1, <1>2, FS_Subset
  <2> QED
    BY <2>1, FS_CardinalityType
<1>4. Cards!Cardinality(S) = Cardinality(S)
  BY DEF Cardinality, Cards!Cardinality, IsFiniteSet, Cards!IsFiniteSet
<1> QED
  BY <1>3, <1>4, Zenon DEF Cards!Confirmed

LEMMA CardsBegin == Cards!CardsInit => CardsInv
<1> SUFFICES ASSUME Cards!CardsInit PROVE CardsInv
  OBVIOUS
<1>1. Cards!Absent \in Rows
  BY CoachAssumption DEF Cards!CardsAssumption, Cards!AttemptsAssumption, Rows, Cards!Row, Cards!Absent,
                         Cards!Status, Cards!Unset
<1> QED
  BY <1>1 DEF Cards!CardsInit, CardsInv, CardsTypeOK, Asked

LEMMA CardsKeep == CardsInv /\ [Cards!CardsNext]_cardVars => CardsInv'
<1> SUFFICES ASSUME CardsInv, [Cards!CardsNext]_cardVars PROVE CardsInv'
  OBVIOUS
<1>0. CardsTypeOK /\ Asked
  BY DEF CardsInv
<1>1. ASSUME UNCHANGED <<srow, card, outside>>, pass' # "asking" => pass # "asking" \/ outside = {}
      PROVE  CardsInv'
  BY <1>0, <1>1 DEF CardsInv, CardsTypeOK, Asked, Taken
<1>2. CASE \/ \E s \in OpusSessions : Cards!SessionWorks(s)
           \/ Cards!TimePasses \/ Cards!EngineSwitched
  BY <1>0, <1>2 DEF CardsInv, CardsTypeOK, Asked, Taken, Cards!SessionWorks, Cards!TimePasses,
                    Cards!EngineSwitched, Cards!sessions
<1>3. CASE Cards!DisposeCard
  <2>1. PICK status \in Cards!Status : card' = Cards!Disposed(card, status)
    BY <1>3 DEF Cards!DisposeCard, Cards!Status
  <2>2. card' \in Rows
    BY <1>0, <2>1, RowsChange DEF CardsTypeOK
  <2> QED
    BY <1>0, <1>3, <2>2 DEF CardsInv, CardsTypeOK, Asked, Taken, Cards!DisposeCard
<1>4. CASE Cards!Mine
  <2>1. srow' \in [OpusSessions -> Rows]
    <3>1. \A s \in OpusSessions : Cards!Upserted(srow[s], "pending", 0, {}) \in Rows
      BY <1>0, RowsChange DEF CardsTypeOK, Cards!Status
    <3> QED
      BY <1>0, <1>4, <3>1 DEF CardsTypeOK, Cards!Mine
  <2>2. outside' = {} /\ card' = card
    BY <1>0, <1>4 DEF Asked, Cards!Mine
  <2> QED
    BY <1>0, <2>1, <2>2 DEF CardsInv, CardsTypeOK, Asked
<1>5. CASE Cards!TakeSessions
  <2>1. PICK B \in SUBSET {s \in OpusSessions : Cards!Judgeable(srow[s])} :
          /\ outside' = B \ Silent
          /\ srow' = [s \in OpusSessions |->
                        IF s \in B \cap Silent
                        THEN Cards!FailedTry(srow[s], srow[s].attempts + 1) ELSE srow[s]]
    BY <1>5, Zenon DEF Cards!TakeSessions
  <2>2. pass' = "asking" /\ card' = card
    BY <1>5 DEF Cards!TakeSessions
  <2>3. \A s \in B : s \in OpusSessions /\ Taken(srow[s])
    BY <2>1 DEF Cards!Judgeable, Taken
  <2>4. \A s \in B : Cards!FailedTry(srow[s], srow[s].attempts + 1) \in Rows
    BY <1>0, <2>3, RowsChange DEF CardsTypeOK
  <2>5. srow' \in [OpusSessions -> Rows]
    BY <1>0, <2>1, <2>4 DEF CardsTypeOK
  <2>6. \A s \in outside' : s \in OpusSessions /\ srow'[s] = srow[s] /\ Taken(srow[s])
    BY <2>1, <2>3
  <2> QED
    BY <1>0, <2>2, <2>5, <2>6 DEF CardsInv, CardsTypeOK, Asked, Taken
<1>6. CASE Cards!Answers
  <2>1. PICK A \in SUBSET outside : \E v \in [A -> {"confirmed", "rejected", "malformed"}] :
          srow' = [s \in OpusSessions |->
                     IF s \in A THEN Cards!Judged(srow[s], v[s], srow[s].attempts + 1) ELSE srow[s]]
    BY <1>6, Zenon DEF Cards!Answers
  <2>2. PICK v \in [A -> {"confirmed", "rejected", "malformed"}] :
          srow' = [s \in OpusSessions |->
                     IF s \in A THEN Cards!Judged(srow[s], v[s], srow[s].attempts + 1) ELSE srow[s]]
    BY <2>1
  <2>3. \A s \in A : Cards!Judged(srow[s], v[s], srow[s].attempts + 1) \in Rows
    BY <1>0, <2>1, RowsChange DEF CardsTypeOK, Asked
  <2>4. srow' \in [OpusSessions -> Rows]
    BY <1>0, <2>2, <2>3 DEF CardsTypeOK
  <2>5. outside' = {} /\ card' = card
    BY <1>6 DEF Cards!Answers
  <2> QED
    BY <1>0, <2>4, <2>5 DEF CardsInv, CardsTypeOK, Asked
<1>7. CASE Cards!QuitInPass
  BY <1>0, <1>7 DEF CardsInv, CardsTypeOK, Asked, Cards!QuitInPass
<1>8. CASE Cards!RollUp
  <2>1. card' \in Rows
    BY <1>0, <1>8, RowsChange, CountsAreNumbers DEF CardsTypeOK, Cards!RollUp, Cards!RolledUp, Cards!Status
  <2> QED
    BY <1>0, <1>8, <2>1 DEF CardsInv, CardsTypeOK, Asked, Taken, Cards!RollUp
<1>9. CASE UNCHANGED cardVars
  BY <1>0, <1>9 DEF CardsInv, CardsTypeOK, Asked, Taken, cardVars
<1> QED
  BY <1>2, <1>3, <1>4, <1>5, <1>6, <1>7, <1>8, <1>9 DEF Cards!CardsNext

LEMMA CardsInvariant == Spec => []CardsInv
<1>1. Init => CardsInv
  BY CardsBegin DEF Init
<1>2. [Next]_vars => [Cards!CardsNext]_cardVars
  BY DEF Next, vars, cardVars
<1> QED
  BY <1>1, <1>2, CardsKeep, PTL DEF Spec

\* A session the engine was asked about is still a candidate when the answer is stored, so
\* that no verdict comes on top of another and no row is judged more often than
\* MAX_ATTEMPTS times (pending_for_judgment and set_judgment, with the store unlocked in
\* between).
THEOREM VerdictsMeetCandidates == Spec => [](CardsTypeOK /\ Asked)
<1>1. CardsInv => CardsTypeOK /\ Asked
  BY DEF CardsInv
<1> QED
  BY <1>1, CardsInvariant, PTL

\* What a roll-up makes of a card the user disposed of.
LEMMA RollUpKeeps ==
  ASSUME NEW row \in Rows, NEW r, r = Cards!RolledUp(row)
  PROVE  /\ row.status = "dismissed" => r.status = "dismissed"
         /\ row.status = "resolved" /\ r.status # "resolved" => r.status = "new" /\ r.n > row.base
<1>1. CASE row.status = "dismissed"
  BY <1>1 DEF Rows, Cards!Row, Cards!RolledUp, Cards!Upserted, Cards!Revived
<1>2. CASE row.status = "resolved"
  <2>1. CASE Cards!Qualifies /\ row.base # Cards!Unset /\ Cards!Confirmed > row.base
    BY <1>2, <2>1 DEF Rows, Cards!Row, Cards!RolledUp, Cards!Upserted, Cards!Revived
  <2>2. CASE ~(Cards!Qualifies /\ row.base # Cards!Unset /\ Cards!Confirmed > row.base)
    BY <1>2, <2>2 DEF Rows, Cards!Row, Cards!RolledUp, Cards!Upserted, Cards!Revived
  <2> QED
    BY <2>1, <2>2
<1> QED
  BY <1>1, <1>2

\* A dismissed card stays dismissed whatever is rolled up, also when its sessions leave the
\* window and come back, and a resolved one returns only with more sessions than it counted
\* when it was resolved (rollup_project_cards, upsert_finding).
THEOREM DispositionsLast == Spec => DispositionOutlivesRollup
<1> DEFINE Lasts == disposals' = disposals =>
             /\ card.status = "dismissed" => card'.status = "dismissed"
             /\ card.status = "resolved" /\ card'.status # "resolved" =>
                  card'.status = "new" /\ card'.n > card.base
<1>1. CardsInv /\ [Cards!CardsNext]_cardVars => [Lasts]_cardVars
  <2> SUFFICES ASSUME CardsInv, Cards!CardsNext, disposals' = disposals PROVE Lasts
    BY Zenon
  <2>1. card \in Rows
    BY DEF CardsInv, CardsTypeOK
  <2>2. CASE card' = card
    BY <2>2
  <2>3. CASE Cards!DisposeCard
    <3>1. disposals' = disposals + 1 /\ disposals < MaxDisposals
      BY <2>3 DEF Cards!DisposeCard
    <3> QED
      BY <3>1
  <2>4. CASE Cards!RollUp
    BY <2>1, <2>4, RollUpKeeps DEF Cards!RollUp
  <2> QED
    BY <2>2, <2>3, <2>4 DEF Cards!CardsNext, Cards!SessionWorks, Cards!TimePasses, Cards!EngineSwitched,
                            Cards!Mine, Cards!TakeSessions, Cards!Answers, Cards!QuitInPass
<1>2. [Next]_vars => [Cards!CardsNext]_cardVars
  BY DEF Next, vars, cardVars
<1> QED
  BY <1>1, <1>2, CardsInvariant, PTL DEF Spec, DispositionOutlivesRollup, Cards!DispositionOutlivesRollup,
                                         Cards!cardVars, cardVars
=============================================================================
