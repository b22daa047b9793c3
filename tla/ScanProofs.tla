----------------------------- MODULE ScanProofs -----------------------------
(***************************************************************************)
(* For any transcripts and any bound: no line is skipped and prompts are   *)
(* read right, the numbers implement the ledger of UsageLedger, what the   *)
(* rules raise is announced, the day's picture and what is told of it go   *)
(* together, no diary tells again what the ones it had at hand told, and   *)
(* the mascot says only what was written of a day like now.                *)
(***************************************************************************)
EXTENDS MCScan, FiniteSetTheorems, SequenceTheorems, WellFoundedInduction, TLAPS

\* The fold over the lines that parse_chatter_lines keeps; its LeastNatural serves
\* other proofs here too.
Keeping == INSTANCE FoldLemmas WITH Op <- Talk!Kept, Base <- <<>>

Lines == Files \X (1 .. Len(Script))
KeySet == {"at", "tc", "tr"} \X Files \X Nat
Event == [key : KeySet, session : Files]

IngestionTypeOK ==
  /\ text \in [Files -> Seq(Lines)]
  /\ events \subseteq Event
  /\ mined \subseteq {<<"up", l>> : l \in Lines}
  /\ first \in [Files -> Nat] /\ offset \in [Files -> Nat]
  /\ program \in {7, 8} /\ version \in {7, 8}

\* The program that runs has migrated what it reads.
VersionOK == version <= program /\ (Running => version = program)

Covered(f) ==
  \A i \in 1 .. offset[f] : i <= Len(text[f]) /\ Keys(f, i) \subseteq StoredKeys

\* The name of a session is its first prompt; one that has none yet has none in the
\* lines that were read.
Named(f) ==
  /\ first[f] <= Len(text[f])
  /\ first[f] # 0 =>
       /\ LineOf(f, first[f]).prompt # "none"
       /\ \A i \in 1 .. first[f] - 1 : LineOf(f, i).prompt = "none"
NoneRead(f) ==
  first[f] = 0 => \A i \in 1 .. offset[f] : LineOf(f, i).prompt = "none"

\* What is counted stands in a transcript.
CountedIsSaid ==
  \A e \in events : e.key[1] = "at" =>
    /\ e.key[3] # 0
    /\ \E g \in Files : \E i \in 1 .. Len(text[g]) :
         e.key[2] = text[g][i][1] /\ e.key[3] = LineOf(g, i).msg

NoCommands == version = 8 => \A k \in mined : Script[k[2][2]].prompt = "text"

\* A migration cut short leaves offsets without their lines, but only while the version
\* is behind.
IngestionInv ==
  /\ IngestionTypeOK /\ VersionOK /\ NoCommands /\ CountedIsSaid
  /\ \A f \in Files : Named(f) /\ (version = program => Covered(f) /\ NoneRead(f))

-----------------------------------------------------------------------------
(* The steps by what they do to transcripts and store.                     *)

Quiet ==
  /\ UNCHANGED <<text, events, mined, first, offset, program, version>>
  /\ Running' => Running

\* ingest_file, with its second commit or without.
Reads(f) ==
  /\ Running /\ Upsert(f)
  /\ offset' \in {offset, [offset EXCEPT ![f] = Len(text[f])]}
  /\ UNCHANGED <<text, program, version>>

Grows(f) ==
  /\ WriteLine(f) \/ Resume(f)
  /\ UNCHANGED <<events, mined, first, offset, program, version, thread>>

Migrates ==
  /\ UNCHANGED <<text, program>> /\ ~Running /\ version < program
  /\ \/ Migrated(5)
     \/ (\E n \in 1 .. 4 : Migrated(n)) /\ UNCHANGED thread

Begins ==
  /\ UNCHANGED <<text, events, mined, first, offset, version, program>>
  /\ ~(version < program)

Updates ==
  /\ UNCHANGED <<text, events, mined, first, offset, version, thread>>
  /\ ~Running /\ program' = 8

LEMMA StepKinds ==
  ASSUME [Next]_vars
  PROVE  \/ Quiet \/ Migrates \/ Begins \/ Updates
         \/ \E f \in Files : Reads(f) \/ Grows(f)
<1> USE DEF Quiet, Running, transcripts, store, coach
<1>1. CASE ScanStep
  <2>1. CASE Discover \/ EndIngest \/ RunRules \/ RulesFail \/ ScanFails
    BY <2>1 DEF Discover, EndIngest, RunRules, RulesFail, ScanFails
  <2>2. ASSUME NEW f \in Files, SkipBroken(f) \/ SkipFile(f) PROVE Quiet
    BY <2>2 DEF SkipBroken, SkipFile
  <2>3. ASSUME NEW f \in Files, IngestFile(f) PROVE Reads(f)
    BY <2>3 DEF IngestFile, Reads, NewOffset
  <2> QED
    BY <1>1, <2>1, <2>2, <2>3 DEF ScanStep
<1>2. CASE Loop \/ TimeOut \/ OtherChange
  BY <1>2 DEF Loop, Receive, ReceiveMore, TimeOut, OtherChange
<1>3. CASE Claude
  <2>1. ASSUME NEW f \in Files, WriteLine(f) \/ Resume(f) PROVE Grows(f)
    BY <2>1 DEF WriteLine, Resume, Grows
  <2>2. ASSUME NEW f \in Files, NEW t \in {"part", "broken"}, WritePart(f, t) PROVE Quiet
    BY <2>2 DEF WritePart
  <2> QED
    BY <1>3, <2>1, <2>2 DEF Claude
<1>4. CASE User
  <2>1. CASE ScanNow \/ Quit \/ QuitBeforeEmit
    BY <2>1 DEF ScanNow, Quit, QuitBeforeEmit, Off
  <2>2. ASSUME NEW s, Dispose(s) PROVE Quiet
    BY <2>2 DEF Dispose
  <2>3. ASSUME NEW f \in Files, QuitBeforeOffset(f) PROVE Reads(f)
    BY <2>3 DEF QuitBeforeOffset, Reads
  <2> QED
    BY <1>4, <2>1, <2>2, <2>3 DEF User
<1>5. CASE Start
  BY <1>5 DEF Start, Migrates, Begins
<1>6. CASE StartCut
  BY <1>6 DEF StartCut, Migrates
<1>7. CASE Update
  BY <1>7 DEF Update, Updates
<1>8. CASE UNCHANGED vars
  BY <1>8 DEF vars
<1> QED
  BY <1>1, <1>2, <1>3, <1>4, <1>5, <1>6, <1>7, <1>8 DEF Next

-----------------------------------------------------------------------------
(* Lines and their keys.                                                   *)

LEMMA LineTypes ==
  ASSUME IngestionTypeOK, NEW f \in Files, NEW i \in 1 .. Len(text[f])
  PROVE  /\ text[f][i] \in Lines /\ LineOf(f, i) \in Line
         /\ Keys(f, i) \subseteq KeySet
         /\ \A k \in Keys(f, i) : k[1] = "at" =>
              k[2] = text[f][i][1] /\ k[3] = LineOf(f, i).msg /\ k[3] # 0
<1>1. text[f] \in Seq(Lines)
  BY DEF IngestionTypeOK
<1>2. text[f][i] \in Lines
  BY <1>1
<1>3. text[f][i][1] \in Files /\ text[f][i][2] \in 1 .. Len(Script)
  BY <1>2 DEF Lines
<1>4. LineOf(f, i) \in Line
  BY <1>3, IngestionAssumption DEF LineOf
<1>5. Keys(f, i) \subseteq KeySet
  BY <1>3, <1>4 DEF Keys, KeySet, TurnKey, Line
<1>6. \A k \in Keys(f, i) : k[1] = "at" =>
        k[2] = text[f][i][1] /\ k[3] = LineOf(f, i).msg /\ k[3] # 0
  BY <1>3, <1>4 DEF Keys, TurnKey, Line
<1> QED
  BY <1>2, <1>4, <1>5, <1>6

\* Transcripts only grow at their end.
LEMMA GrowsAtEnd ==
  ASSUME IngestionTypeOK, NEW f \in Files, Grows(f)
  PROVE  /\ text' \in [Files -> Seq(Lines)]
         /\ \A g \in Files : /\ Len(text'[g]) >= Len(text[g])
                             /\ \A i \in 1 .. Len(text[g]) : text'[g][i] = text[g][i]
<1>1. CASE WriteLine(f)
  <2>1. NextLine(f) \in Lines
    <3>1. CASE text[f] = <<>>
      BY <3>1, IngestionAssumption DEF NextLine, Lines
    <3>2. CASE text[f] # <<>>
      <4>1. text[f][Len(text[f])] \in Lines
        BY <3>2 DEF IngestionTypeOK
      <4> QED
        BY <1>1, <3>2, <4>1, IngestionAssumption DEF NextLine, Lines, Last, WriteLine, More
    <3> QED
      BY <3>1, <3>2
  <2>2. text' = [text EXCEPT ![f] = Append(@, NextLine(f))]
    BY <1>1 DEF WriteLine
  <2> QED
    BY <2>1, <2>2 DEF IngestionTypeOK
<1>2. CASE Resume(f)
  <2>1. PICK n \in DOMAIN text[Origin[f]] : text' = [text EXCEPT ![f] = SubSeq(text[Origin[f]], 1, n)]
    BY <1>2 DEF Resume
  <2>2. Origin[f] \in Files /\ text[f] = <<>>
    BY <1>2, IngestionAssumption DEF Resume
  <2>3. SubSeq(text[Origin[f]], 1, n) \in Seq(Lines)
    BY <2>1, <2>2 DEF IngestionTypeOK
  <2> QED
    BY <2>1, <2>2, <2>3 DEF IngestionTypeOK
<1> QED
  BY <1>1, <1>2 DEF Grows

\* The first of some lines.
LEMMA FirstExists ==
  ASSUME NEW T, T \subseteq Nat, T # {}
  PROVE  \E x \in T : \A y \in T : x <= y
<1>1. PICK x \in T : \A y \in T : <<y, x>> \notin OpToRel(<, Nat)
  BY NatLessThanWellFounded, WFMin, Zenon
<1>2. \A y \in T : ~(y < x)
  BY <1>1 DEF OpToRel
<1> QED
  BY <1>2

\* FirstPromptOf is the first prompt among the lines not read before.
LEMMA FirstPromptIsFirst ==
  ASSUME IngestionTypeOK, NEW f \in Files
  PROVE  LET p == FirstPromptOf(f)
             prompts == {i \in Unread(f) : LineOf(f, i).prompt # "none"}
         IN /\ prompts = {} => p = first[f]
            /\ prompts # {} => p \in prompts /\ \A j \in prompts : p <= j
<1> DEFINE prompts == {i \in Unread(f) : LineOf(f, i).prompt # "none"}
<1>1. prompts \subseteq Nat
  BY DEF Unread, IngestionTypeOK
<1>2. prompts # {} => \E x \in prompts : \A y \in prompts : x <= y
  BY <1>1, FirstExists
<1> QED
  BY <1>2 DEF FirstPromptOf

-----------------------------------------------------------------------------
(* The invariant, kind of step by kind.                                    *)

LEMMA IngestionBegins == Init => IngestionInv
<1> SUFFICES ASSUME Init PROVE IngestionInv
  OBVIOUS
<1> USE DEF Init
<1>1. IngestionTypeOK
  BY DEF IngestionTypeOK
<1>2. VersionOK /\ NoCommands /\ CountedIsSaid
  BY DEF VersionOK, NoCommands, CountedIsSaid, Running
<1>3. \A f \in Files : Named(f) /\ Covered(f) /\ NoneRead(f)
  BY DEF Named, Covered, NoneRead
<1> QED
  BY <1>1, <1>2, <1>3 DEF IngestionInv

LEMMA QuietInv == ASSUME IngestionInv, Quiet PROVE IngestionInv'
<1>1. IngestionTypeOK' /\ VersionOK'
  BY DEF IngestionInv, Quiet, IngestionTypeOK, VersionOK
<1>2. NoCommands' /\ CountedIsSaid'
  BY DEF IngestionInv, Quiet, NoCommands, CountedIsSaid, LineOf
<1>3. \A f \in Files : Named(f)' = Named(f) /\ Covered(f)' = Covered(f) /\ NoneRead(f)' = NoneRead(f)
  BY DEF Quiet, Named, Covered, NoneRead, LineOf, Keys, TurnKey, StoredKeys
<1> QED
  BY <1>1, <1>2, <1>3 DEF IngestionInv, Quiet

LEMMA BeginsInv == ASSUME IngestionInv, Begins PROVE IngestionInv'
<1>1. version = program
  BY DEF IngestionInv, Begins, IngestionTypeOK, VersionOK
<1> QED
  BY <1>1 DEF IngestionInv, Begins, IngestionTypeOK, VersionOK, NoCommands, CountedIsSaid,
       Named, Covered, NoneRead, Running, LineOf, Keys, TurnKey, StoredKeys

LEMMA UpdatesInv == ASSUME IngestionInv, Updates PROVE IngestionInv'
BY DEF IngestionInv, Updates, IngestionTypeOK, VersionOK, NoCommands, CountedIsSaid, Named,
       Covered, NoneRead, Running, LineOf, Keys, TurnKey, StoredKeys

LEMMA MigratesInv == ASSUME IngestionInv, Migrates PROVE IngestionInv'
<1>1. /\ UNCHANGED <<text, program>> /\ ~Running /\ version < program
      /\ version = 7 /\ program = 8
  BY DEF IngestionInv, Migrates, IngestionTypeOK
<1>2. CASE Migrated(5)
  <2>1. /\ events' = {} /\ first' = [f \in Files |-> 0] /\ offset' = [f \in Files |-> 0]
        /\ mined' = {} /\ version' = 8
    BY <1>2 DEF Migrated
  <2> QED
    BY <1>1, <2>1 DEF IngestionInv, IngestionTypeOK, VersionOK, NoCommands, CountedIsSaid,
                      Named, Covered, NoneRead
<1>3. ASSUME NEW n \in 1 .. 4, Migrated(n), UNCHANGED thread PROVE IngestionInv'
  <2>1. /\ events' = {} /\ first' \in {first, [f \in Files |-> 0]}
        /\ offset' \in {offset, [f \in Files |-> 0]} /\ mined' \in {mined, {}} /\ version' = version
    BY <1>3 DEF Migrated
  <2>2. IngestionTypeOK'
    BY <1>1, <2>1 DEF IngestionInv, IngestionTypeOK
  <2>3. VersionOK' /\ NoCommands' /\ CountedIsSaid'
    BY <1>1, <1>3, <2>1 DEF VersionOK, NoCommands, CountedIsSaid, Running
  <2>4. ASSUME NEW f \in Files PROVE Named(f)'
    <3>1. first'[f] \in {first[f], 0} /\ text' = text
      BY <1>1, <2>1 DEF IngestionInv, IngestionTypeOK
    <3>2. Named(f) /\ Len(text[f]) \in Nat
      BY DEF IngestionInv, IngestionTypeOK
    <3> QED
      BY <3>1, <3>2 DEF Named, LineOf
  <2> QED
    BY <1>1, <2>1, <2>2, <2>3, <2>4 DEF IngestionInv
<1> QED
  BY <1>2, <1>3 DEF Migrates

LEMMA GrowsInv == ASSUME IngestionInv, NEW f \in Files, Grows(f) PROVE IngestionInv'
<1>1. IngestionTypeOK /\ UNCHANGED <<events, mined, first, offset, program, version, thread>>
  BY DEF IngestionInv, Grows
<1>2. /\ text' \in [Files -> Seq(Lines)]
      /\ \A g \in Files : /\ Len(text'[g]) >= Len(text[g]) /\ Len(text[g]) \in Nat
                          /\ \A i \in 1 .. Len(text[g]) : text'[g][i] = text[g][i]
  <2>1. \A g \in Files : Len(text[g]) \in Nat
    BY <1>1 DEF IngestionTypeOK
  <2> QED
    BY <1>1, <2>1, GrowsAtEnd
<1>3. IngestionTypeOK'
  BY <1>1, <1>2 DEF IngestionTypeOK
<1>4. \A g \in Files : \A i \in 1 .. Len(text[g]) :
        /\ i \in 1 .. Len(text'[g])
        /\ LineOf(g, i)' = LineOf(g, i) /\ Keys(g, i)' = Keys(g, i)
  BY <1>2, <1>3 DEF LineOf, Keys, TurnKey, IngestionTypeOK
<1>5. VersionOK' /\ NoCommands'
  BY <1>1 DEF IngestionInv, VersionOK, NoCommands, Running
<1>6. CountedIsSaid'
  BY <1>1, <1>2, <1>4 DEF IngestionInv, CountedIsSaid
<1>7. ASSUME NEW g \in Files PROVE Named(g)'
  <2>1. Named(g) /\ first[g] \in Nat
    BY <1>1 DEF IngestionInv, IngestionTypeOK
  <2>2. first[g] # 0 => \A i \in 1 .. first[g] : i \in 1 .. Len(text[g])
    BY <1>2, <2>1 DEF Named
  <2>3. first[g] <= Len(text'[g])
    BY <1>2, <1>3, <2>1 DEF Named, IngestionTypeOK
  <2>4. first[g] # 0 => first[g] \in 1 .. Len(text[g]) /\ \A i \in 1 .. first[g] - 1 : i \in 1 .. Len(text[g])
    BY <2>1, <2>2
  <2> QED
    BY <1>1, <1>4, <2>1, <2>3, <2>4 DEF Named
<1>8. ASSUME NEW g \in Files, version' = program' PROVE Covered(g)' /\ NoneRead(g)'
  <2>1. Covered(g) /\ NoneRead(g)
    BY <1>1, <1>8 DEF IngestionInv
  <2>2. \A i \in 1 .. offset[g] : i \in 1 .. Len(text[g])
    BY <1>2, <2>1 DEF Covered
  <2>3. Covered(g)'
    BY <1>1, <1>4, <2>1, <2>2, <1>3 DEF Covered, StoredKeys, IngestionTypeOK
  <2>4. NoneRead(g)'
    BY <1>1, <1>4, <2>1, <2>2 DEF NoneRead
  <2> QED
    BY <2>3, <2>4
<1> QED
  BY <1>3, <1>5, <1>6, <1>7, <1>8 DEF IngestionInv

\* What Upsert adds.
LEMMA ReadsEvents ==
  ASSUME IngestionInv, NEW f \in Files, Reads(f)
  PROVE  /\ events \subseteq events' /\ events' \subseteq Event
         /\ \A e \in events' \ events : \E i \in 1 .. Len(text[f]) : e.key \in Keys(f, i)
         /\ \A i \in Unread(f) : Keys(f, i) \subseteq StoredKeys'
<1> DEFINE Read == UNION {Keys(f, i) : i \in Unread(f)}
           Added == {[key |-> k, session |-> f] : k \in Read \ StoredKeys}
<1>1. events' = events \cup Added /\ IngestionTypeOK
  <2>1. events' = events \cup {[key |-> k, session |-> f] :
                                k \in (UNION {Keys(f, i) : i \in Unread(f)}) \ StoredKeys}
    BY DEF Reads, Upsert
  <2>2. IngestionTypeOK
    BY DEF IngestionInv
  <2> QED
    BY ONLY <2>1, <2>2 DEF Added, Read
<1>2. \A k \in Read : \E i \in 1 .. Len(text[f]) : k \in Keys(f, i)
  BY DEF Unread
<1>3. Read \subseteq KeySet
  BY <1>1, <1>2, LineTypes
<1> HIDE DEF Read
<1>4. Added \subseteq Event
  BY <1>3 DEF Event
<1>5. \A e \in Added : e.key \in Read
  OBVIOUS
<1>6. \A k \in Read : k \in StoredKeys'
  <2>1. ASSUME NEW k \in Read, k \notin StoredKeys PROVE k \in StoredKeys'
    <3>1. [key |-> k, session |-> f] \in events' /\ [key |-> k, session |-> f].key = k
      BY <1>1, <2>1
    <3> QED
      BY <3>1 DEF StoredKeys
  <2>2. StoredKeys \subseteq StoredKeys'
    BY <1>1 DEF StoredKeys
  <2> QED
    BY <2>1, <2>2
<1>7. \A i \in Unread(f) : Keys(f, i) \subseteq Read
  BY DEF Read
<1> QED
  BY <1>1, <1>2, <1>4, <1>5, <1>6, <1>7 DEF IngestionTypeOK

LEMMA ReadsInv == ASSUME IngestionInv, NEW f \in Files, Reads(f) PROVE IngestionInv'
<1>1. /\ IngestionTypeOK /\ UNCHANGED <<text, program, version>> /\ version = program
      /\ offset' \in {offset, [offset EXCEPT ![f] = Len(text[f])]} /\ Running
  BY DEF IngestionInv, Reads, VersionOK
<1>2. first' = [first EXCEPT ![f] = FirstPrompt(f)]
  BY DEF Reads, Upsert
<1>3. mined' = mined \cup {PromptKey(f, i) : i \in {j \in Unread(f) : Mined(f, j)}}
  BY DEF Reads, Upsert
<1>4. Covered(f) /\ NoneRead(f) /\ Named(f) /\ first[f] \in Nat /\ Len(text[f]) \in Nat
  BY <1>1 DEF IngestionInv, IngestionTypeOK
<1>5. \A i \in Unread(f) : i \in 1 .. Len(text[f]) /\ text[f][i] \in Lines /\ LineOf(f, i) \in Line
  BY <1>1, LineTypes DEF Unread
<1>6. /\ FirstPrompt(f) <= Len(text[f]) /\ FirstPrompt(f) \in Nat
      /\ FirstPrompt(f) # 0 =>
           /\ LineOf(f, FirstPrompt(f)).prompt # "none"
           /\ \A i \in 1 .. FirstPrompt(f) - 1 : LineOf(f, i).prompt = "none"
      /\ FirstPrompt(f) = 0 => \A i \in 1 .. Len(text[f]) : LineOf(f, i).prompt = "none"
  <2> DEFINE prompts == {i \in Unread(f) : LineOf(f, i).prompt # "none"}
  <2>1. CASE first[f] # 0
    BY <1>4, <2>1 DEF FirstPrompt, Named
  <2>2. CASE first[f] = 0 /\ prompts = {}
    <3>1. FirstPrompt(f) = 0
      BY <1>1, <2>2, FirstPromptIsFirst DEF FirstPrompt
    <3>2. ASSUME NEW i \in 1 .. Len(text[f]) PROVE LineOf(f, i).prompt = "none"
      <4>1. CASE i \in Unread(f)
        BY <2>2, <4>1
      <4>2. CASE i \notin Unread(f)
        <5>1. i \in 1 .. offset[f]
          BY <1>1, <1>4, <4>2 DEF Unread, IngestionTypeOK
        <5> QED
          BY <1>4, <2>2, <5>1 DEF NoneRead
      <4> QED
        BY <4>1, <4>2
    <3> QED
      BY <1>4, <3>1, <3>2
  <2>3. CASE first[f] = 0 /\ prompts # {}
    <3>1. FirstPrompt(f) \in prompts /\ \A j \in prompts : FirstPrompt(f) <= j
      BY <1>1, <2>3, FirstPromptIsFirst DEF FirstPrompt
    <3>2. FirstPrompt(f) \in 1 .. Len(text[f])
      BY <1>5, <3>1
    <3>3. ASSUME NEW i \in 1 .. FirstPrompt(f) - 1 PROVE LineOf(f, i).prompt = "none"
      <4>1. i \in 1 .. Len(text[f])
        BY <1>4, <3>2
      <4>2. CASE i \in Unread(f)
        <5>1. i \notin prompts
          BY <3>1, <3>2
        <5> QED
          BY <4>2, <5>1
      <4>3. CASE i \notin Unread(f)
        <5>1. i \in 1 .. offset[f]
          BY <1>1, <4>1, <4>3 DEF Unread, IngestionTypeOK
        <5> QED
          BY <1>4, <2>3, <5>1 DEF NoneRead
      <4> QED
        BY <4>2, <4>3
    <3> QED
      BY <1>4, <3>1, <3>2, <3>3
  <2> QED
    BY <2>1, <2>2, <2>3
<1>7. IngestionTypeOK'
  <2>1. mined' \subseteq {<<"up", l>> : l \in Lines}
    BY <1>1, <1>3, <1>5 DEF PromptKey, IngestionTypeOK
  <2> QED
    BY <1>1, <1>2, <1>4, <1>6, <2>1, ReadsEvents DEF IngestionTypeOK
<1>8. VersionOK'
  BY <1>1 DEF VersionOK, IngestionInv
<1>9. NoCommands'
  <2>1. ASSUME version = 8, NEW i \in Unread(f), Mined(f, i)
        PROVE  Script[PromptKey(f, i)[2][2]].prompt = "text"
    BY <1>1, <2>1 DEF Mined, LineOf, PromptKey
  <2> QED
    BY <1>1, <1>3, <2>1 DEF IngestionInv, NoCommands
<1>10. CountedIsSaid'
  <2>1. ASSUME NEW e \in events' \ events, e.key[1] = "at"
        PROVE  /\ e.key[3] # 0
               /\ \E i \in 1 .. Len(text[f]) : e.key[2] = text[f][i][1] /\ e.key[3] = LineOf(f, i).msg
    <3>1. PICK i \in 1 .. Len(text[f]) : e.key \in Keys(f, i)
      BY ReadsEvents
    <3> QED
      BY <1>1, <2>1, <3>1, LineTypes
  <2>2. \A g \in Files : \A i : LineOf(g, i)' = LineOf(g, i)
    BY <1>1 DEF LineOf
  <2> QED
    BY <1>1, <2>1, <2>2 DEF IngestionInv, CountedIsSaid
<1>11. \A g \in Files : \A i : LineOf(g, i)' = LineOf(g, i) /\ Keys(g, i)' = Keys(g, i)
  BY <1>1 DEF LineOf, Keys, TurnKey
<1>12. StoredKeys \subseteq StoredKeys'
  BY ReadsEvents DEF StoredKeys
<1>13. ASSUME NEW g \in Files, g # f PROVE Named(g)' /\ Covered(g)' /\ NoneRead(g)'
  <2>1. first'[g] = first[g] /\ offset'[g] = offset[g] /\ text' = text
    BY <1>1, <1>2, <1>13 DEF IngestionTypeOK
  <2>2. Named(g) /\ Covered(g) /\ NoneRead(g)
    BY <1>1 DEF IngestionInv
  <2> QED
    BY <1>11, <1>12, <2>1, <2>2 DEF Named, Covered, NoneRead
<1>14. Named(f)' /\ Covered(f)' /\ NoneRead(f)'
  <2>1. first'[f] = FirstPrompt(f) /\ text' = text
    BY <1>1, <1>2 DEF IngestionTypeOK
  <2>2. Named(f)'
    BY <1>6, <1>11, <2>1 DEF Named
  <2>3. \A i \in 1 .. offset'[f] : i \in 1 .. Len(text[f]) /\ Keys(f, i) \subseteq StoredKeys'
    <3>1. ASSUME NEW i \in 1 .. Len(text[f]) PROVE i \in Unread(f) \/ i \in 1 .. offset[f]
      BY <1>1 DEF Unread, IngestionTypeOK
    <3>2. \A i \in 1 .. Len(text[f]) : Keys(f, i) \subseteq StoredKeys'
      BY <1>4, <1>12, <3>1, ReadsEvents DEF Covered
    <3>3. offset'[f] \in {offset[f], Len(text[f])}
      BY <1>1 DEF IngestionTypeOK
    <3>4. \A i \in 1 .. offset[f] : i \in 1 .. Len(text[f])
      BY <1>4 DEF Covered
    <3> QED
      BY <3>2, <3>3, <3>4
  <2>4. Covered(f)'
    BY <1>4, <1>11, <2>1, <2>3 DEF Covered
  <2>5. NoneRead(f)'
    BY <1>6, <1>11, <2>1, <2>3 DEF NoneRead
  <2> QED
    BY <2>2, <2>4, <2>5
<1> QED
  BY <1>7, <1>8, <1>9, <1>10, <1>13, <1>14 DEF IngestionInv

LEMMA IngestionKeeps == IngestionInv /\ [Next]_vars => IngestionInv'
BY StepKinds, QuietInv, MigratesInv, BeginsInv, UpdatesInv, ReadsInv, GrowsInv

\* No line is skipped and prompts are read right, for any transcripts.
THEOREM LinesAreReadRight == MCSpec => []LinesReadRight
<1>1. ASSUME IngestionInv PROVE LinesReadRight
  <2>1. OffsetsCovered
    BY <1>1 DEF IngestionInv, OffsetsCovered, VersionOK, Covered
  <2>2. NamedByFirstPrompt
    BY <1>1 DEF IngestionInv, NamedByFirstPrompt, Named
  <2>3. CommandsNotMined
    BY <1>1 DEF IngestionInv, CommandsNotMined, NoCommands
  <2> QED
    BY <2>1, <2>2, <2>3 DEF LinesReadRight, PromptsReadRight
<1>2. MCInit => Init
  BY DEF MCInit
<1>3. [MCNext]_scanVars => [Next]_vars
  BY DEF MCNext, scanVars, vars
<1> QED
  BY <1>1, <1>2, <1>3, IngestionBegins, IngestionKeeps, PTL DEF MCSpec

-----------------------------------------------------------------------------
(* The ledger of UsageLedger.                                              *)

\* The message of a key of a turn.
MessageOf(k) == <<k[2], k[3]>>

\* Keys of turns and messages that are counted correspond.
LEMMA TurnsAreMessages ==
  ASSUME IngestionTypeOK, CountedIsSaid
  PROVE  /\ Turns \subseteq KeySet /\ \A k \in Turns : k[1] = "at"
         /\ \A k \in Turns : MessageOf(k) \in Said /\ k[3] # 0
         /\ \A k, l \in Turns : MessageOf(k) = MessageOf(l) => k = l
<1>1. Turns \subseteq KeySet /\ \A k \in Turns : k[1] = "at"
  BY DEF Turns, IngestionTypeOK, Event
<1>2. ASSUME NEW k \in Turns PROVE MessageOf(k) \in Said /\ k[3] # 0
  <2>1. PICK e \in events : e.key = k /\ k[1] = "at"
    BY DEF Turns
  <2>2. PICK g \in Files : \E i \in 1 .. Len(text[g]) :
          k[2] = text[g][i][1] /\ k[3] = LineOf(g, i).msg
    BY <2>1 DEF CountedIsSaid
  <2>2a. PICK i \in 1 .. Len(text[g]) : k[2] = text[g][i][1] /\ k[3] = LineOf(g, i).msg
    BY <2>2
  <2>3. text[g][i] \in UNION {{text[f][j] : j \in 1 .. Len(text[f])} : f \in Files}
    OBVIOUS
  <2>4. <<text[g][i][1], Script[text[g][i][2]].msg>> \in Said
    BY <2>3 DEF Said
  <2> QED
    BY <2>1, <2>2a, <2>4 DEF CountedIsSaid, LineOf, MessageOf
<1>3. ASSUME NEW k \in Turns, NEW l \in Turns, MessageOf(k) = MessageOf(l) PROVE k = l
  BY <1>1, <1>3 DEF MessageOf, KeySet
<1> QED
  BY <1>1, <1>2, <1>3

\* What is said is among finitely many messages.
LEMMA SaidFinite ==
  ASSUME IngestionTypeOK
  PROVE  IsFiniteSet(Said)
<1> DEFINE All == UNION {{text[f][i] : i \in 1 .. Len(text[f])} : f \in Files}
<1>1. All \subseteq Lines
  BY DEF IngestionTypeOK
<1>2. IsFiniteSet(Lines)
  <2>1. IsFiniteSet(1 .. Len(Script))
    BY IngestionAssumption, FS_Interval
  <2> QED
    BY <2>1, IngestionAssumption, FS_Product DEF Lines
<1>3. IsFiniteSet(All)
  BY <1>1, <1>2, FS_Subset
<1> DEFINE M == [l \in All |-> <<l[1], Script[l[2]].msg>>]
<1>4. Said = {M[l] : l \in All}
  BY DEF Said
<1>5. M \in Surjection(All, Said)
  BY <1>4 DEF Surjection
<1> QED
  BY <1>3, <1>5, FS_Surjection

LEMMA TurnsFinite ==
  ASSUME IngestionTypeOK, CountedIsSaid
  PROVE  IsFiniteSet(Turns)
<1> DEFINE M == [k \in Turns |-> MessageOf(k)]
<1>1. M \in Injection(Turns, Said)
  BY TurnsAreMessages DEF Injection, IsInjective
<1> QED
  BY <1>1, SaidFinite, FS_Injection

NewMessages(A, B) == {MessageOf(k) : k \in B} \ {MessageOf(k) : k \in A}

\* A set of keys that grows counts as many more as there are new messages.
LEMMA CountGrows ==
  ASSUME NEW A, NEW B, A \subseteq B, IsFiniteSet(B),
         \A k, l \in B : MessageOf(k) = MessageOf(l) => k = l
  PROVE  /\ Cardinality(B) = Cardinality(A) + Cardinality(NewMessages(A, B))
         /\ A # B => NewMessages(A, B) # {}
<1> DEFINE M == [k \in B \ A |-> MessageOf(k)]
<1>1. NewMessages(A, B) = {MessageOf(k) : k \in B \ A}
  BY DEF NewMessages
<1>2. M \in Bijection(B \ A, NewMessages(A, B))
  BY <1>1 DEF Bijection, Injection, IsInjective, Surjection
<1>3. IsFiniteSet(A) /\ IsFiniteSet(B \ A)
  BY FS_Subset
<1>4. Cardinality(NewMessages(A, B)) = Cardinality(B \ A)
  BY <1>2, <1>3, FS_Bijection DEF ExistsBijection
<1>5. A \cup (B \ A) = B /\ A \cap (B \ A) = {}
  OBVIOUS
<1>6. Cardinality(B) = Cardinality(A) + Cardinality(B \ A) - 0
  BY <1>3, <1>5, FS_Union, FS_EmptySet
<1>7. Cardinality(A) \in Nat /\ Cardinality(B \ A) \in Nat
  BY <1>3, FS_CardinalityType
<1> QED
  <2>1. Cardinality(B) = Cardinality(A) + Cardinality(NewMessages(A, B))
    BY ONLY <1>4, <1>6, <1>7
  <2>2. A # B => NewMessages(A, B) # {}
    <3>1. A # B => \E k \in B : k \notin A
      OBVIOUS
    <3> QED
      BY <1>1, <3>1
  <2> QED
    BY <2>1, <2>2

Counted == {MessageOf(k) : k \in Turns}
SaidMessages == {m \in Said : m[2] # 0}

\* Keys and messages of the turns correspond, and are finitely many.
TurnsFit ==
  /\ IsFiniteSet(Turns)
  /\ \A k, l \in Turns : MessageOf(k) = MessageOf(l) => k = l
  /\ \A k \in Turns : MessageOf(k) \in SaidMessages

LEMMA InvTurns == IngestionInv => TurnsFit
<1> SUFFICES ASSUME IngestionInv PROVE TurnsFit
  OBVIOUS
<1>1. IngestionTypeOK /\ CountedIsSaid
  BY DEF IngestionInv
<1>2. \A k \in Turns : MessageOf(k)[2] = k[3]
  BY DEF MessageOf
<1> QED
  BY <1>1, <1>2, TurnsFinite, TurnsAreMessages DEF TurnsFit, SaidMessages

LEMMA LedgerInits == Init => Ledger!LedgerInit
<1> SUFFICES ASSUME Init PROVE Ledger!LedgerInit
  OBVIOUS
<1>1. Turns = {}
  BY DEF Init, Turns
<1>2. Said = {}
  BY DEF Init, Said
<1> QED
  BY <1>1, <1>2, FS_EmptySet DEF Ledger!LedgerInit

\* Reading counts what is new.
LEMMA ReadsCount ==
  ASSUME IngestionInv, TurnsFit', NEW f \in Files, Reads(f)
  PROVE  Ledger!Count \/ UNCHANGED Ledger!ledger
<1>1. Turns \subseteq Turns'
  BY ReadsEvents DEF Turns
<1>2. UNCHANGED Said
  BY DEF Reads, Said
<1>3. /\ IsFiniteSet(Turns')
      /\ \A k, l \in Turns' : MessageOf(k) = MessageOf(l) => k = l
      /\ \A k \in Turns' : MessageOf(k) \in SaidMessages'
  BY DEF TurnsFit
<1> DEFINE S == Counted' \ Counted
<1>9. S = NewMessages(Turns, Turns')
  BY DEF Counted, NewMessages
<1>4. Cardinality(Turns') = Cardinality(Turns) + Cardinality(S) /\ (Turns # Turns' => S # {})
  BY <1>1, <1>3, <1>9, CountGrows
<1>5. Counted' = Counted \cup S
  BY <1>1 DEF Counted
<1>6. S \subseteq SaidMessages \ Counted
  BY <1>2, <1>3 DEF Counted, SaidMessages
<1>7. CASE Turns = Turns'
  BY <1>2, <1>7 DEF Ledger!ledger
<1>8. CASE Turns # Turns'
  <2>1. S \in (SUBSET (SaidMessages \ Counted)) \ {{}}
    BY <1>4, <1>6, <1>8
  <2>2. SaidMessages' = SaidMessages
    BY <1>2 DEF SaidMessages
  <2> HIDE DEF S
  <2>3. \E T \in (SUBSET (SaidMessages \ Counted)) \ {{}} :
          /\ Counted' = Counted \cup T
          /\ Cardinality(Turns)' = Cardinality(Turns) + Cardinality(T)
          /\ SaidMessages' = SaidMessages
    BY <1>4, <1>5, <2>1, <2>2
  <2>4. /\ {m \in Said : m[2] # 0} = SaidMessages
        /\ {<<k[2], k[3]>> : k \in Turns} = Counted
        /\ {<<k[2], k[3]>> : k \in Turns'} = Counted'
    BY Zenon DEF SaidMessages, Counted, MessageOf
  <2>5. {m \in Said' : m[2] # 0} = SaidMessages'
    BY Zenon DEF SaidMessages
  <2>6. \A T : Ledger!Cardinality(T) = Cardinality(T)
    BY Zenon DEF Ledger!Cardinality, Cardinality
  <2> HIDE DEF SaidMessages, Counted
  <2> QED
    BY <2>3, <2>4, <2>5, <2>6, Zenon DEF Ledger!Count
<1> QED
  BY <1>7, <1>8

\* A line more says one message more, or one that was said.
LEMMA GrowsSay ==
  ASSUME IngestionInv, NEW f \in Files, Grows(f)
  PROVE  Ledger!Say \/ UNCHANGED Ledger!ledger
<1> DEFINE At(l) == <<l[1], Script[l[2]].msg>>
           All == UNION {{text[g][i] : i \in 1 .. Len(text[g])} : g \in Files}
           Ms == Files \X {turn.msg : turn \in {Script[n] : n \in DOMAIN Script}}
<1>1. IngestionTypeOK /\ UNCHANGED Turns
  BY DEF IngestionInv, Grows, Turns
<1>2. Said = {At(l) : l \in All} /\ Said' = {At(l) : l \in All'}
  BY DEF Said
<1>3. ASSUME All' = All PROVE UNCHANGED Ledger!ledger
  <2>1. UNCHANGED Said
    BY <1>2, <1>3
  <2> QED
    BY <1>1, <2>1 DEF Ledger!ledger
<1>4. CASE WriteLine(f)
  <2> DEFINE l == NextLine(f)
             m == At(l)
  <2>1. text' = [text EXCEPT ![f] = Append(@, l)] /\ text' \in [Files -> Seq(Lines)]
    BY <1>1, <1>4, GrowsAtEnd DEF WriteLine
  <2>2. text'[f] = Append(text[f], l) /\ \A g \in Files \ {f} : text'[g] = text[g]
    BY <1>1, <2>1 DEF IngestionTypeOK
  <2>3. /\ Len(text'[f]) = Len(text[f]) + 1 /\ Len(text[f]) \in Nat
        /\ text'[f][Len(text[f]) + 1] = l
        /\ \A i \in 1 .. Len(text[f]) : text'[f][i] = text[f][i]
    BY <1>1, <2>2 DEF IngestionTypeOK
  <2> HIDE DEF l
  <2>4. All' = All \cup {l}
    <3>1. ASSUME NEW x \in All' PROVE x \in All \cup {l}
      <4>1. PICK g \in Files : \E i \in 1 .. Len(text'[g]) : x = text'[g][i]
        BY <3>1
      <4>2. PICK i \in 1 .. Len(text'[g]) : x = text'[g][i]
        BY <4>1
      <4>3. CASE g # f
        BY <2>2, <4>2, <4>3
      <4>4. CASE g = f
        <5>1. i = Len(text[f]) + 1 \/ i \in 1 .. Len(text[f])
          BY <2>3, <4>4
        <5> QED
          BY <2>3, <4>2, <4>4, <5>1
      <4> QED
        BY <4>3, <4>4
    <3>2. ASSUME NEW x \in All PROVE x \in All'
      <4>1. PICK g \in Files : \E i \in 1 .. Len(text[g]) : x = text[g][i]
        BY <3>2
      <4>2. PICK i \in 1 .. Len(text[g]) : x = text[g][i]
        BY <4>1
      <4>3. i \in 1 .. Len(text'[g]) /\ x = text'[g][i]
        BY <2>2, <2>3, <4>2
      <4> QED
        BY <4>3
    <3>3. l \in All'
      <4>1. Len(text[f]) + 1 \in 1 .. Len(text'[f])
        BY <2>3
      <4> QED
        BY <2>3, <4>1
    <3> QED
      BY <3>1, <3>2, <3>3
  <2> HIDE DEF All
  <2>5. Said' = Said \cup {m}
    BY <1>2, <2>4
  <2>6. l \in Lines
    BY <2>1, <2>3 DEF IngestionTypeOK
  <2>7. m \in Ms /\ m[2] = Script[l[2]].msg
    BY <2>6, IngestionAssumption DEF Lines
  <2>8. CASE m[2] = 0 \/ m \in Said
    <3>1. SaidMessages' = SaidMessages
      BY <2>5, <2>8 DEF SaidMessages
    <3> QED
      BY <1>1, <3>1 DEF Ledger!ledger, SaidMessages
  <2>9. CASE m[2] # 0 /\ m \notin Said
    <3>1. SaidMessages' = SaidMessages \cup {m} /\ m \notin SaidMessages
      BY <2>5, <2>9 DEF SaidMessages
    <3> HIDE DEF m, Ms
    <3>2. \E x \in Ms \ SaidMessages :
            /\ SaidMessages' = SaidMessages \cup {x} /\ UNCHANGED Turns
      BY <1>1, <2>7, <3>1
    <3> QED
      BY <3>2 DEF Ledger!Say, SaidMessages, Ms
  <2> QED
    BY <2>8, <2>9
<1>5. CASE Resume(f)
  <2>1. PICK n \in DOMAIN text[Origin[f]] :
          text' = [text EXCEPT ![f] = SubSeq(text[Origin[f]], 1, n)]
    BY <1>5 DEF Resume
  <2>2. Origin[f] \in Files \ {f} /\ text[f] = <<>>
    BY <1>5, IngestionAssumption DEF Resume
  <2>3. /\ n \in 1 .. Len(text[Origin[f]]) /\ Len(text'[f]) = n
        /\ \A i \in 1 .. n : text'[f][i] = text[Origin[f]][i]
    BY <1>1, <2>1, <2>2 DEF IngestionTypeOK
  <2>4. \A g \in Files \ {f} : text'[g] = text[g]
    BY <1>1, <2>1 DEF IngestionTypeOK
  <2>5. All' = All
    <3>1. ASSUME NEW x \in All' PROVE x \in All
      <4>1. PICK g \in Files : \E i \in 1 .. Len(text'[g]) : x = text'[g][i]
        BY <3>1
      <4>2. PICK i \in 1 .. Len(text'[g]) : x = text'[g][i]
        BY <4>1
      <4>3. CASE g # f
        BY <2>4, <4>2, <4>3
      <4>4. CASE g = f
        <5>1. i \in 1 .. Len(text[Origin[f]]) /\ x = text[Origin[f]][i]
          BY <1>1, <2>2, <2>3, <4>2, <4>4 DEF IngestionTypeOK
        <5> QED
          BY <2>2, <5>1
      <4> QED
        BY <4>3, <4>4
    <3>2. ASSUME NEW x \in All PROVE x \in All'
      <4>1. PICK g \in Files : \E i \in 1 .. Len(text[g]) : x = text[g][i]
        BY <3>2
      <4>2. g # f
        BY <2>2, <4>1
      <4> QED
        BY <2>4, <4>1, <4>2
    <3> QED
      BY <3>1, <3>2
  <2> QED
    BY <1>3, <2>5
<1> QED
  BY <1>4, <1>5 DEF Grows

LEMMA MigratesStartOver ==
  ASSUME Migrates
  PROVE  Ledger!StartOver
<1>1. events' = {} /\ text' = text
  BY DEF Migrates, Migrated
<1>2. Turns' = {} /\ UNCHANGED Said
  BY <1>1 DEF Turns, Said
<1> QED
  BY <1>2, FS_EmptySet DEF Ledger!StartOver

LEMMA LedgerSteps ==
  ASSUME IngestionInv, TurnsFit', [Next]_vars
  PROVE  [Ledger!LedgerNext]_(Ledger!ledger)
<1>1. ASSUME UNCHANGED <<text, events>> PROVE UNCHANGED Ledger!ledger
  <2>1. UNCHANGED Turns /\ UNCHANGED Said
    BY <1>1 DEF Turns, Said
  <2> QED
    BY <2>1 DEF Ledger!ledger
<1>2. CASE Quiet \/ Begins \/ Updates
  BY <1>1, <1>2 DEF Quiet, Begins, Updates
<1>3. CASE Migrates
  BY <1>3, MigratesStartOver DEF Ledger!LedgerNext
<1>4. ASSUME NEW f \in Files, Reads(f) \/ Grows(f) PROVE [Ledger!LedgerNext]_(Ledger!ledger)
  BY <1>4, ReadsCount, GrowsSay DEF Ledger!LedgerNext
<1> QED
  BY <1>2, <1>3, <1>4, StepKinds

\* Reading transcripts as it is done, with copies, crashes and migrations, counts as the
\* ledger does: what was said, once.
THEOREM CountsLikeLedger == MCSpec => Ledger!LedgerInit /\ [][Ledger!LedgerNext]_(Ledger!ledger)
<1>1. MCInit => Init
  BY DEF MCInit
<1>2. [MCNext]_scanVars => [Next]_vars
  BY DEF MCNext, scanVars, vars
<1>3. IngestionInv /\ TurnsFit' /\ [Next]_vars => [Ledger!LedgerNext]_(Ledger!ledger)
  BY LedgerSteps
<1> QED
  BY <1>1, <1>2, <1>3, IngestionBegins, IngestionKeeps, InvTurns, LedgerInits, PTL DEF MCSpec

-----------------------------------------------------------------------------
(* What the rules raise is announced.                                      *)

\* What is read of a card: its status, and that it is a row at all.
CardOK ==
  /\ card.status \in {"absent", "new", "resolved", "dismissed"}
  /\ card = [status |-> card.status, attempts |-> card.attempts, n |-> card.n,
             base |-> card.base, about |-> card.about]

Announced ==
  /\ CardOK /\ raised \in Nat /\ notes \in Nat /\ missed \in Nat
  /\ RaisedIsAnnounced

\* The rules change the status of a card only by making it active.
LEMMA RulesRaise ==
  ASSUME CardOK, card' = RulesCard
  PROVE  CardOK' /\ (card'.status # card.status <=> Fresh(card, card'))
<1>1. CASE card.status = "absent" /\ LargeResults >= MinCalls
  <2>1. card' = [status |-> "new", attempts |-> 0, n |-> LargeResults, base |-> Unset,
                 about |-> {}]
    BY <1>1 DEF RulesCard, Upserted, Inserted
  <2> QED
    BY <1>1, <2>1 DEF CardOK, Fresh
<1>2. CASE card.status # "absent" /\ LargeResults >= MinCalls
  <2>1. \/ card' = [card EXCEPT !.n = LargeResults, !.about = {}]
        \/ /\ card.status = "resolved"
           /\ card' = [[card EXCEPT !.status = "new", !.base = Unset]
                         EXCEPT !.n = LargeResults, !.about = {}]
    BY <1>2 DEF RulesCard, Upserted, Revived
  <2> QED
    BY <1>2, <2>1 DEF CardOK, Fresh
<1>3. CASE ~(LargeResults >= MinCalls)
  BY <1>3 DEF RulesCard, CardOK, Fresh
<1> QED
  BY <1>1, <1>2, <1>3

\* What the user does to the card raises nothing.
LEMMA DisposeAnnounced ==
  ASSUME Announced, NEW s \in {"new", "resolved", "dismissed"}, Dispose(s)
  PROVE  Announced'
<1>1. card' = [card EXCEPT !.status = s, !.base = IF s = "resolved" THEN card.n ELSE Unset]
  BY DEF Dispose, Disposed
<1>2. UNCHANGED <<raised, notes, missed>>
  BY DEF Dispose
<1> QED
  BY <1>1, <1>2 DEF Announced, CardOK, RaisedIsAnnounced

LEMMA AnnouncedNext ==
  ASSUME Announced, [Next]_vars
  PROVE  Announced'
<1>1. CASE UNCHANGED coach
  BY <1>1 DEF coach, Announced, CardOK, RaisedIsAnnounced
<1>2. CASE RunRules
  BY <1>2, RulesRaise DEF RunRules, Announced, RaisedIsAnnounced
<1>3. CASE RulesFail \/ QuitBeforeEmit
  BY <1>3, RulesRaise DEF RulesFail, QuitBeforeEmit, Announced, RaisedIsAnnounced
<1>4. ASSUME NEW s \in {"new", "resolved", "dismissed"}, Dispose(s)
      PROVE  Announced'
  BY <1>4, DisposeAnnounced
<1>5. CASE ScanStep
  <2>1. ASSUME NEW f \in Files, IngestFile(f) \/ SkipBroken(f) \/ SkipFile(f)
        PROVE  UNCHANGED coach
    BY <2>1 DEF IngestFile, SkipBroken, SkipFile
  <2> QED
    BY <1>1, <1>2, <1>3, <1>5, <2>1 DEF ScanStep, Discover, EndIngest, ScanFails
<1>6. CASE Loop \/ TimeOut \/ OtherChange
  BY <1>1, <1>6 DEF Loop, Receive, ReceiveMore, TimeOut, OtherChange
<1>7. CASE Claude
  BY <1>1, <1>7 DEF Claude, WriteLine, Resume, WritePart
<1>8. CASE User
  <2>1. ASSUME NEW f \in Files, QuitBeforeOffset(f)
        PROVE  UNCHANGED coach
    BY <2>1 DEF QuitBeforeOffset
  <2> QED
    BY <1>1, <1>3, <1>4, <1>8, <2>1 DEF User, ScanNow, Quit
<1>9. CASE Start \/ StartCut \/ Update
  BY <1>1, <1>9 DEF Start, StartCut, Update
<1>10. CASE UNCHANGED vars
  BY <1>1, <1>10 DEF vars
<1> QED
  BY <1>5, <1>6, <1>7, <1>8, <1>9, <1>10 DEF Next

\* A card that the rules make active is announced, once, or the scan ended in between
\* (run_rules and diff_findings); a disposition on the way announces nothing.
THEOREM WhatIsRaisedIsTold == MCSpec => []RaisedIsAnnounced
<1>1. Init => Announced
  <2>1. Absent = [status |-> "absent", attempts |-> 0, n |-> 0, base |-> Unset, about |-> {}]
    BY DEF Absent
  <2> QED
    BY <2>1 DEF Init, Announced, CardOK, RaisedIsAnnounced
<1>2. Announced /\ [Next]_vars => Announced'
  BY AnnouncedNext
<1>3. Announced => RaisedIsAnnounced
  BY DEF Announced
<1>4. MCInit => Init
  BY DEF MCInit
<1>5. [MCNext]_scanVars => [Next]_vars
  BY DEF MCNext, scanVars, vars
<1> QED
  BY <1>1, <1>2, <1>3, <1>4, <1>5, PTL DEF MCSpec

-----------------------------------------------------------------------------
(* The picture of the day: who draws holds the lock and has the metadata of *)
(* the disk, or what they were before the picture was put in place.         *)

Metas == [cut : Nat, day : Nat, attempts : Nat]
Copies == [at : {"idle", "draw", "save", "rename"}, meta : Metas]
Tally == [day : Nat, auto : Nat, all : Nat]

CutTyped ==
  /\ meta \in Metas /\ calls \in Tally /\ drawer \in [Cut!Drawers -> Copies]
  /\ lock \in Cut!Drawers \cup {"free"}

\* Diaries are made for days there are.
DaysListed ==
  /\ row \subseteq Cut!Days /\ todo \subseteq Cut!Days
  /\ scan = "render" => held.day \in Cut!Days

\* Pictures are drawn of the latest diary, and that is never an earlier one.
InTime ==
  /\ calls.day <= meta.day
  /\ meta.day # 0 => row # {} /\ meta.day <= Cut!Latest

PairKept == (\A t \in Cut!Drawers : drawer[t].at # "rename") /\ png # 0 /\ ~torn => meta.cut = png

Budget ==
  /\ calls.auto <= calls.all /\ calls.auto <= MaxAttempts
  /\ calls.day = meta.day => calls.all <= meta.attempts

DrawerFits(t) ==
  /\ drawer[t].at # "idle" => lock = t
  /\ drawer[t].at \in {"draw", "save"} => drawer[t].meta = meta
  /\ drawer[t].at = "draw" => meta.attempts > 0
  /\ drawer[t].at = "draw" /\ calls.day = meta.day =>
       /\ calls.all < meta.attempts
       /\ t = "scan" => calls.auto < MaxAttempts
  /\ drawer[t].at = "rename" =>
       /\ meta = [drawer[t].meta EXCEPT !.cut = drawer[t].meta.day]
       /\ png # 0 /\ ~torn => drawer[t].meta.cut = png

CutInv ==
  /\ CutTyped /\ DaysListed /\ InTime /\ PairKept /\ Budget
  /\ \A t \in Cut!Drawers : DrawerFits(t)

LEMMA CutConstants ==
  /\ MaxAttempts \in Nat /\ MaxAttempts > 0 /\ LastDay \in Nat
  /\ IsFiniteSet(Cut!Days) /\ Cut!Days \subseteq Nat \ {0}
<1>1. MaxAttempts \in Nat \ {0} /\ LastDay \in Nat
  BY DaysAssumption DEF Cut!CutAssumption, Cut!DiaryAssumption
<1>2. IsFiniteSet(1 .. LastDay)
  BY <1>1, FS_Interval
<1> QED
  BY <1>1, <1>2 DEF Cut!Days

\* FiniteSetsExt picks by CHOOSE.
LEMMA MinOf ==
  ASSUME NEW S \in SUBSET Cut!Days, S # {}
  PROVE  Cut!Min(S) \in S
<1>1. S \subseteq Nat
  BY CutConstants
<1>2. PICK m \in S : \A n \in S : m <= n
  BY <1>1, Keeping!LeastNatural
<1> QED
  BY <1>2 DEF Cut!Min

LEMMA MaxOf ==
  ASSUME NEW S \in SUBSET Cut!Days, S # {}
  PROVE  Cut!Max(S) \in S /\ \A d \in S : d <= Cut!Max(S)
<1>1. \A d \in S : d \in Nat /\ d <= LastDay /\ LastDay \in Nat
  BY CutConstants DEF Cut!Days
<1> DEFINE Back == {LastDay - d : d \in S}
<1>2. Back \in SUBSET Nat /\ Back # {}
  BY <1>1
<1>3. PICK m \in Back : \A n \in Back : m <= n
  BY <1>2, Keeping!LeastNatural
<1>4. PICK e \in S : m = LastDay - e
  BY <1>3
<1>5. ASSUME NEW d \in S PROVE e >= d
  <2>1. LastDay - d \in Back
    OBVIOUS
  <2>2. LastDay - e <= LastDay - d
    BY <1>3, <1>4, <2>1
  <2>3. d \in Nat /\ e \in Nat /\ LastDay \in Nat
    BY <1>1
  <2> QED
    BY <2>2, <2>3
<1>6. Cut!Max(S) \in S /\ \A d \in S : Cut!Max(S) >= d
  BY <1>5, Zenon DEF Cut!Max
<1> QED
  BY <1>1, <1>6

LEMMA DiaryDays ==
  ASSUME DaysListed, Cut!Writing \/ Cut!Outside \/ Cut!Quit \/ Cut!QuitBeforeRow
  PROVE  DaysListed' /\ row \subseteq row'
<1> USE DEF DaysListed, Cut!facts, Cut!kept
<1>1. CASE Cut!ListMissing
  BY <1>1 DEF Cut!ListMissing, Cut!Missing
<1>2. CASE Cut!Assemble
  <2>1. todo # {} /\ todo \subseteq Cut!Days /\ row' = row
    BY <1>2 DEF Cut!Assemble
  <2>2. Cut!Min(todo) \in todo
    BY <2>1, MinOf
  <2>3. held'.day = Cut!Min(todo)
    BY <1>2, Zenon DEF Cut!Assemble, Cut!BriefOf
  <2> QED
    BY <1>2, <2>1, <2>2, <2>3 DEF Cut!Assemble
<1>3. CASE Cut!Persist \/ Cut!RenderFails \/ Cut!PersistFails
  BY <1>3 DEF Cut!Persist, Cut!RenderFails, Cut!PersistFails
<1>4. CASE Cut!TakeFacts \/ Cut!StoreLine \/ Cut!LineFails
  BY <1>4 DEF Cut!TakeFacts, Cut!StoreLine, Cut!LineFails
<1>5. CASE Cut!Outside
  <2>1. CASE Cut!Midnight
    BY <2>1 DEF Cut!Midnight
  <2>2. ASSUME NEW K, NEW d, Cut!Work(d, K) PROVE DaysListed' /\ row \subseteq row'
    BY <2>2 DEF Cut!Work
  <2>3. ASSUME NEW k, Cut!Raise(k) \/ Cut!Dispose(k) PROVE DaysListed' /\ row \subseteq row'
    BY <2>3 DEF Cut!Raise, Cut!Dispose
  <2>4. ASSUME NEW d, Cut!LoseFile(d) PROVE DaysListed' /\ row \subseteq row'
    BY <2>4 DEF Cut!LoseFile
  <2> QED
    BY <1>5, <2>1, <2>2, <2>3, <2>4 DEF Cut!Outside, Cut!WorkToday, Cut!WorkReadLate
<1>6. CASE Cut!Quit \/ Cut!QuitBeforeRow
  BY <1>6 DEF Cut!Quit, Cut!QuitBeforeRow, Cut!Quitting
<1> QED
  BY <1>1, <1>2, <1>3, <1>4, <1>5, <1>6 DEF Cut!Writing

LEMMA LatestDay ==
  ASSUME DaysListed, row # {} PROVE Cut!Latest \in row /\ Cut!Latest \in Nat /\ Cut!Latest > 0
<1>1. row \subseteq Cut!Days
  BY DEF DaysListed
<1>2. Cut!Latest \in row
  BY <1>1, MaxOf DEF Cut!Latest
<1> QED
  BY <1>1, <1>2, CutConstants

LEMMA InTimeKept ==
  ASSUME CutTyped, DaysListed, DaysListed', InTime, row \subseteq row',
         UNCHANGED <<meta, calls>>
  PROVE  InTime'
<1> SUFFICES ASSUME meta.day # 0 PROVE row' # {} /\ meta.day <= Cut!Latest'
  BY DEF InTime
<1>1. row # {} /\ row' # {} /\ meta.day <= Cut!Latest
  BY DEF InTime
<1>2. Cut!Latest \in row' /\ Cut!Latest \in Nat
  BY <1>1, LatestDay
<1>3. row' \subseteq Cut!Days
  BY DEF DaysListed
<1>4. Cut!Max(row') \in row' /\ Cut!Latest <= Cut!Max(row')
  BY <1>1, <1>2, <1>3, MaxOf
<1>5. Cut!Latest' = Cut!Max(row')
  BY DEF Cut!Latest
<1>6. meta.day \in Nat /\ Cut!Max(row') \in Nat
  BY <1>3, <1>4, CutConstants DEF CutTyped, Metas
<1> QED
  BY <1>1, <1>2, <1>4, <1>5, <1>6

\* What a diary, a scan that goes on and a button that is pressed have in common.
CutStays == UNCHANGED <<meta, png, lock, drawer, calls, torn>>

LEMMA StaysInv ==
  ASSUME CutInv, CutStays, DaysListed', row \subseteq row'
  PROVE  CutInv'
<1>1. InTime'
  BY InTimeKept DEF CutInv, CutStays
<1> QED
  BY <1>1 DEF CutInv, CutStays, CutTyped, PairKept, Budget, DrawerFits

LEMMA RowsStay ==
  ASSUME DaysListed, UNCHANGED <<row, todo, held>>, scan' \in {scan, "idle"}
  PROVE  DaysListed' /\ row \subseteq row'
BY DEF DaysListed

LEMMA BeginInv ==
  ASSUME CutInv, NEW t \in Cut!Drawers, Cut!Begin(t)
  PROVE  CutInv'
<1>1. /\ lock = "free" /\ row # {} /\ (t = "scan" => Cut!DecideCut)
      /\ meta' = Cut!Attempt(meta, Cut!Latest) /\ lock' = t
      /\ drawer' = [drawer EXCEPT ![t] = [at |-> "draw", meta |-> meta']]
      /\ UNCHANGED <<png, calls, torn, row, todo, held, scan>>
  BY DEF Cut!Begin, Cut!Turn, Cut!CanDraw, Cut!diaryVars, Cut!kept
<1>2. DaysListed' /\ row' = row
  BY <1>1, RowsStay DEF CutInv
<1> DEFINE n == IF meta.day = Cut!Latest THEN meta.attempts + 1 ELSE 1
<1>3. /\ Cut!Latest \in Nat /\ Cut!Latest > 0 /\ meta \in Metas /\ calls \in Tally
      /\ MaxAttempts \in Nat /\ MaxAttempts > 0
  BY <1>1, LatestDay, CutConstants DEF CutInv, CutTyped
<1>4. n \in Nat /\ n > 0
  BY <1>3 DEF Metas
<1>5. meta' = [cut |-> meta.cut, day |-> Cut!Latest, attempts |-> n]
  BY <1>1, <1>3 DEF Cut!Attempt, Metas
<1>6. meta' \in Metas /\ meta'.cut = meta.cut /\ meta'.day = Cut!Latest /\ meta'.attempts = n
  BY <1>3, <1>4, <1>5 DEF Metas
<1>7. drawer' \in [Cut!Drawers -> Copies] /\ drawer'[t] = [at |-> "draw", meta |-> meta']
  BY <1>1, <1>6 DEF CutInv, CutTyped, Copies
<1>8. \A u \in Cut!Drawers \ {t} : drawer'[u] = drawer[u] /\ drawer[u].at = "idle"
  BY <1>1 DEF CutInv, CutTyped, DrawerFits, Cut!Drawers
<1>9. CutTyped'
  BY <1>1, <1>6, <1>7 DEF CutInv, CutTyped
<1>10. InTime'
  <2>1. Cut!Latest' = Cut!Latest
    BY <1>2 DEF Cut!Latest
  <2>2. meta.day <= Cut!Latest /\ calls.day <= meta.day
    BY <1>3 DEF CutInv, InTime, Metas
  <2>3. calls.day <= Cut!Latest
    BY <1>3, <2>2 DEF Metas, Tally
  <2> QED
    BY <1>1, <1>2, <1>3, <1>6, <2>1, <2>3 DEF InTime
<1>11. drawer[t].at # "rename" /\ \A u \in Cut!Drawers : drawer'[u].at # "rename"
  BY <1>1, <1>7, <1>8 DEF CutInv, CutTyped, DrawerFits, Cut!Drawers
<1>12. PairKept'
  BY <1>1, <1>6, <1>8, <1>11 DEF CutInv, PairKept
<1>13. /\ calls.day = Cut!Latest => calls.all < n
       /\ calls.day = Cut!Latest /\ t = "scan" => calls.auto < MaxAttempts
  <2>1. CASE meta.day = Cut!Latest
    BY <1>1, <1>3, <2>1 DEF CutInv, Budget, Cut!DecideCut, Metas, Tally
  <2>2. CASE meta.day # Cut!Latest
    BY <1>3, <2>2 DEF CutInv, InTime, Metas, Tally
  <2> QED
    BY <2>1, <2>2
<1>14. Budget'
  BY <1>1, <1>3, <1>4, <1>6, <1>13 DEF CutInv, Budget, Tally
<1>15. ASSUME NEW u \in Cut!Drawers PROVE DrawerFits(u)'
  <2>1. CASE u = t
    BY <1>1, <1>4, <1>6, <1>7, <1>13, <2>1 DEF DrawerFits
  <2>2. CASE u # t
    BY <1>8, <2>2 DEF DrawerFits
  <2> QED
    BY <2>1, <2>2
<1> QED
  BY <1>2, <1>9, <1>10, <1>12, <1>14, <1>15 DEF CutInv

\* The other steps of a drawer: where it is afterwards, its copy as it was.
Moves(t, place) ==
  /\ drawer[t].at # "idle" /\ lock' = lock
  /\ drawer' = [drawer EXCEPT ![t].at = place]

LEMMA Moved ==
  ASSUME CutInv, NEW t \in Cut!Drawers, NEW place \in {"save", "rename"}, Moves(t, place)
  PROVE  /\ drawer' \in [Cut!Drawers -> Copies] /\ lock' = t
         /\ drawer'[t].at = place /\ drawer'[t].meta = drawer[t].meta
         /\ \A u \in Cut!Drawers \ {t} : drawer'[u] = drawer[u] /\ drawer[u].at = "idle"
<1>1. drawer \in [Cut!Drawers -> Copies] /\ lock = t
  BY DEF CutInv, CutTyped, DrawerFits, Moves
<1>2. \A c \in Copies : [c EXCEPT !.at = place] = [at |-> place, meta |-> c.meta]
  BY DEF Copies
<1>3. /\ drawer' = [drawer EXCEPT ![t] = [drawer[t] EXCEPT !.at = place]]
      /\ drawer[t] \in Copies /\ lock' = t
  BY <1>1 DEF Moves
<1>4. drawer' = [drawer EXCEPT ![t] = [at |-> place, meta |-> drawer[t].meta]]
  BY <1>2, <1>3
<1>5. [at |-> place, meta |-> drawer[t].meta] \in Copies
  BY <1>3 DEF Copies
<1>6. \A u \in Cut!Drawers \ {t} : drawer[u].at = "idle"
  BY <1>1 DEF CutInv, DrawerFits, Moves
<1> QED
  BY <1>1, <1>3, <1>4, <1>5, <1>6

LEMMA Freed ==
  ASSUME CutInv, NEW t \in Cut!Drawers, drawer[t].at # "idle", Cut!Released(t)
  PROVE  /\ drawer' \in [Cut!Drawers -> Copies] /\ lock' = "free"
         /\ \A u \in Cut!Drawers : drawer'[u].at = "idle"
<1>1. drawer \in [Cut!Drawers -> Copies] /\ Cut!Resting \in Copies /\ Cut!Resting.at = "idle"
  BY DEF CutInv, CutTyped, Copies, Metas, Cut!Resting
<1>2. drawer' = [drawer EXCEPT ![t] = Cut!Resting] /\ lock' = "free"
  BY DEF Cut!Released
<1>3. \A u \in Cut!Drawers \ {t} : drawer[u].at = "idle"
  BY DEF CutInv, DrawerFits
<1> QED
  BY <1>1, <1>2, <1>3

\* The call is counted for the day whose attempt is on disk.
LEMMA CountedOnBudget ==
  ASSUME CutInv, NEW t \in Cut!Drawers, drawer[t].at = "draw", Cut!Counted(t), UNCHANGED meta
  PROVE  calls' \in Tally /\ Budget' /\ calls'.day = meta.day
<1>1. /\ drawer[t].meta = meta /\ meta \in Metas /\ calls \in Tally
      /\ MaxAttempts \in Nat /\ MaxAttempts > 0
  BY CutConstants DEF CutInv, CutTyped, DrawerFits
<1> DEFINE one == IF t = "scan" THEN 1 ELSE 0
<1>2. CASE calls.day = meta.day
  <2>1. calls' = [day |-> calls.day, auto |-> calls.auto + one, all |-> calls.all + 1]
    BY <1>1, <1>2 DEF Cut!Counted, Tally
  <2>2. calls.all < meta.attempts /\ (t = "scan" => calls.auto < MaxAttempts)
    BY <1>2 DEF CutInv, DrawerFits
  <2> QED
    BY <1>1, <1>2, <2>1, <2>2 DEF CutInv, Budget, Metas, Tally
<1>3. CASE calls.day # meta.day
  <2>1. calls' = [day |-> meta.day, auto |-> one, all |-> 1]
    <3> DEFINE none == [day |-> meta.day, auto |-> 0, all |-> 0]
    <3>1. calls' = [none EXCEPT !.all = @ + 1, !.auto = @ + one]
      BY <1>1, <1>3, Zenon DEF Cut!Counted
    <3>2. none \in Tally /\ none.day = meta.day /\ none.auto = 0 /\ none.all = 0
      BY <1>1 DEF Tally, Metas
    <3>3. one \in Nat /\ none.auto + one = one
      BY <3>2
    <3> HIDE DEF none, one
    <3>4. calls' = [day |-> none.day, auto |-> none.auto + one, all |-> none.all + 1]
      BY <3>1, <3>2 DEF Tally
    <3> QED
      BY <3>2, <3>3, <3>4
  <2>2. meta.attempts > 0
    BY DEF CutInv, DrawerFits
  <2> QED
    BY <1>1, <1>3, <2>1, <2>2 DEF CutInv, Budget, Metas, Tally
<1> QED
  BY <1>2, <1>3

LEMMA DrawInv ==
  ASSUME CutInv, NEW t \in Cut!Drawers, Cut!Draw(t)
  PROVE  CutInv'
<1>1. /\ drawer[t].at = "draw" /\ Cut!Counted(t) /\ Moves(t, "save")
      /\ UNCHANGED <<meta, png, torn, row, todo, held, scan>>
  BY DEF Cut!Draw, Moves, Cut!diaryVars, Cut!kept
<1>2. /\ drawer' \in [Cut!Drawers -> Copies] /\ lock' = t
      /\ drawer'[t].at = "save" /\ drawer'[t].meta = drawer[t].meta
      /\ \A u \in Cut!Drawers \ {t} : drawer'[u] = drawer[u] /\ drawer[u].at = "idle"
  BY <1>1, Moved
<1>3. calls' \in Tally /\ Budget' /\ calls'.day = meta.day
  BY <1>1, CountedOnBudget
<1>4. CutTyped' /\ DaysListed'
  BY <1>1, <1>2, <1>3, RowsStay DEF CutInv, CutTyped
<1>5. InTime'
  <2>1. Cut!Latest' = Cut!Latest /\ meta.day \in Nat
    BY <1>1 DEF Cut!Latest, CutInv, CutTyped, Metas
  <2> QED
    BY <1>1, <1>3, <2>1 DEF CutInv, InTime
<1>6. PairKept'
  BY <1>1, <1>2 DEF CutInv, PairKept
<1>7. ASSUME NEW u \in Cut!Drawers PROVE DrawerFits(u)'
  BY <1>1, <1>2 DEF CutInv, DrawerFits
<1> QED
  BY <1>3, <1>4, <1>5, <1>6, <1>7 DEF CutInv

LEMMA SaveMetaInv ==
  ASSUME CutInv, NEW t \in Cut!Drawers, Cut!SaveMeta(t)
  PROVE  CutInv'
<1>1. /\ drawer[t].at = "save" /\ Moves(t, "rename")
      /\ meta' = [drawer[t].meta EXCEPT !.cut = drawer[t].meta.day]
      /\ UNCHANGED <<png, calls, torn, row, todo, held, scan>>
  BY DEF Cut!SaveMeta, Moves, Cut!diaryVars, Cut!kept
<1>2. /\ drawer' \in [Cut!Drawers -> Copies] /\ lock' = t
      /\ drawer'[t].at = "rename" /\ drawer'[t].meta = drawer[t].meta
      /\ \A u \in Cut!Drawers \ {t} : drawer'[u] = drawer[u] /\ drawer[u].at = "idle"
  BY <1>1, Moved
<1>3. drawer[t].meta = meta /\ meta \in Metas
  BY <1>1 DEF CutInv, CutTyped, DrawerFits
<1>4. /\ meta' \in Metas /\ meta' = [meta EXCEPT !.cut = meta.day]
      /\ meta'.day = meta.day /\ meta'.attempts = meta.attempts
  BY <1>1, <1>3 DEF Metas
<1>5. CutTyped' /\ DaysListed'
  BY <1>1, <1>2, <1>4, RowsStay DEF CutInv, CutTyped
<1>6. InTime'
  <2>1. Cut!Latest' = Cut!Latest
    BY <1>1 DEF Cut!Latest
  <2> QED
    BY <1>1, <1>4, <2>1 DEF CutInv, InTime
<1>7. PairKept' /\ Budget'
  BY <1>1, <1>2, <1>4 DEF CutInv, PairKept, Budget
<1>8. png # 0 /\ ~torn => meta.cut = png
  BY <1>1, <1>2 DEF CutInv, PairKept
<1>9. ASSUME NEW u \in Cut!Drawers PROVE DrawerFits(u)'
  <2>1. CASE u = t
    BY <1>1, <1>2, <1>3, <1>8, <2>1 DEF DrawerFits
  <2>2. CASE u # t
    BY <1>2, <2>2 DEF DrawerFits
  <2> QED
    BY <2>1, <2>2
<1> QED
  BY <1>5, <1>6, <1>7, <1>9 DEF CutInv

\* A drawer that is done leaves a pair that fits, or says so (torn).
LEMMA DoneInv ==
  ASSUME CutInv, NEW t \in Cut!Drawers, drawer[t].at # "idle", Cut!Done(t),
         UNCHANGED <<row, file, brief>>,
         meta' \in Metas, meta'.day = meta.day, calls' \in Tally, Budget', calls'.day <= meta.day,
         png' # 0 /\ ~torn' => meta'.cut = png'
  PROVE  CutInv'
<1>1. /\ drawer' \in [Cut!Drawers -> Copies] /\ lock' = "free"
      /\ \A u \in Cut!Drawers : drawer'[u].at = "idle"
  BY Freed DEF Cut!Done
<1>2. UNCHANGED <<todo, held>> /\ scan' \in {scan, "idle"}
  BY DEF Cut!Done
<1>3. CutTyped' /\ DaysListed'
  BY <1>1, <1>2, RowsStay DEF CutInv, CutTyped
<1>4. InTime'
  <2>1. Cut!Latest' = Cut!Latest
    BY DEF Cut!Latest
  <2> QED
    BY <2>1 DEF CutInv, InTime
<1>5. PairKept'
  BY DEF PairKept
<1>6. \A u \in Cut!Drawers : DrawerFits(u)'
  BY <1>1 DEF DrawerFits
<1> QED
  BY <1>3, <1>4, <1>5, <1>6 DEF CutInv

LEMMA EndsInv ==
  ASSUME CutInv, NEW t \in Cut!Drawers,
         \/ Cut!DrawFails(t) \/ Cut!SaveMetaFails(t)
         \/ Cut!Rename(t) \/ Cut!RenameFails(t) \/ Cut!RestoreFails(t)
  PROVE  CutInv'
<1> USE DEF Cut!kept
<1>1. meta \in Metas /\ calls \in Tally /\ Budget /\ calls.day <= meta.day /\ meta.day \in Nat
  BY DEF CutInv, CutTyped, InTime, Metas
<1>2. \A u \in Cut!Drawers : drawer[u].at # "idle" /\ u # t => drawer[t].at = "idle"
  BY DEF CutInv, DrawerFits
<1>3. CASE Cut!DrawFails(t)
  <2>1. /\ drawer[t].at = "draw" /\ Cut!Counted(t) /\ Cut!Done(t) /\ UNCHANGED <<meta, png, torn>>
        /\ UNCHANGED <<row, file, brief>>
    BY <1>3 DEF Cut!DrawFails, Cut!Done
  <2>2. calls' \in Tally /\ Budget' /\ calls'.day = meta.day
    BY <2>1, CountedOnBudget
  <2>3. png # 0 /\ ~torn => meta.cut = png
    BY <1>2, <2>1 DEF CutInv, PairKept
  <2> QED
    BY <1>1, <2>1, <2>2, <2>3, DoneInv
<1>4. CASE Cut!SaveMetaFails(t)
  <2>1. /\ drawer[t].at = "save" /\ Cut!Done(t) /\ UNCHANGED <<meta, png, calls, torn>>
        /\ UNCHANGED <<row, file, brief>>
    BY <1>4 DEF Cut!SaveMetaFails, Cut!Done
  <2>2. png # 0 /\ ~torn => meta.cut = png
    BY <1>2, <2>1 DEF CutInv, PairKept
  <2>3. Budget'
    BY <1>1, <2>1 DEF Budget
  <2> QED
    BY <1>1, <2>1, <2>2, <2>3, DoneInv
<1>5. CASE Cut!Rename(t) \/ Cut!RestoreFails(t)
  <2>1. /\ drawer[t].at = "rename" /\ Cut!Done(t) /\ UNCHANGED <<meta, calls>>
        /\ UNCHANGED <<row, file, brief>>
        /\ png' = drawer[t].meta.day \/ torn'
    BY <1>5 DEF Cut!Rename, Cut!RestoreFails, Cut!Done
  <2>2. drawer[t].meta \in Metas /\ meta = [drawer[t].meta EXCEPT !.cut = drawer[t].meta.day]
    BY <2>1 DEF CutInv, CutTyped, Copies, DrawerFits
  <2>3. meta.cut = drawer[t].meta.day
    BY <2>2 DEF Metas
  <2>4. Budget'
    BY <1>1, <2>1 DEF Budget
  <2> QED
    BY <1>1, <2>1, <2>3, <2>4, DoneInv
<1>6. CASE Cut!RenameFails(t)
  <2>1. /\ drawer[t].at = "rename" /\ Cut!Done(t) /\ UNCHANGED <<png, calls, torn>>
        /\ meta' = drawer[t].meta /\ UNCHANGED <<row, file, brief>>
    BY <1>6 DEF Cut!RenameFails, Cut!Done
  <2>2. /\ drawer[t].meta \in Metas /\ meta = [drawer[t].meta EXCEPT !.cut = drawer[t].meta.day]
        /\ png # 0 /\ ~torn => drawer[t].meta.cut = png
    BY <2>1 DEF CutInv, CutTyped, Copies, DrawerFits
  <2>3. meta'.day = meta.day /\ meta'.attempts = meta.attempts
    BY <2>1, <2>2 DEF Metas
  <2>4. Budget'
    BY <1>1, <2>1, <2>3 DEF Budget
  <2> QED
    BY <1>1, <2>1, <2>2, <2>3, <2>4, DoneInv
<1> QED
  BY <1>3, <1>4, <1>5, <1>6

LEMMA StopInv ==
  ASSUME CutInv, Cut!Stop
  PROVE  CutInv'
<1>1. /\ Cut!Quit \/ Cut!QuitBeforeRow
      /\ lock' = "free" /\ drawer' = [t \in Cut!Drawers |-> Cut!Resting]
      /\ torn' = (torn \/ \E t \in Cut!Drawers : drawer[t].at = "rename")
      /\ UNCHANGED <<meta, png, calls>>
  BY DEF Cut!Stop
<1>2. DaysListed' /\ row \subseteq row'
  BY <1>1, DiaryDays DEF CutInv
<1>3. InTime'
  BY <1>1, <1>2, InTimeKept DEF CutInv
<1>4. Cut!Resting \in Copies /\ Cut!Resting.at = "idle"
  BY DEF Copies, Metas, Cut!Resting
<1>5. CutTyped'
  BY <1>1, <1>4 DEF CutInv, CutTyped
<1>6. ~torn' => ~torn /\ \A t \in Cut!Drawers : drawer[t].at # "rename"
  BY <1>1, Zenon
<1>7. PairKept'
  BY <1>1, <1>6 DEF CutInv, PairKept
<1>8. Budget' /\ \A t \in Cut!Drawers : DrawerFits(t)'
  BY <1>1, <1>4 DEF CutInv, Budget, DrawerFits
<1> QED
  BY <1>2, <1>3, <1>5, <1>7, <1>8 DEF CutInv

LEMMA CutKeeps == CutInv /\ [Cut!Next]_dayVars => CutInv'
<1> SUFFICES ASSUME CutInv, [Cut!Next]_dayVars PROVE CutInv'
  OBVIOUS
<1>1. CASE Cut!Diary
  <2>1. Cut!Writing \/ Cut!Outside
    BY <1>1 DEF Cut!Diary
  <2>2. DaysListed' /\ row \subseteq row'
    BY <2>1, DiaryDays DEF CutInv
  <2>3. CutStays
    BY <1>1 DEF Cut!Diary, Cut!cutVars, CutStays
  <2> QED
    BY <2>2, <2>3, StaysInv
<1>2. ASSUME NEW t \in Cut!Drawers, Cut!Drawing(t) PROVE CutInv'
  BY <1>2, BeginInv, DrawInv, SaveMetaInv, EndsInv DEF Cut!Drawing
<1>3. CASE Cut!BeginFails \/ Cut!SkipCut
  <2>1. CutStays /\ UNCHANGED <<row, todo, held>> /\ scan' \in {scan, "idle"}
    BY <1>3 DEF Cut!BeginFails, Cut!SkipCut, Cut!cutVars, Cut!kept, CutStays
  <2>2. DaysListed' /\ row \subseteq row'
    BY <2>1, RowsStay DEF CutInv
  <2> QED
    BY <2>1, <2>2, StaysInv
<1>4. CASE Cut!LosePng
  <2>1. /\ png' = 0 /\ UNCHANGED <<row, todo, held, scan, meta, lock, drawer, calls, torn>>
    BY <1>4 DEF Cut!LosePng, Cut!kept
  <2>2. DaysListed' /\ row \subseteq row'
    BY <2>1, RowsStay DEF CutInv
  <2>3. InTime'
    BY <2>1, <2>2, InTimeKept DEF CutInv
  <2> QED
    BY <2>1, <2>2, <2>3 DEF CutInv, CutTyped, PairKept, Budget, DrawerFits
<1>5. CASE Cut!Stop
  BY <1>5, StopInv
<1>6. CASE UNCHANGED dayVars
  <2>1. CutStays /\ UNCHANGED <<row, todo, held, scan>>
    BY <1>6 DEF dayVars, cutVars, diaryVars, CutStays
  <2>2. DaysListed' /\ row \subseteq row'
    BY <2>1, RowsStay DEF CutInv
  <2> QED
    BY <2>1, <2>2, StaysInv
<1> QED
  BY <1>1, <1>2, <1>3, <1>4, <1>5, <1>6 DEF Cut!Next

LEMMA CutBegins == MCInit => CutInv
<1> SUFFICES ASSUME Cut!Init PROVE CutInv
  BY DEF MCInit
<1>1. /\ row = {} /\ todo = {} /\ scan = "idle" /\ meta = Cut!Resting.meta /\ png = 0
      /\ lock = "free" /\ drawer = [t \in Cut!Drawers |-> Cut!Resting]
      /\ calls = [day |-> 0, auto |-> 0, all |-> 0]
  BY DEF Cut!Init, Cut!DiaryInit
<1>2. /\ Cut!Resting.at = "idle" /\ Cut!Resting \in Copies
      /\ Cut!Resting.meta = [cut |-> 0, day |-> 0, attempts |-> 0]
  BY DEF Cut!Resting, Copies, Metas
<1>3. CutTyped /\ DaysListed
  BY <1>1, <1>2 DEF CutTyped, DaysListed, Metas, Tally
<1>4. InTime /\ PairKept /\ Budget
  BY <1>1, <1>2, CutConstants DEF InTime, PairKept, Budget
<1>5. \A t \in Cut!Drawers : DrawerFits(t)
  BY <1>1, <1>2 DEF DrawerFits
<1> QED
  BY <1>3, <1>4, <1>5 DEF CutInv

\* Whenever nobody draws, daily_cut.json tells of the picture on show, unless the two
\* files were torn apart; and the scan asks for MAX_CUT_ATTEMPTS_PER_DAY pictures a day
\* at most, with the button and quits in between (generate_daily_cut_core).
THEOREM PictureIsInOrder == MCSpec => []CutInOrder
<1>1. MCInit => CutInv
  BY CutBegins
<1>2. [MCNext]_scanVars => [Cut!Next]_dayVars
  BY DEF MCNext, scanVars
<1>3. CutInv => CutInOrder
  <2> SUFFICES ASSUME CutInv PROVE CutInOrder
    OBVIOUS
  <2>1. lock = "free" => \A t \in Cut!Drawers : drawer[t].at # "rename"
    BY DEF CutInv, DrawerFits, Cut!Drawers
  <2> QED
    BY <2>1 DEF CutInv, PairKept, Budget, CutInOrder, Cut!CutInOrder, Cut!PairFits, Cut!OnBudget
<1> QED
  BY <1>1, <1>2, <1>3, CutKeeps, PTL DEF MCSpec

-----------------------------------------------------------------------------
(* The mascot's talk: a row of the pool carries the fingerprint of what its *)
(* lines were made from.                                                    *)

RowFits(r) == r.lines # <<>> => r.print = Talk!FingerprintOf(r.made)

TalkInv ==
  /\ date \in 0 .. LastNight /\ DOMAIN pool = 0 .. LastNight
  /\ \A d \in 0 .. LastNight : RowFits(pool[d])
  /\ Talk!SaysOfNow

LEMMA StoreFits ==
  ASSUME TalkInv, Talk!StorePool PROVE TalkInv'
<1> DEFINE r == [lines |-> pass.lines, made |-> Talk!PromptOf(pass.facts),
                 print |-> Talk!FingerprintOf(pass.facts)]
<1>1. RowFits(r)
  BY DEF RowFits, Talk!PromptOf
<1>2. pool' = [pool EXCEPT ![pass.day] = r] /\ UNCHANGED <<date, spoken>>
  BY Zenon DEF Talk!StorePool
<1> HIDE DEF r
<1>3. DOMAIN pool' = DOMAIN pool /\ \A d \in DOMAIN pool : pool'[d] \in {pool[d], r}
  BY <1>2
<1>4. ASSUME NEW d \in 0 .. LastNight PROVE RowFits(pool'[d])
  <2>1. pool'[d] = pool[d] \/ pool'[d] = r
    BY <1>3 DEF TalkInv
  <2> QED
    BY <1>1, <2>1 DEF TalkInv
<1> QED
  BY <1>2, <1>3, <1>4 DEF TalkInv, RowFits, Talk!SaysOfNow

LEMMA SpeakFits ==
  ASSUME TalkInv, Talk!Speak PROVE TalkInv'
<1>1. UNCHANGED <<date, pool>>
  BY DEF Talk!Speak
<1>2. RowFits(pool[date])
  BY DEF TalkInv
<1>3. spoken' = Talk!Silence
      \/ /\ pool[date].lines # <<>> /\ pool[date].print = Talk!FingerprintOf(knowing)
         /\ spoken' = [made |-> pool[date].made, at |-> knowing]
  BY Zenon DEF Talk!Speak
<1>4. Talk!SaysOfNow'
  <2>1. CASE spoken' = Talk!Silence
    BY <2>1 DEF Talk!SaysOfNow, Talk!Silence
  <2>2. CASE spoken' # Talk!Silence
    <3>1. Talk!FingerprintOf(pool[date].made) = Talk!FingerprintOf(knowing)
      BY <1>2, <1>3, <2>2 DEF RowFits
    <3>2. /\ pool[date].made.persona = knowing.persona /\ pool[date].made.busy = knowing.busy
          /\ Talk!Cardinality(pool[date].made.findings) = Talk!Cardinality(knowing.findings)
      BY <3>1 DEF Talk!FingerprintOf
    <3>3. spoken'.made = pool[date].made /\ spoken'.at = knowing
      BY <1>3, <2>2
    <3> QED
      BY <3>2, <3>3 DEF Talk!SaysOfNow
  <2> QED
    BY <2>1, <2>2
<1> QED
  BY <1>1, <1>4 DEF TalkInv

LEMMA TalkKeeps == TalkInv /\ [Talk!TalkNext]_talkVars => TalkInv'
<1> SUFFICES ASSUME TalkInv, [Talk!TalkNext]_talkVars PROVE TalkInv'
  OBVIOUS
<1>1. CASE UNCHANGED <<date, pool, spoken>>
  BY <1>1 DEF TalkInv, RowFits, Talk!SaysOfNow
<1>2. CASE Talk!Midnight
  <2>1. /\ date < LastNight /\ date' = date + 1 /\ UNCHANGED <<pool, spoken>>
        /\ date \in 0 .. LastNight
    BY <1>2 DEF Talk!Midnight, TalkInv
  <2>2. LastNight \in Nat
    BY DaysAssumption DEF Talk!TalkAssumption
  <2>3. date' \in 0 .. LastNight
    BY <2>1, <2>2
  <2> QED
    BY <2>1, <2>3 DEF TalkInv, RowFits, Talk!SaysOfNow
<1>3. CASE Talk!QuitTalk
  BY <1>3 DEF Talk!QuitTalk, TalkInv, RowFits, Talk!SaysOfNow
<1>4. CASE Talk!Scanned \/ Talk!ReadFacts \/ Talk!EngineTalks \/ Talk!EngineFails \/ Talk!Whim
  <2>1. UNCHANGED <<date, pool, spoken>>
    BY <1>4, Zenon
       DEF Talk!Scanned, Talk!ReadFacts, Talk!EngineTalks, Talk!EngineFails, Talk!Whim
  <2> QED
    BY <1>1, <2>1
<1>5. CASE UNCHANGED talkVars
  BY <1>1, <1>5 DEF talkVars
<1> QED
  BY <1>2, <1>3, <1>4, <1>5, StoreFits, SpeakFits DEF Talk!TalkNext

\* What the mascot says was written of a day as busy, with as many findings, and for an
\* owner of the same name and type, as the facts have when it is said
\* (chatter_pool_inner, facts_fingerprint).
THEOREM SaidOfNow == MCSpec => [](part = "talk" => Talk!SaysOfNow)
<1>1. MCInit => TalkInv
  <2> SUFFICES ASSUME Talk!TalkInit PROVE TalkInv
    BY DEF MCInit
  <2>1. /\ date = 0 /\ pool = [d \in 0 .. LastNight |-> Talk!NoPool] /\ spoken = Talk!Silence
        /\ LastNight \in Nat
    BY DaysAssumption DEF Talk!TalkInit, Talk!TalkAssumption
  <2>2. RowFits(Talk!NoPool)
    BY DEF RowFits, Talk!NoPool
  <2> QED
    BY <2>1, <2>2 DEF TalkInv, Talk!SaysOfNow
<1>2. [MCNext]_scanVars => [Talk!TalkNext]_talkVars
  BY DEF MCNext, scanVars
<1>3. TalkInv => (part = "talk" => Talk!SaysOfNow)
  BY DEF TalkInv
<1> QED
  BY <1>1, <1>2, <1>3, TalkKeeps, PTL DEF MCSpec

-----------------------------------------------------------------------------
(* The lines of the pool. *)

\* A trimmed line is empty or has no blank at its ends.
Trimmed(C) == {l \in Seq(C) : l # <<>> => Head(l) # " " /\ Talk!Last(l) # " "}

LEMMA TrimTrims ==
  ASSUME NEW C, NEW l \in Seq(C) PROVE Talk!TrimLine(l) \in Trimmed(C)
<1> DEFINE kept == {i \in DOMAIN l : ~Talk!Blank(l[i])}
<1>1. Len(l) \in Nat /\ DOMAIN l = 1 .. Len(l) /\ \A i \in 1 .. Len(l) : l[i] \in C
  OBVIOUS
<1>2. CASE kept = {}
  <2>1. Talk!TrimLine(l) = <<>>
    BY <1>2, Zenon DEF Talk!TrimLine
  <2> QED
    BY <2>1 DEF Trimmed
<1>3. CASE kept # {}
  <2>1. kept \in SUBSET (1 .. Len(l))
    BY <1>1
  <2>2. PICK a \in kept : a = Keeping!Min(kept) /\ \A i \in kept : a <= i
    BY <1>1, <1>3, <2>1, Keeping!MinIsFirst
  <2>3. PICK b \in kept : b = Keeping!Max(kept) /\ \A i \in kept : i <= b
    BY <1>1, <1>3, <2>1, Keeping!MaxIsLast
  <2>4. Talk!TrimLine(l) = SubSeq(l, a, b)
    BY <1>3, <2>2, <2>3, Zenon DEF Talk!TrimLine, Keeping!Min, Keeping!Max
  <2>5. l[a] # " " /\ l[b] # " "
    BY DEF Talk!Blank
  <2> HIDE DEF kept
  <2>6. a \in Nat /\ b \in Nat /\ 1 <= a /\ a <= b /\ b <= Len(l)
    BY <1>1, <2>1, <2>2, <2>3
  <2> DEFINE t == SubSeq(l, a, b)
  <2>7. /\ t \in Seq(C) /\ Len(t) = b - a + 1 /\ t[1] = l[a] /\ t[b - a + 1] = l[b]
    <3>1. a \in Int /\ b \in Int /\ a <= b
      BY <2>6
    <3>0. \A i \in a .. b : l[i] \in C
      <4>1. \A i \in a .. b : i \in 1 .. Len(l)
        BY <1>1, <2>6
      <4> QED
        BY <1>1, <4>1
    <3>2. /\ t \in Seq(C) /\ Len(t) = (IF a <= b THEN b - a + 1 ELSE 0)
          /\ \A i \in 1 .. b - a + 1 : t[i] = l[a + i - 1]
      BY <3>0, <3>1, SubSeqProperties
    <3>3. 1 \in 1 .. b - a + 1 /\ b - a + 1 \in 1 .. b - a + 1 /\ a + (b - a + 1) - 1 = b /\ a + 1 - 1 = a
      BY <3>1
    <3> QED
      BY <3>1, <3>2, <3>3
  <2> HIDE DEF t
  <2>8. Head(t) # " " /\ Talk!Last(t) # " "
    <3>1. Len(t) \in Nat \ {0}
      BY <2>6, <2>7
    <3>2. Head(t) = t[1] /\ Talk!Last(t) = t[b - a + 1]
      BY <2>7, <3>1 DEF Talk!Last
    <3> QED
      BY <2>5, <2>7, <3>2
  <2> QED
    BY <2>4, <2>7, <2>8 DEF t, Trimmed
<1> QED
  BY <1>2, <1>3

LEMMA TailTwice ==
  ASSUME NEW C, NEW l \in Seq(C), Len(l) >= 2
  PROVE  Tail(Tail(l)) \in Seq(C) /\ Tail(Talk!Front(l)) \in Seq(C)
<1>1. l # <<>> /\ Len(l) \in Nat
  OBVIOUS
<1>2. Tail(l) \in Seq(C) /\ Len(Tail(l)) = Len(l) - 1
  BY <1>1
<1>3. Tail(l) # <<>>
  <2>1. Len(Tail(l)) # 0
    BY <1>1, <1>2
  <2> QED
    BY <2>1, EmptySeq
<1>4. Tail(Tail(l)) \in Seq(C)
  BY <1>2, <1>3
<1>5. Talk!Front(l) = SubSeq(l, 1, Len(l) - 1)
  BY <1>1 DEF Talk!Front
<1>6. Talk!Front(l) \in Seq(C) /\ Len(Talk!Front(l)) = Len(l) - 1
  BY <1>1, <1>5
<1>7. Talk!Front(l) # <<>>
  BY <1>1, <1>6
<1> QED
  BY <1>4, <1>6, <1>7, HeadTailProperties

\* What parse_chatter_lines does to one line.
LEMMA LineTrimmed ==
  ASSUME NEW C, NEW l \in Seq(C)
  PROVE  Talk!TrimLine(Talk!Unquoted(Talk!TrimLine(Talk!Unnumbered(Talk!Unbulleted(Talk!TrimLine(l))))))
           \in Trimmed(C)
<1>1. \A x \in Seq(C) : Talk!TrimLine(x) \in Seq(C)
  BY TrimTrims DEF Trimmed
<1>2. \A x \in Seq(C) : Talk!Unbulleted(x) \in Seq(C)
  BY TailTwice DEF Talk!Unbulleted
<1>3. \A x \in Seq(C) : Talk!Unnumbered(x) \in Seq(C)
  BY TailTwice DEF Talk!Unnumbered
<1>4. \A x \in Seq(C) : Talk!Unquoted(x) \in Seq(C)
  BY <1>1, TailTwice DEF Talk!Unquoted
<1> QED
  BY <1>1, <1>2, <1>3, <1>4, TrimTrims

CleanLines == {s \in Seq(Trimmed(Talk!Characters) \ {<<>>}) : Len(s) <= PoolSize}

LEMMA ParsedClean ==
  ASSUME NEW d \in Drafts PROVE Talk!ParseLines(d) \in CleanLines
<1> DEFINE C == Talk!Characters
           T == Trimmed(C) \ {<<>>}
           stripped == [i \in DOMAIN d |->
             Talk!TrimLine(Talk!Unquoted(Talk!TrimLine(Talk!Unnumbered(Talk!Unbulleted(Talk!TrimLine(d[i]))))))]
<1>1. PoolSize \in Nat \ {0} /\ d \in Seq(Seq(C))
  BY DaysAssumption DEF Talk!TalkAssumption
<1>2. stripped \in Seq(Trimmed(C))
  <2>1. Len(d) \in Nat /\ DOMAIN d = 1 .. Len(d) /\ \A i \in 1 .. Len(d) : d[i] \in Seq(C)
    BY <1>1
  <2>2. \A i \in 1 .. Len(d) : stripped[i] \in Trimmed(C)
    BY <2>1, LineTrimmed
  <2>3. stripped = [i \in 1 .. Len(d) |-> stripped[i]]
    BY <2>1
  <2> HIDE DEF stripped
  <2> QED
    BY <2>1, <2>2, <2>3
<1> HIDE DEF C, stripped
<1> DEFINE lines == Keeping!FromLeft(stripped)
           I == [k \in 0 .. Len(stripped) |-> Seq(T)]
<1>3. lines \in Seq(T)
  <2>1. Len(stripped) \in Nat
    BY <1>2
  <2>2. <<>> \in I[0]
    BY <2>1
  <2>3. ASSUME NEW k \in 1 .. Len(stripped), NEW a \in I[k - 1]
        PROVE  Talk!Kept(a, stripped[k]) \in I[k]
    <3>1. a \in Seq(T) /\ k \in 0 .. Len(stripped) /\ k - 1 \in 0 .. Len(stripped)
      BY <2>1
    <3>2. stripped[k] \in Trimmed(C)
      BY <1>2
    <3>3. Talk!Kept(a, stripped[k]) \in Seq(T)
      BY <3>1, <3>2 DEF Talk!Kept
    <3> QED
      BY <3>1, <3>3
  <2>4. lines \in I[Len(stripped)]
    <3> HIDE DEF I
    <3> QED
      BY <1>2, <2>2, <2>3, Keeping!FoldLeftHolds
  <2> QED
    BY <2>1, <2>4
<1>4. Talk!ParseLines(d) = SubSeq(lines, 1, IF Len(lines) < PoolSize THEN Len(lines) ELSE PoolSize)
  BY Zenon DEF Talk!ParseLines, Keeping!FromLeft, Talk!FoldLeft, Keeping!FoldLeft, Talk!MapThenFoldSet,
     Keeping!MapThenFoldSet, Talk!Max, Keeping!Max, stripped
<1> HIDE DEF lines, T
<1> DEFINE n == IF Len(lines) < PoolSize THEN Len(lines) ELSE PoolSize
<1>5. n \in Nat /\ n <= Len(lines) /\ n <= PoolSize
  BY <1>1, <1>3
<1> HIDE DEF n
<1>6. SubSeq(lines, 1, n) \in Seq(T) /\ Len(SubSeq(lines, 1, n)) = n
  <2>1. \A i \in 1 .. n : lines[i] \in T
    BY <1>3, <1>5
  <2>2. /\ SubSeq(lines, 1, n) \in Seq(T)
        /\ Len(SubSeq(lines, 1, n)) = (IF 1 <= n THEN n - 1 + 1 ELSE 0)
    BY <1>5, <2>1, SubSeqProperties
  <2> QED
    BY <1>5, <2>2
<1> QED
  BY <1>4, <1>5, <1>6 DEF CleanLines, n, T, C

\* Rows and answers under way hold clean lines.
LinesInv ==
  /\ DOMAIN pool = 0 .. LastNight /\ \A d \in 0 .. LastNight : pool[d].lines \in CleanLines
  /\ pass.pc = "store" => pass.lines \in CleanLines
  /\ pass.pc = "ask" => DOMAIN pass = {"pc", "day", "facts", "lines"}

LEMMA NothingIsClean == <<>> \in CleanLines
BY DaysAssumption DEF CleanLines, Talk!TalkAssumption

LEMMA LinesNext == LinesInv /\ [Talk!TalkNext]_talkVars => LinesInv'
<1> SUFFICES ASSUME LinesInv, [Talk!TalkNext]_talkVars PROVE LinesInv'
  OBVIOUS
<1>1. CASE Talk!Scanned
  <2>1. pool' = pool /\ pass'.pc = "read"
    BY <1>1 DEF Talk!Scanned
  <2> QED
    BY <2>1 DEF LinesInv
<1>2. CASE Talk!ReadFacts
  <2> DEFINE asked == [pc |-> IF Talk!Quiet(knowing) THEN "store" ELSE "ask",
                       day |-> pass.day, facts |-> knowing, lines |-> <<>>]
  <2>1. pool' = pool /\ (pass' = Talk!Resting \/ pass' = asked)
    BY <1>2, Zenon DEF Talk!ReadFacts
  <2>2. asked.lines \in CleanLines /\ DOMAIN asked = {"pc", "day", "facts", "lines"}
    BY NothingIsClean
  <2> HIDE DEF asked
  <2> QED
    BY <2>1, <2>2 DEF LinesInv, Talk!Resting
<1>3. CASE Talk!EngineTalks
  <2>1. pool' = pool /\ pass.pc = "ask"
    BY <1>3 DEF Talk!EngineTalks
  <2>2. PICK d \in Drafts : pass' = [pass EXCEPT !.pc = "store", !.lines = Talk!ParseLines(d)]
    BY <1>3 DEF Talk!EngineTalks
  <2>3. pass'.pc = "store" /\ pass'.lines = Talk!ParseLines(d)
    BY <2>1, <2>2 DEF LinesInv
  <2> QED
    BY <2>1, <2>3, ParsedClean DEF LinesInv
<1>4. CASE Talk!EngineFails \/ Talk!QuitTalk
  <2>1. pool' = pool /\ pass' = Talk!Resting
    BY <1>4 DEF Talk!EngineFails, Talk!QuitTalk
  <2> QED
    BY <2>1 DEF LinesInv, Talk!Resting
<1>5. CASE Talk!StorePool
  <2> DEFINE r == [lines |-> pass.lines, made |-> Talk!PromptOf(pass.facts),
                   print |-> Talk!FingerprintOf(pass.facts)]
  <2>1. /\ pool' = [pool EXCEPT ![pass.day] = r]
        /\ pass.pc = "store" /\ pass' = Talk!Resting
    BY <1>5, Zenon DEF Talk!StorePool
  <2>2. r.lines \in CleanLines
    BY <2>1 DEF LinesInv
  <2> HIDE DEF r
  <2>3. DOMAIN pool' = DOMAIN pool /\ \A d \in DOMAIN pool : pool'[d] \in {pool[d], r}
    BY <2>1
  <2>4. ASSUME NEW d \in 0 .. LastNight PROVE pool'[d].lines \in CleanLines
    <3>1. pool'[d] = pool[d] \/ pool'[d] = r
      BY <2>3 DEF LinesInv
    <3> QED
      BY <2>2, <3>1 DEF LinesInv
  <2> QED
    BY <2>1, <2>3, <2>4 DEF LinesInv, Talk!Resting
<1>6. CASE Talk!Speak \/ Talk!Whim \/ Talk!Midnight \/ UNCHANGED talkVars
  <2>1. UNCHANGED <<pool, pass>>
    BY <1>6, Zenon DEF Talk!Speak, Talk!Whim, Talk!Midnight, talkVars
  <2> QED
    BY <2>1 DEF LinesInv
<1> QED
  BY <1>1, <1>2, <1>3, <1>4, <1>5, <1>6 DEF Talk!TalkNext

\* What the mascot says was written of a day like now, and no line of its pool is empty,
\* has blanks at its ends or exceeds the pool's size, whatever the engine answers
\* (chatter_pool_inner, parse_chatter_lines).
THEOREM TalkStaysFit == MCSpec => []TalkFits
<1>1. MCInit => LinesInv
  <2> SUFFICES ASSUME Talk!TalkInit PROVE LinesInv
    BY DEF MCInit
  <2>1. pool = [d \in 0 .. LastNight |-> Talk!NoPool] /\ pass = Talk!Resting
    BY DEF Talk!TalkInit
  <2>2. Talk!NoPool.lines \in CleanLines
    BY NothingIsClean DEF Talk!NoPool
  <2> QED
    BY <2>1, <2>2 DEF LinesInv, Talk!Resting
<1>2. [MCNext]_scanVars => [Talk!TalkNext]_talkVars
  BY DEF MCNext, scanVars
<1>3. LinesInv => Talk!LinesClean
  <2> SUFFICES ASSUME LinesInv, NEW d \in 0 .. LastNight
               PROVE  /\ Len(pool[d].lines) <= PoolSize
                      /\ \A i \in DOMAIN pool[d].lines :
                           LET l == pool[d].lines[i]
                           IN  l # <<>> /\ Head(l) # " " /\ Talk!Last(l) # " "
    BY DEF Talk!LinesClean
  <2>1. pool[d].lines \in Seq(Trimmed(Talk!Characters) \ {<<>>}) /\ Len(pool[d].lines) <= PoolSize
    BY DEF LinesInv, CleanLines
  <2>2. \A i \in DOMAIN pool[d].lines : pool[d].lines[i] \in Trimmed(Talk!Characters) \ {<<>>}
    BY <2>1
  <2> QED
    BY <2>1, <2>2 DEF Trimmed
<1>4. (part = "talk" => Talk!SaysOfNow) /\ Talk!LinesClean => TalkFits
  BY DEF TalkFits, Talk!TalkFits
<1> QED
  BY <1>1, <1>2, <1>3, <1>4, LinesNext, SaidOfNow, PTL DEF MCSpec

-----------------------------------------------------------------------------
(* The diaries.  collect_similar_diaries walks back day by day; what it has *)
(* after some days is proved for the least number of days it could fail at. *)

LEMMA DiarySizes == \A S : Cut!Cardinality(S) = Cardinality(S)
BY DEF Cardinality, Cut!Cardinality, IsFiniteSet, Cut!IsFiniteSet

\* The diaries of d's kind that the window does not bring along anyway.
Alike(d) == {e \in Cut!Readable \ Cut!Window(d) : Cut!Kind(e) = Cut!Kind(d)}

StepBack(found, i, d) ==
  IF Cardinality(found) < SimilarMax /\ d - i \in Alike(d) THEN found \cup {d - i} ELSE found

\* What is found after each of n days.
Walk(g, n, d) == g = [i \in 0 .. n |-> IF i = 0 THEN {} ELSE StepBack(g[i - 1], i, d)]

LEMMA WalkExists ==
  ASSUME NEW d, NEW n \in Nat PROVE \E g : Walk(g, n, d)
<1> DEFINE Bad == {k \in Nat : ~\E g : Walk(g, k, d)}
<1> SUFFICES ASSUME Bad # {} PROVE FALSE
  OBVIOUS
<1>1. PICK m \in Bad : \A k \in Bad : m <= k
  BY Keeping!LeastNatural
<1>2. CASE m = 0
  <2> DEFINE h == [i \in 0 .. 0 |-> {}]
  <2>1. h = [i \in 0 .. 0 |-> IF i = 0 THEN {} ELSE StepBack(h[i - 1], i, d)]
    OBVIOUS
  <2> QED
    BY <1>1, <1>2, <2>1 DEF Walk
<1>3. CASE m # 0
  <2>1. m \in Nat /\ m - 1 \in Nat /\ m - 1 \notin Bad
    BY <1>1, <1>3
  <2>2. PICK g : Walk(g, m - 1, d)
    BY <2>1
  <2> DEFINE h == [i \in 0 .. m |-> IF i = m THEN StepBack(g[m - 1], m, d) ELSE g[i]]
  <2>3. ASSUME NEW i \in 0 .. m
        PROVE  h[i] = IF i = 0 THEN {} ELSE StepBack(h[i - 1], i, d)
    <3>1. CASE i = m
      <4>1. h[m - 1] = g[m - 1] /\ h[m] = StepBack(g[m - 1], m, d)
        BY <2>1
      <4> QED
        BY <1>3, <3>1, <4>1
    <3>2. CASE i # m
      <4>1. i \in 0 .. m - 1 /\ h[i] = g[i] /\ (i # 0 => h[i - 1] = g[i - 1])
        BY <2>1, <3>2
      <4> HIDE DEF h
      <4>2. g[i] = IF i = 0 THEN {} ELSE StepBack(g[i - 1], i, d)
        BY <2>2, <4>1 DEF Walk
      <4> QED
        BY <4>1, <4>2
    <3> QED
      BY <3>1, <3>2
  <2>4. h = [i \in 0 .. m |-> IF i = 0 THEN {} ELSE StepBack(h[i - 1], i, d)]
    <3>1. h = [i \in 0 .. m |-> h[i]]
      OBVIOUS
    <3> HIDE DEF h
    <3> QED
      BY <2>3, <3>1
  <2> QED
    BY <1>1, <2>4 DEF Walk
<1> QED
  BY <1>2, <1>3

\* After i days: the latest of those found there, as many as may be.
Found(X, i, d) ==
  /\ X \subseteq Alike(d) \cap (d - i .. d - 1)
  /\ IsFiniteSet(X) /\ Cardinality(X) <= SimilarMax
  /\ \A e \in (Alike(d) \cap (d - i .. d - 1)) \ X :
       Cardinality(X) = SimilarMax /\ \A f \in X : f > e

LEMMA StepFinds ==
  ASSUME NEW d \in Nat, NEW i \in Nat, NEW X, Found(X, i, d)
  PROVE  Found(StepBack(X, i + 1, d), i + 1, d)
<1> DEFINE e0 == d - (i + 1)
           Y == StepBack(X, i + 1, d)
<1> SUFFICES Found(Y, i + 1, d)
  OBVIOUS
<1>1. SimilarMax \in Nat
  BY DaysAssumption DEF Cut!DiaryAssumption
<1>2. Cardinality(X) \in Nat /\ IsFiniteSet(X)
  BY FS_CardinalityType DEF Found
<1>3. e0 \notin X /\ d - (i + 1) .. d - 1 = (d - i .. d - 1) \cup {e0}
  BY DEF Found
<1>4. CASE Cardinality(X) < SimilarMax /\ e0 \in Alike(d)
  <2>1. Y = X \cup {e0}
    BY <1>4 DEF StepBack
  <2>2. IsFiniteSet(Y) /\ Cardinality(Y) = Cardinality(X) + 1
    BY <1>2, <1>3, <2>1, FS_AddElement
  <2>3. \A e \in (Alike(d) \cap (d - (i + 1) .. d - 1)) \ Y : FALSE
    BY <1>1, <1>2, <1>3, <1>4, <2>1 DEF Found
  <2>4. Y \subseteq Alike(d) \cap (d - (i + 1) .. d - 1)
    BY <1>3, <1>4, <2>1 DEF Found
  <2> HIDE DEF Y
  <2> QED
    BY <1>1, <1>2, <1>4, <2>2, <2>3, <2>4 DEF Found
<1>5. CASE ~(Cardinality(X) < SimilarMax /\ e0 \in Alike(d))
  <2>1. Y = X
    BY <1>5 DEF StepBack
  <2>2. \A f \in X : f \in Int /\ f > e0
    BY DEF Found
  <2>3. \A e \in (Alike(d) \cap (d - (i + 1) .. d - 1)) \ X :
          Cardinality(X) = SimilarMax /\ \A f \in X : f > e
    <3> SUFFICES ASSUME NEW e \in (Alike(d) \cap (d - (i + 1) .. d - 1)) \ X
                 PROVE  Cardinality(X) = SimilarMax /\ \A f \in X : f > e
      OBVIOUS
    <3>1. CASE e = e0
      BY <1>1, <1>2, <1>5, <2>2, <3>1 DEF Found
    <3>2. CASE e # e0
      <4>1. e \in (Alike(d) \cap (d - i .. d - 1)) \ X
        BY <1>3, <3>2
      <4> QED
        BY <4>1 DEF Found
    <3> QED
      BY <3>1, <3>2
  <2>4. X \subseteq Alike(d) \cap (d - (i + 1) .. d - 1)
    BY <1>3 DEF Found
  <2> HIDE DEF Y
  <2> QED
    BY <2>1, <2>3, <2>4 DEF Found
<1> QED
  BY <1>4, <1>5

LEMMA WalkFinds ==
  ASSUME NEW d \in Nat, NEW n \in Nat, NEW g, Walk(g, n, d)
  PROVE  Found(g[n], n, d)
<1>1. \A i \in 0 .. n : g[i] = IF i = 0 THEN {} ELSE StepBack(g[i - 1], i, d)
  BY DEF Walk
<1> DEFINE Bad == {i \in 0 .. n : ~Found(g[i], i, d)}
<1>2. ASSUME Bad # {} PROVE FALSE
  <2>1. PICK m \in Bad : \A i \in Bad : m <= i
    <3>1. Bad \in SUBSET Nat
      OBVIOUS
    <3> HIDE DEF Bad
    <3> QED
      BY <1>2, <3>1, Keeping!LeastNatural
  <2>2. CASE m = 0
    <3>1. g[0] = {}
      BY <1>1
    <3>2. SimilarMax \in Nat
      BY DaysAssumption DEF Cut!DiaryAssumption
    <3>3. d - 0 .. d - 1 = {}
      OBVIOUS
    <3>4. Found({}, 0, d)
      BY <3>2, <3>3, FS_EmptySet DEF Found
    <3> QED
      BY <2>1, <2>2, <3>1, <3>4
  <2>3. CASE m # 0
    <3>1. m \in 0 .. n /\ m - 1 \in 0 .. n /\ m - 1 \in Nat /\ m - 1 \notin Bad /\ m - 1 + 1 = m
      BY <2>1, <2>3
    <3>2. Found(g[m - 1], m - 1, d)
      BY <3>1
    <3>3. g[m] = StepBack(g[m - 1], m, d)
      BY <1>1, <2>3, <3>1
    <3>4. Found(StepBack(g[m - 1], m - 1 + 1, d), m - 1 + 1, d)
      BY <3>1, <3>2, StepFinds
    <3> QED
      BY <2>1, <3>1, <3>3, <3>4
  <2> QED
    BY <2>2, <2>3
<1> QED
  BY <1>2

\* So the diaries found are the SimilarMax latest of the kind.
LEMMA SimilarFinds ==
  ASSUME NEW d \in Nat, Cut!Kind(d) # "plain"
  PROVE  Found(Cut!Similar(d), SimilarBack, d)
<1>1. SimilarBack \in Nat
  BY DaysAssumption DEF Cut!DiaryAssumption
<1> DEFINE Back(g) ==
             g = [i \in 0 .. SimilarBack |->
                    IF i = 0 THEN {}
                    ELSE IF /\ Cut!Cardinality(g[i - 1]) < SimilarMax
                            /\ d - i \in Cut!Readable \ Cut!Window(d)
                            /\ Cut!Kind(d - i) = Cut!Kind(d)
                         THEN g[i - 1] \cup {d - i} ELSE g[i - 1]]
           back == CHOOSE g : Back(g)
<1>2. \A g : Walk(g, SimilarBack, d) <=> Back(g)
  BY DiarySizes DEF Walk, StepBack, Alike
<1>3. Cut!Similar(d) = back[SimilarBack]
  BY DEF Cut!Similar
<1> HIDE DEF Back
<1>4. \E g : Back(g)
  BY <1>1, <1>2, WalkExists
<1>5. Back(back)
  BY <1>4, Zenon
<1> HIDE DEF back
<1> QED
  BY <1>1, <1>2, <1>3, <1>5, WalkFinds

\* What a brief tells had sessions in its scope on that day.
OfScope(b, d) == \A k \in b.told : k \in Cut!Keys /\ d \in scope[k]

\* The brief that is with the engine is for a day without a diary, and repeats none of the
\* diaries it brings along.
HeldFits ==
  scan = "render" =>
    /\ held.day \notin row \cup todo
    /\ held.recent \subseteq row /\ OfScope(held, held.day)
    /\ \A d \in held.recent :
         d < held.day /\ held.day <= d + Lookback => brief[d].told \cap held.told = {}

DiaryInv ==
  /\ plan \in Plans /\ cards \subseteq Cut!Keys
  /\ DOMAIN scope = Cut!Keys /\ DOMAIN brief = Cut!Days
  /\ todo \cap row = {}
  /\ \A d \in row : brief[d].recent \subseteq row /\ OfScope(brief[d], d)
  /\ HeldFits
  /\ Cut!NotToldAgain

\* Steps that write no diary: days only enter the scopes of findings.
LEMMA DiaryRests ==
  ASSUME DiaryInv, UNCHANGED <<plan, row, brief>>, cards' \subseteq Cut!Keys,
         DOMAIN scope' = Cut!Keys, \A k \in Cut!Keys : scope[k] \subseteq scope'[k],
         todo' \cap row = {},
         scan' = "render" => scan = "render" /\ held' = held /\ todo' = todo
  PROVE  DiaryInv'
BY DEF DiaryInv, HeldFits, OfScope, Cut!NotToldAgain

LEMMA DiaryFacts ==
  /\ Lookback \in Nat /\ SimilarBack \in Nat /\ SimilarMax \in Nat
  /\ Cut!Days \subseteq Nat
BY DaysAssumption, CutConstants DEF Cut!DiaryAssumption

LEMMA PersistFits ==
  ASSUME DiaryInv, DaysListed, Cut!Persist PROVE DiaryInv'
<1>1. /\ scan = "render" /\ scan' = "diaries" /\ row' = row \cup {held.day}
      /\ brief' = [brief EXCEPT ![held.day] = held]
      /\ UNCHANGED <<plan, cards, scope, todo>>
  BY DEF Cut!Persist, Cut!facts
<1>2. held.day \in Cut!Days /\ row \subseteq Cut!Days /\ held.day \notin row \cup todo
  BY <1>1 DEF DaysListed, DiaryInv, HeldFits
<1>3. /\ brief'[held.day] = held /\ \A d \in row : brief'[d] = brief[d]
      /\ DOMAIN brief' = Cut!Days
  BY <1>1, <1>2 DEF DiaryInv
<1>4. \A d \in row' : brief'[d].recent \subseteq row /\ OfScope(brief'[d], d)
  BY <1>1, <1>2, <1>3 DEF DiaryInv, HeldFits
<1>5. Cut!NotToldAgain'
  <2> SUFFICES ASSUME NEW d \in row', NEW e \in row', d < e, e <= d + Lookback,
                      d \in brief'[e].recent
               PROVE  brief'[d].told \cap brief'[e].told = {}
    BY DEF Cut!NotToldAgain
  <2>1. d \in row /\ brief'[d] = brief[d]
    BY <1>3, <1>4
  <2>2. CASE e = held.day
    BY <1>1, <1>3, <2>1, <2>2 DEF DiaryInv, HeldFits
  <2>3. CASE e # held.day
    BY <1>1, <1>3, <2>1, <2>3 DEF DiaryInv, Cut!NotToldAgain
  <2> QED
    BY <2>2, <2>3
<1> QED
  BY <1>1, <1>2, <1>3, <1>4, <1>5 DEF DiaryInv, HeldFits, OfScope

LEMMA AssembleFits ==
  ASSUME DiaryInv, DaysListed, Cut!Assemble PROVE DiaryInv'
<1> DEFINE e == Cut!Min(todo)
<1>1. /\ todo # {} /\ scan' = "render" /\ held' = Cut!BriefOf(e) /\ todo' = todo \ {e}
      /\ UNCHANGED <<plan, cards, scope, row, file, brief>>
  BY DEF Cut!Assemble, Cut!facts, Cut!kept
<1>2. e \in todo /\ e \in Cut!Days /\ e \in Nat /\ e \notin row /\ row \subseteq Nat
  <2>1. todo \in SUBSET Cut!Days /\ row \subseteq Cut!Days
    BY DEF DaysListed
  <2> QED
    BY <1>1, <2>1, MinOf, DiaryFacts DEF DiaryInv
<1> HIDE DEF e
<1>3. /\ held'.day = e /\ held'.recent = Cut!Window(e) \cup Cut!Similar(e)
      /\ held'.told \subseteq Cut!Of(e) \ Cut!Covered(e)
  BY <1>1 DEF Cut!BriefOf
<1>4. Cut!Similar(e) \subseteq row
  <2>1. CASE Cut!Kind(e) = "plain"
    BY <2>1 DEF Cut!Similar
  <2>2. CASE Cut!Kind(e) # "plain"
    BY <1>2, <2>2, SimilarFinds DEF Found, Alike, Cut!Readable
  <2> QED
    BY <2>1, <2>2
<1>5. Cut!Similar(e) \subseteq Cut!Readable
  <2>1. CASE Cut!Kind(e) = "plain"
    BY <2>1 DEF Cut!Similar
  <2>2. CASE Cut!Kind(e) # "plain"
    BY <1>2, <2>2, SimilarFinds DEF Found, Alike
  <2> QED
    BY <2>1, <2>2
<1>6. held'.recent \subseteq Cut!Readable /\ held'.recent \subseteq row
  BY <1>3, <1>4, <1>5 DEF Cut!Window, Cut!Readable
<1>7. OfScope(held', e)
  BY <1>3 DEF OfScope, Cut!Of, DiaryInv
<1>8. ASSUME NEW d \in held'.recent, d < e, e <= d + Lookback
      PROVE  brief[d].told \cap held'.told = {}
  <2>1. d \in Nat /\ d \in row /\ d \in Cut!Readable
    BY <1>2, <1>6
  <2>2. d \in Cut!Window(e)
    BY <1>2, <1>8, <2>1, DiaryFacts DEF Cut!Window
  <2>3. Cut!Of(d) \subseteq Cut!Covered(e)
    BY <2>2 DEF Cut!Covered
  <2>4. \A k \in brief[d].told \cap held'.told : k \in Cut!Of(d)
    BY <1>3, <2>1 DEF Cut!Of, DiaryInv, OfScope
  <2> QED
    BY <1>3, <2>3, <2>4
<1>9. HeldFits'
  BY <1>1, <1>2, <1>3, <1>6, <1>7, <1>8 DEF HeldFits, OfScope
<1> QED
  BY <1>1, <1>9 DEF DiaryInv, OfScope, Cut!NotToldAgain

\* The other steps of the diaries.
LEMMA OutsideFits ==
  ASSUME DiaryInv, Cut!Outside PROVE DiaryInv'
<1> USE DEF Cut!kept
<1>1. plan \in Plans /\ cards \subseteq Cut!Keys /\ DOMAIN scope = Cut!Keys /\ todo \cap row = {}
  BY DEF DiaryInv
<1>2. CASE Cut!Midnight
  BY <1>1, <1>2, DiaryRests DEF Cut!Midnight
<1>3. ASSUME NEW K, NEW d, Cut!Work(d, K) PROVE DiaryInv'
  <2>1. /\ scope' = [k \in Cut!Keys |-> IF k \in K THEN scope[k] \cup {d} ELSE scope[k]]
        /\ UNCHANGED <<plan, cards, row, brief, scan, todo, held>>
    BY <1>3 DEF Cut!Work
  <2>2. DOMAIN scope' = Cut!Keys /\ \A k \in Cut!Keys : scope[k] \subseteq scope'[k]
    BY <2>1
  <2> QED
    BY <1>1, <2>1, <2>2, DiaryRests
<1>4. ASSUME NEW k \in plan.findings, Cut!Raise(k) \/ Cut!Dispose(k) PROVE DiaryInv'
  <2>1. UNCHANGED <<plan, scope, row, brief, scan, todo, held>> /\ cards' \subseteq cards \cup {k}
    BY <1>4 DEF Cut!Raise, Cut!Dispose
  <2>2. k \in Cut!Keys
    BY <1>1 DEF Cut!Keys
  <2> QED
    BY <1>1, <2>1, <2>2, DiaryRests
<1>5. ASSUME NEW d, Cut!LoseFile(d) PROVE DiaryInv'
  BY <1>1, <1>5, DiaryRests DEF Cut!LoseFile, Cut!facts
<1> QED
  BY <1>2, <1>3, <1>4, <1>5 DEF Cut!Outside, Cut!WorkToday, Cut!WorkReadLate

LEMMA WritingFits ==
  ASSUME DiaryInv, DaysListed, Cut!Writing PROVE DiaryInv'
<1> USE DEF Cut!facts, Cut!kept
<1>1. plan \in Plans /\ cards \subseteq Cut!Keys /\ DOMAIN scope = Cut!Keys /\ todo \cap row = {}
  BY DEF DiaryInv
<1>2. CASE Cut!ListMissing
  BY <1>1, <1>2, DiaryRests DEF Cut!ListMissing, Cut!Missing
<1>3. CASE Cut!Assemble \/ Cut!Persist
  BY <1>3, AssembleFits, PersistFits
<1>4. CASE Cut!RenderFails \/ Cut!PersistFails
  BY <1>1, <1>4, DiaryRests DEF Cut!RenderFails, Cut!PersistFails
<1>5. CASE Cut!TakeFacts \/ Cut!StoreLine \/ Cut!LineFails
  BY <1>1, <1>5, DiaryRests DEF Cut!TakeFacts, Cut!StoreLine, Cut!LineFails
<1> QED
  BY <1>2, <1>3, <1>4, <1>5 DEF Cut!Writing

\* A picture takes nothing of the diaries but the turn of the scan.
LEMMA DrawingLeaves ==
  ASSUME NEW t, Cut!Drawing(t)
  PROVE  /\ UNCHANGED <<plan, scope, cards, row, brief, todo, held>>
         /\ scan' \in {scan, "idle"}
BY DEF Cut!Drawing, Cut!Begin, Cut!Draw, Cut!DrawFails, Cut!SaveMeta, Cut!SaveMetaFails,
   Cut!Rename, Cut!RenameFails, Cut!RestoreFails, Cut!Done, Cut!diaryVars, Cut!facts, Cut!kept

LEMMA DiaryNext == DiaryInv /\ DaysListed /\ [Cut!Next]_dayVars => DiaryInv'
<1> SUFFICES ASSUME DiaryInv, DaysListed, [Cut!Next]_dayVars PROVE DiaryInv'
  OBVIOUS
<1>1. plan \in Plans /\ cards \subseteq Cut!Keys /\ DOMAIN scope = Cut!Keys /\ todo \cap row = {}
  BY DEF DiaryInv
<1>2. ASSUME UNCHANGED <<plan, scope, cards, row, brief, todo, held>>, scan' \in {scan, "idle"}
      PROVE  DiaryInv'
  BY <1>1, <1>2, DiaryRests
<1>3. CASE Cut!Diary
  BY <1>3, WritingFits, OutsideFits DEF Cut!Diary
<1>4. CASE \E t \in Cut!Drawers : Cut!Drawing(t)
  BY <1>2, <1>4, DrawingLeaves
<1>5. CASE Cut!BeginFails \/ Cut!SkipCut \/ Cut!LosePng \/ UNCHANGED dayVars
  BY <1>2, <1>5 DEF Cut!BeginFails, Cut!SkipCut, Cut!LosePng, Cut!facts, Cut!kept,
     dayVars, diaryVars
<1>6. CASE Cut!Stop
  BY <1>1, <1>6, DiaryRests DEF Cut!Stop, Cut!Quit, Cut!QuitBeforeRow, Cut!Quitting,
     Cut!facts, Cut!kept
<1> QED
  BY <1>3, <1>4, <1>5, <1>6 DEF Cut!Next

\* What a brief has of diaries like its own are the latest ones, as many as it may have.
LEMMA BriefRemembers ==
  ASSUME DaysListed, Cut!Assemble,
         NEW d, d = held'.day, NEW like,
         like = {e \in Cut!Readable \ Cut!Window(d) :
                   d - SimilarBack <= e /\ e < d /\ Cut!Kind(e) = Cut!Kind(d)},
         Cut!Kind(d) # "plain", NEW e \in like \ held'.recent
  PROVE  Cut!Cardinality({f \in like \cap held'.recent : f > e}) = SimilarMax
<1>1. todo # {} /\ held' = Cut!BriefOf(Cut!Min(todo))
  BY DEF Cut!Assemble
<1>2. Cut!Min(todo) \in Cut!Days /\ row \subseteq Nat
  BY <1>1, MinOf, DiaryFacts DEF DaysListed
<1>3. d = Cut!Min(todo) /\ held'.recent = Cut!Window(d) \cup Cut!Similar(d) /\ d \in Nat
  BY <1>1, <1>2, DiaryFacts DEF Cut!BriefOf
<1>4. Found(Cut!Similar(d), SimilarBack, d)
  BY <1>3, SimilarFinds
<1>5. like = Alike(d) \cap (d - SimilarBack .. d - 1)
  <2>1. \A x \in row : d - SimilarBack <= x /\ x < d <=> x \in d - SimilarBack .. d - 1
    BY <1>2, <1>3, DiaryFacts
  <2>2. Cut!Readable \subseteq row
    BY DEF Cut!Readable
  <2> QED
    BY <2>1, <2>2 DEF Alike
<1>6. like \cap Cut!Window(d) = {}
  OBVIOUS
<1>7. Cardinality(Cut!Similar(d)) = SimilarMax /\ \A f \in Cut!Similar(d) : f > e
  BY <1>3, <1>4, <1>5 DEF Found
<1>8. {f \in like \cap held'.recent : f > e} = Cut!Similar(d)
  BY <1>3, <1>4, <1>5, <1>6, <1>7 DEF Found
<1> QED
  BY <1>7, <1>8, DiarySizes

LEMMA OnlyAssembleRenders ==
  ASSUME [Cut!Next]_dayVars, scan = "diaries", scan' = "render"
  PROVE  Cut!Assemble
<1>1. ~UNCHANGED scan
  OBVIOUS
<1>2. \A t \in Cut!Drawers : ~Cut!Drawing(t)
  BY DrawingLeaves
<1>3. ~Cut!Outside
  BY DEF Cut!Outside, Cut!Midnight, Cut!WorkToday, Cut!WorkReadLate, Cut!Work, Cut!Raise,
     Cut!Dispose, Cut!LoseFile
<1>4. Cut!Writing
  BY <1>2, <1>3 DEF Cut!Next, Cut!Diary, Cut!BeginFails, Cut!SkipCut, Cut!LosePng, Cut!Stop,
     Cut!Quit, Cut!QuitBeforeRow, Cut!Quitting, dayVars, diaryVars
<1> QED
  BY <1>4 DEF Cut!Writing, Cut!ListMissing, Cut!Persist, Cut!RenderFails, Cut!PersistFails,
     Cut!TakeFacts, Cut!StoreLine, Cut!LineFails

\* Day after day the diaries differ: none tells of a finding that a diary it had at hand
\* told of in the days before, although cards are disposed of and raised again, days are read
\* late and files get lost; and a brief of a quiet day or a working weekend brings along the
\* latest diaries of its kind (assemble_brief, collect_similar_diaries).
THEOREM DiariesDiffer == MCSpec => DiariesVary
<1> DEFINE Remembers ==
             scan = "diaries" /\ scan' = "render" =>
               LET d == held'.day
                   like == {e \in Cut!Readable \ Cut!Window(d) :
                              d - SimilarBack <= e /\ e < d /\ Cut!Kind(e) = Cut!Kind(d)}
               IN  Cut!Kind(d) # "plain" =>
                     \A e \in like \ held'.recent :
                       Cut!Cardinality({f \in like \cap held'.recent : f > e}) = SimilarMax
<1>1. MCInit => DiaryInv /\ CutInv
  <2> SUFFICES ASSUME MCInit PROVE DiaryInv
    BY CutBegins
  <2>1. /\ plan \in Plans /\ cards = {} /\ scope = [k \in Cut!Keys |-> {}]
        /\ row = {} /\ brief = [d \in Cut!Days |-> Cut!NoBrief] /\ scan = "idle"
    BY DEF MCInit, Cut!Init, Cut!DiaryInit
  <2> QED
    BY <2>1 DEF DiaryInv, HeldFits, Cut!NotToldAgain
<1>2. [MCNext]_scanVars => [Cut!Next]_dayVars
  BY DEF MCNext, scanVars
<1>3. DiaryInv /\ CutInv /\ [MCNext]_scanVars => DiaryInv' /\ CutInv'
  BY <1>2, CutKeeps, DiaryNext DEF CutInv
<1>4. DiaryInv /\ CutInv /\ [MCNext]_scanVars => [Remembers]_(Cut!diaryVars)
  <2> SUFFICES ASSUME CutInv, [MCNext]_scanVars PROVE Remembers
    OBVIOUS
  <2>1. scan = "diaries" /\ scan' = "render" => Cut!Assemble
    BY <1>2, OnlyAssembleRenders
  <2> QED
    BY <2>1, BriefRemembers DEF CutInv
<1>5. DiaryInv => Cut!NotToldAgain
  BY DEF DiaryInv
<1> QED
  BY <1>1, <1>3, <1>4, <1>5, PTL
     DEF MCSpec, DiariesVary, Cut!DiariesVary, Cut!RemembersItsLike
=============================================================================
