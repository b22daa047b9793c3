----------------------------- MODULE DeskProofs -----------------------------
(***************************************************************************)
(* For every value of the constants, and each part on its own: the ladder  *)
(* shows one frontier, the lowest rung that is not mastered, and nothing   *)
(* but the upper model's own turns lowers a rung; as long as the tab of    *)
(* the chat stays open, its history is questions and answers in turn, a    *)
(* failed exchange takes back its own question, and a question gets the    *)
(* prompt its words call for with the newest memories in it; tool calls    *)
(* have their answers; skills are not overwritten, are named like their    *)
(* directories, and the panel tells where they are; no scan, judgement or  *)
(* quit undoes what the judge or the user decided about a repeated prompt; *)
(* and the pages of the work hub stay trees unless two moves raced.        *)
(***************************************************************************)
EXTENDS MCDesk, FiniteSetTheorems, SequenceTheorems, TLAPS

Masteries == {Ladder!NotStarted, Ladder!InProgress, Ladder!Mastered}

LadderInv == events \in [Ladder!Kinds -> Nat] /\ findings \subseteq OldFindings

\* A frontier is the lowest rung that is not mastered, if one is not.
LEMMA FrontierIsLowest ==
  ASSUME NEW p \in [Ladder!Rungs -> Masteries], p[4] # Ladder!Mastered
  PROVE  /\ Ladder!Frontier(p) \in Ladder!Rungs /\ p[Ladder!Frontier(p)] # Ladder!Mastered
         /\ \A q \in 1 .. Ladder!Frontier(p) - 1 : p[q] = Ladder!Mastered
<1> DEFINE Lowest(r) == p[r] # Ladder!Mastered /\ \A q \in 1 .. r - 1 : p[q] = Ladder!Mastered
<1>1. \E r \in Ladder!Rungs : Lowest(r)
  <2>1. CASE p[1] # Ladder!Mastered
    BY <2>1 DEF Ladder!Rungs
  <2>2. CASE p[1] = Ladder!Mastered /\ p[2] # Ladder!Mastered
    BY <2>2 DEF Ladder!Rungs
  <2>3. CASE p[1] = Ladder!Mastered /\ p[2] = Ladder!Mastered /\ p[3] # Ladder!Mastered
    BY <2>3 DEF Ladder!Rungs
  <2>4. CASE p[1] = Ladder!Mastered /\ p[2] = Ladder!Mastered /\ p[3] = Ladder!Mastered
    BY <2>4 DEF Ladder!Rungs
  <2> QED
    BY <2>1, <2>2, <2>3, <2>4
<1>2. Ladder!Frontier(p) = CHOOSE r \in Ladder!Rungs : Lowest(r)
  BY DEF Ladder!Frontier, Ladder!Rungs
<1> HIDE DEF Lowest
<1>3. Ladder!Frontier(p) \in Ladder!Rungs /\ Lowest(Ladder!Frontier(p))
  BY <1>1, <1>2
<1> QED
  BY <1>3 DEF Lowest

\* What detect_profile makes of a store: automation is at most in progress.
LEMMA ProfileRungs ==
  ASSUME NEW e \in [Ladder!Kinds -> Nat], NEW f
  PROVE  Ladder!Profile(e, f) \in [Ladder!Rungs -> Masteries] /\ Ladder!Profile(e, f)[4] # Ladder!Mastered
<1>1. Ladder!ModelLiteracy(e) \in Masteries
  BY DEF Ladder!ModelLiteracy, Masteries
<1>2. \A b \in BOOLEAN, m \in Masteries : Ladder!Unless(b, e, m) \in {Ladder!NotStarted, m}
  BY DEF Ladder!Unless
<1> QED
  BY <1>1, <1>2 DEF Ladder!Profile, Masteries, Ladder!Rungs, Ladder!NotStarted, Ladder!InProgress, Ladder!Mastered, Ladder!Unless

LEMMA ViewFits ==
  ASSUME LadderInv
  PROVE  Ladder!FrontierIsFirstGap
<1> DEFINE p == Ladder!Profile(events, findings)
           v == Ladder!View(events, findings)
           taught == {r \in Ladder!Rungs : v[r].frontier}
<1>1. /\ Ladder!Frontier(p) \in Ladder!Rungs /\ p[Ladder!Frontier(p)] # Ladder!Mastered
      /\ \A q \in 1 .. Ladder!Frontier(p) - 1 : p[q] = Ladder!Mastered
  BY ProfileRungs, FrontierIsLowest DEF LadderInv
<1>2. \A r \in Ladder!Rungs : v[r].mastery = p[r] /\ (v[r].frontier <=> Ladder!Frontier(p) = r)
  BY DEF Ladder!View
<1> HIDE DEF p, v
<1>3. taught = {Ladder!Frontier(p)}
  BY <1>1, <1>2
<1>4. Cardinality(taught) = 1
  BY <1>3, FS_Singleton
<1>5. Ladder!Cardinality(taught) = 1
  BY <1>4 DEF Cardinality, Ladder!Cardinality, IsFiniteSet, Ladder!IsFiniteSet
<1>6. \A r \in taught : v[r].mastery # Ladder!Mastered
  BY <1>1, <1>2, <1>3
<1>7. \A r \in taught, q \in Ladder!Rungs : q < r => v[q].mastery = Ladder!Mastered
  BY <1>1, <1>2, <1>3 DEF Ladder!Rungs
<1> QED
  BY <1>5, <1>6, <1>7 DEF Ladder!FrontierIsFirstGap, v

\* One more event of a kind that is no turn of the upper model.
LEMMA IngestLifts ==
  ASSUME LadderInv, NEW k \in Ladder!Kinds, Ladder!Ingest(k), Ladder!Opus(events') = Ladder!Opus(events), NEW r \in Ladder!Rungs
  PROVE  Ladder!Profile(events', findings')[r] >= Ladder!Profile(events, findings)[r]
<1>1. events \in [Ladder!Kinds -> Nat] /\ findings' = findings
  BY DEF LadderInv, Ladder!Ingest
<1>2. events' \in [Ladder!Kinds -> Nat] /\ \A j \in Ladder!Kinds : events'[j] >= events[j]
  BY <1>1 DEF Ladder!Ingest
<1>3. events'["chore"] = events["chore"] /\ events'["work"] = events["work"]
  BY <1>1, <1>2 DEF Ladder!Opus, Ladder!Kinds
<1>4. Ladder!ChoresPercent(events') = Ladder!ChoresPercent(events)
  BY <1>3 DEF Ladder!ChoresPercent
<1>5. Ladder!Total(events') >= Ladder!Total(events) /\ Ladder!Total(events) \in Nat /\ Ladder!Total(events') \in Nat
  BY <1>1, <1>2 DEF Ladder!Total, Ladder!Kinds
<1>6. Ladder!ModelLiteracy(events') >= Ladder!ModelLiteracy(events)
  <2> DEFINE o == Ladder!Opus(events)
             n == events["cheaper"]
             m == events'["cheaper"]
  <2>1. o \in Nat /\ n \in Nat /\ m \in Nat /\ m >= n /\ Ladder!Opus(events') = o
    BY <1>1, <1>2 DEF Ladder!Opus, Ladder!Kinds
  <2>2. Ladder!ModelLiteracy(events) \in {0, 1, 2} /\ Ladder!ModelLiteracy(events') \in {0, 1, 2}
    BY DEF Ladder!ModelLiteracy, Ladder!NotStarted, Ladder!InProgress, Ladder!Mastered
  <2>3. CASE o + n = 0
    <3>1. Ladder!ModelLiteracy(events) = 0
      BY <2>3 DEF Ladder!ModelLiteracy, Ladder!NotStarted
    <3> QED
      BY <3>1, <2>2
  <2>4. CASE o + n # 0 /\ m * 5 >= o
    <3>1. Ladder!ModelLiteracy(events') = 2
      BY <2>1, <2>4 DEF Ladder!ModelLiteracy, Ladder!Mastered
    <3> QED
      BY <3>1, <2>2
  <2>5. CASE o + n # 0 /\ ~(m * 5 >= o)
    <3>1. Ladder!ModelLiteracy(events') = Ladder!ModelLiteracy(events)
      BY <1>4, <2>1, <2>5 DEF Ladder!ModelLiteracy
    <3> QED
      BY <3>1, <2>2
  <2> QED
    BY <2>3, <2>4, <2>5
<1>7. \A b \in BOOLEAN, m \in Masteries : Ladder!Unless(b, events', m) >= Ladder!Unless(b, events, m)
  BY <1>5 DEF Ladder!Unless, Masteries, Ladder!NotStarted, Ladder!InProgress, Ladder!Mastered
<1>8. events'["skill"] >= events["skill"] /\ events'["delegated"] >= events["delegated"]
  BY <1>2 DEF Ladder!Kinds
<1> DEFINE Lifted(q) == Ladder!Profile(events', findings')[q] >= Ladder!Profile(events, findings)[q]
<1>9. Lifted(1)
  BY <1>6 DEF Ladder!Profile
<1>10. Lifted(2) /\ Lifted(4)
  BY <1>1, <1>7 DEF Ladder!Profile, Masteries
<1>11. Lifted(3) /\ Lifted(5)
  BY <1>1, <1>2, <1>8 DEF Ladder!Profile, Ladder!Kinds, Ladder!NotStarted, Ladder!Mastered
<1> QED
  BY <1>9, <1>10, <1>11 DEF Ladder!Rungs

\* A finding that is settled.
LEMMA SettleLifts ==
  ASSUME LadderInv, NEW x \in OldFindings, Ladder!Settle(x), NEW r \in Ladder!Rungs
  PROVE  Ladder!Profile(events', findings')[r] >= Ladder!Profile(events, findings)[r]
<1>1. events \in [Ladder!Kinds -> Nat] /\ events' = events /\ findings' \subseteq findings
  BY DEF LadderInv, Ladder!Settle
<1>2. \A R : R \cap findings' # {} => R \cap findings # {}
  BY <1>1
<1>3. Ladder!ModelLiteracy(events) \in {0, 1, 2}
  BY DEF Ladder!ModelLiteracy, Ladder!NotStarted, Ladder!InProgress, Ladder!Mastered
<1> QED
  BY <1>1, <1>2, <1>3 DEF Ladder!Profile, Ladder!Unless, Ladder!Rungs, Ladder!NotStarted, Ladder!InProgress, Ladder!Mastered

LEMMA NextLifts == LadderInv /\ [Ladder!LadderNext]_ladderVars => LadderInv' /\ [Ladder!OnlyUpperTurnsLower]_ladderVars
<1> SUFFICES ASSUME LadderInv, [Ladder!LadderNext]_ladderVars
             PROVE  LadderInv' /\ [Ladder!OnlyUpperTurnsLower]_ladderVars
  OBVIOUS
<1>1. LadderInv'
  BY DEF LadderInv, Ladder!LadderNext, Ladder!Ingest, Ladder!Settle, ladderVars
<1>2. ASSUME Ladder!LadderNext, Ladder!Opus(events') = Ladder!Opus(events), NEW r \in Ladder!Rungs
      PROVE  Ladder!Profile(events', findings')[r] >= Ladder!Profile(events, findings)[r]
  BY <1>2, IngestLifts, SettleLifts DEF Ladder!LadderNext
<1>3. Ladder!LadderNext => Ladder!OnlyUpperTurnsLower
  BY <1>2 DEF Ladder!OnlyUpperTurnsLower, Ladder!View
<1> QED
  BY <1>1, <1>3

\* One frontier, the first gap, and rungs are lost to turns of the upper model only
\* (detect_profile, CompetencyProfile::frontier).
THEOREM LadderIsClimbed == MCSpec => LadderClimbs
<1>1. MCInit => LadderInv
  BY DEF MCInit, Ladder!LadderInit, LadderInv
<1>2. [MCNext]_deskVars => [part = "ladder" /\ Ladder!LadderNext]_ladderVars
  BY DEF MCNext, deskVars, ladderVars
<1>3. LadderInv /\ [MCNext]_deskVars => LadderInv' /\ [Ladder!OnlyUpperTurnsLower]_ladderVars
  BY <1>2, NextLifts
<1>4. LadderInv => Ladder!FrontierIsFirstGap
  BY ViewFits
<1>5. Ladder!FrontierIsFirstGap' /\ [Ladder!OnlyUpperTurnsLower]_ladderVars
        => [part = "ladder" => Ladder!Climbs]_ladderVars
  BY DEF Ladder!Climbs
<1> QED
  BY <1>1, <1>3, <1>4, <1>5, PTL DEF MCSpec, LadderClimbs

-----------------------------------------------------------------------------
Message == [role : {"user", "assistant"}, of : Nat]

\* What the tab needs to know of a command that is under way.
CommandOK(c) == c.pc # "free" => {"pc", "of", "mount"} \subseteq DOMAIN c /\ c.of \in Nat /\ c.mount \in Nat

ChatTypeOK ==
  /\ messages \in Seq(Message)
  /\ tab \in [mount : Nat, sending : BOOLEAN]
  /\ sends \in Nat
  /\ DOMAIN command = Chat!Slots /\ command = [s \in Chat!Slots |-> command[s]]
  /\ \A s \in Chat!Slots : CommandOK(command[s])

\* One command at a time, and the last message is its question.
OneAtATime ==
  /\ \A s, t \in Chat!Slots : command[s].pc # "free" /\ command[t].pc # "free" => s = t
  /\ \A s \in Chat!Slots : command[s].pc # "free" =>
       /\ tab.sending /\ command[s].mount = tab.mount
       /\ messages # <<>> /\ messages[Len(messages)] = Chat!User(command[s].of)

Turns ==
  /\ Len(messages) % 2 = (IF tab.sending THEN 1 ELSE 0)
  /\ \A i \in DOMAIN messages :
       messages[i].role = (IF i % 2 = 1 THEN "user" ELSE "assistant")
  /\ \A i \in DOMAIN messages : i % 2 = 0 => messages[i].of = messages[i - 1].of

ChatInv == ChatTypeOK /\ (tab.mount = 0 => OneAtATime /\ Turns)

-----------------------------------------------------------------------------
LEMMA ChatBegins == Chat!ChatInit => ChatInv
BY DEF Chat!ChatInit, ChatInv, ChatTypeOK, CommandOK, OneAtATime, Turns, Chat!Free, Message

\* A step of a command that is still under way: the tab and its messages stay.
Onward(s) ==
  /\ UNCHANGED <<messages, tab, sends>>
  /\ command' = [command EXCEPT ![s] = command'[s]]
  /\ command[s].pc # "free" /\ command'[s].pc # "free"
  /\ {"pc", "of", "mount"} \subseteq DOMAIN command'[s]
  /\ command'[s].of = command[s].of /\ command'[s].mount = command[s].mount

LEMMA OnwardSteps ==
  ASSUME ChatTypeOK, NEW s \in Chat!Slots,
         Chat!ReadContext(s) \/ Chat!ToolsTurn(s) \/ Chat!HandleCall(s) \/ Chat!PlainTurn(s)
  PROVE  Onward(s)
<1> USE DEF Chat!Step, ChatTypeOK, CommandOK, Onward
<1>1. CASE Chat!ReadContext(s)
  BY <1>1 DEF Chat!ReadContext
<1>2. CASE Chat!ToolsTurn(s)
  <2>1. CASE Chat!Step(s, "tools", [command[s] EXCEPT !.pc = "done"])
    BY <1>2, <2>1 DEF Chat!ToolsTurn
  <2>2. CASE Chat!Step(s, "tools", [command[s] EXCEPT !.pc = "plain"])
    BY <1>2, <2>2 DEF Chat!ToolsTurn
  <2>3. ASSUME NEW todo,
               Chat!Step(s, "tools",
                    [command[s] EXCEPT !.pc = "calls", !.todo = todo,
                                       !.convo = Append(@, Chat!CallsTurn(command[s].round, todo))])
        PROVE  Onward(s)
    BY <1>2, <2>3 DEF Chat!ToolsTurn
  <2> QED
    BY <1>2, <2>1, <2>2, <2>3 DEF Chat!ToolsTurn
<1>3. CASE Chat!HandleCall(s)
  BY <1>3 DEF Chat!HandleCall
<1>4. CASE Chat!PlainTurn(s)
  <2> DEFINE stripped == [command[s] EXCEPT !.convo = Chat!Plain(@)]
  <2>1. /\ {"pc", "of", "mount"} \subseteq DOMAIN stripped
        /\ stripped.of = command[s].of /\ stripped.mount = command[s].mount
    BY <1>4 DEF Chat!PlainTurn
  <2>2. \/ Chat!Step(s, "plain", [stripped EXCEPT !.pc = "done"])
        \/ Chat!Step(s, "plain", [stripped EXCEPT !.pc = "failed"])
    BY <1>4 DEF Chat!PlainTurn
  <2> HIDE DEF stripped
  <2>3. command[s].pc # "free" /\ UNCHANGED <<messages, tab, sends>>
    BY <1>4 DEF Chat!PlainTurn
  <2> QED
    BY <2>1, <2>2, <2>3
<1> QED
  BY <1>1, <1>2, <1>3, <1>4

LEMMA OnwardInv == ASSUME ChatInv, NEW s \in Chat!Slots, Onward(s) PROVE ChatInv'
<1>1. ChatTypeOK'
  BY DEF ChatInv, ChatTypeOK, CommandOK, Onward
<1>2. \A t \in Chat!Slots : \/ t # s /\ command'[t] = command[t]
                            \/ /\ t = s /\ command[t].pc # "free" /\ command'[t].of = command[t].of
                               /\ command'[t].mount = command[t].mount
  BY DEF ChatInv, ChatTypeOK, Onward
<1>3. OneAtATime => OneAtATime'
  BY <1>2 DEF Onward, OneAtATime, Chat!User
<1>4. Turns => Turns'
  BY DEF Onward, Turns
<1> QED
  BY <1>1, <1>3, <1>4 DEF ChatInv, Onward

\* One more message of the right role, with the question's number when it is an answer.
LEMMA TurnsGrow ==
  ASSUME ChatTypeOK, ChatTypeOK', Turns, Len(messages') = Len(messages) + 1,
         \A i \in DOMAIN messages : messages'[i] = messages[i],
         Len(messages') % 2 = (IF tab'.sending THEN 1 ELSE 0),
         messages'[Len(messages')].role = (IF tab'.sending THEN "user" ELSE "assistant"),
         ~tab'.sending => messages'[Len(messages')].of = messages[Len(messages)].of
  PROVE  Turns'
<1> DEFINE n == Len(messages)
<1>1. /\ n \in Nat /\ DOMAIN messages = 1 .. n /\ DOMAIN messages' = 1 .. n + 1
      /\ Len(messages') = n + 1
  BY DEF ChatTypeOK
<1>2. ASSUME NEW i \in 1 .. n + 1
      PROVE  messages'[i].role = (IF i % 2 = 1 THEN "user" ELSE "assistant")
  <2>1. CASE i = n + 1
    BY <1>1, <2>1
  <2>2. CASE i \in 1 .. n
    BY <1>1, <2>2 DEF Turns
  <2> QED
    BY <1>1, <1>2, <2>1, <2>2
<1>3. ASSUME NEW i \in 1 .. n + 1, i % 2 = 0 PROVE messages'[i].of = messages'[i - 1].of
  <2>1. i # 1 /\ i - 1 \in 1 .. n /\ messages'[i - 1] = messages[i - 1]
    <3>1. i # 1
      BY <1>3
    <3> QED
      BY <1>1, <3>1
  <2>2. CASE i = n + 1
    BY <1>1, <1>3, <2>1, <2>2
  <2>3. CASE i \in 1 .. n
    BY <1>1, <1>3, <2>1, <2>3 DEF Turns
  <2> QED
    BY <1>1, <2>2, <2>3
<1> QED
  BY <1>1, <1>2, <1>3 DEF Turns

LEMMA SendInv == ASSUME ChatInv, NEW s \in Chat!Slots, NEW q \in Questions, Chat!Send(s, q) PROVE ChatInv'
<1> USE DEF ChatInv, Chat!Send, Chat!User, Message
<1>1. ChatTypeOK'
  <2>1. Chat!User(sends + 1) \in Message /\ sends' \in Nat
    BY DEF ChatTypeOK
  <2>2. messages' \in Seq(Message)
    BY <2>1 DEF ChatTypeOK
  <2>3. tab' \in [mount : Nat, sending : BOOLEAN]
    BY DEF ChatTypeOK
  <2>4. CommandOK(command'[s]) /\ \A t \in Chat!Slots \ {s} : command'[t] = command[t]
    BY DEF ChatTypeOK, CommandOK
  <2>5. DOMAIN command' = Chat!Slots /\ command' = [t \in Chat!Slots |-> command'[t]]
    BY DEF ChatTypeOK
  <2> QED
    BY <2>1, <2>2, <2>3, <2>4, <2>5 DEF ChatTypeOK
<1>2. ASSUME tab.mount = 0 PROVE OneAtATime' /\ Turns'
  <2>1. \A t \in Chat!Slots : command[t].pc = "free"
    BY <1>2 DEF OneAtATime
  <2>2. Len(messages') = Len(messages) + 1 /\ messages'[Len(messages')] = Chat!User(sends + 1)
    BY DEF ChatTypeOK
  <2>3. \A i \in DOMAIN messages : messages'[i] = messages[i]
    BY DEF ChatTypeOK
  <2>4. OneAtATime'
    BY <1>1, <1>2, <2>1, <2>2 DEF OneAtATime, ChatTypeOK
  <2>5. Len(messages) % 2 = 0 /\ Len(messages') % 2 = 1 /\ tab'.sending
    <3>1. ~tab.sending /\ tab'.sending /\ Len(messages) \in Nat
      BY DEF ChatTypeOK
    <3>2. Len(messages) % 2 = 0
      BY <1>2, <3>1 DEF Turns
    <3> QED
      BY <2>2, <3>1, <3>2
  <2>6. Turns'
    <3>1. ChatTypeOK /\ Turns
      BY <1>2
    <3>2. Len(messages') % 2 = (IF tab'.sending THEN 1 ELSE 0)
      BY <2>5
    <3>3. messages'[Len(messages')].role = (IF tab'.sending THEN "user" ELSE "assistant")
      BY <2>2, <2>5
    <3> QED
      BY ONLY <1>1, <2>2, <2>3, <2>5, <3>1, <3>2, <3>3, TurnsGrow
  <2> QED
    BY <2>4, <2>6
<1> QED
  BY <1>1, <1>2 DEF ChatTypeOK

LEMMA RepliedInv == ASSUME ChatInv, NEW s \in Chat!Slots, Chat!Replied(s) PROVE ChatInv'
<1> USE DEF ChatInv, Chat!Replied, Chat!Step, Chat!Free, Message
<1>0. CommandOK(command[s]) /\ command[s].pc # "free"
  BY DEF ChatTypeOK
<1>1. ChatTypeOK'
  <2>1. messages' \in Seq(Message)
    <3>1. Chat!Mascot(command[s].of) \in Message
      BY <1>0 DEF CommandOK, Chat!Mascot
    <3> QED
      BY <3>1 DEF ChatTypeOK
  <2>2. tab' \in [mount : Nat, sending : BOOLEAN]
    BY DEF ChatTypeOK, Chat!Settled
  <2>3. command'[s].pc = "free" /\ \A t \in Chat!Slots \ {s} : command'[t] = command[t]
    BY DEF ChatTypeOK
  <2>4. DOMAIN command' = Chat!Slots /\ command' = [t \in Chat!Slots |-> command'[t]]
    BY DEF ChatTypeOK
  <2> QED
    BY <2>1, <2>2, <2>3, <2>4 DEF ChatTypeOK, CommandOK
<1>2. ASSUME tab.mount = 0 PROVE OneAtATime' /\ Turns'
  <2>1. \A t \in Chat!Slots : command'[t].pc = "free"
    BY <1>0, <1>2 DEF OneAtATime, ChatTypeOK
  <2>2. ~tab'.sending /\ Len(messages) % 2 = 1
    BY <1>0, <1>2 DEF OneAtATime, Turns, Chat!Settled, ChatTypeOK
  <2>3. /\ Len(messages') = Len(messages) + 1
        /\ messages'[Len(messages')] = Chat!Mascot(command[s].of)
        /\ \A i \in DOMAIN messages : messages'[i] = messages[i]
    BY <1>0 DEF ChatTypeOK, CommandOK, Chat!Mascot
  <2>4. messages # <<>> /\ messages[Len(messages)] = Chat!User(command[s].of)
    BY <1>0, <1>2 DEF OneAtATime
  <2>5. Turns'
    <3>1. ChatTypeOK /\ Turns
      BY <1>2
    <3>2. Len(messages') % 2 = (IF tab'.sending THEN 1 ELSE 0)
      <4>1. Len(messages) \in Nat
        BY DEF ChatTypeOK
      <4> QED
        BY ONLY <2>2, <2>3, <4>1
    <3>3. messages'[Len(messages')].role = (IF tab'.sending THEN "user" ELSE "assistant")
      BY <2>2, <2>3 DEF Chat!Mascot
    <3>4. messages'[Len(messages')].of = messages[Len(messages)].of
      BY <2>3, <2>4 DEF Chat!Mascot, Chat!User
    <3> QED
      BY ONLY <1>1, <2>3, <3>1, <3>2, <3>3, <3>4, TurnsGrow
  <2> QED
    BY <2>1, <2>5 DEF OneAtATime
<1> QED
  BY <1>1, <1>2 DEF ChatTypeOK, Chat!Settled

LEMMA GaveUpInv == ASSUME ChatInv, NEW s \in Chat!Slots, Chat!GaveUp(s) PROVE ChatInv'
<1> USE DEF ChatInv, Chat!GaveUp, Chat!Step, Chat!Free, Message, Chat!Front
<1>0. CommandOK(command[s]) /\ command[s].pc # "free"
  BY DEF ChatTypeOK
<1>1. ChatTypeOK'
  <2>1. messages' \in Seq(Message)
    BY DEF ChatTypeOK
  <2>2. tab' \in [mount : Nat, sending : BOOLEAN]
    BY DEF ChatTypeOK, Chat!Settled
  <2>3. command'[s].pc = "free" /\ \A t \in Chat!Slots \ {s} : command'[t] = command[t]
    BY DEF ChatTypeOK
  <2>4. DOMAIN command' = Chat!Slots /\ command' = [t \in Chat!Slots |-> command'[t]]
    BY DEF ChatTypeOK
  <2> QED
    BY <2>1, <2>2, <2>3, <2>4 DEF ChatTypeOK, CommandOK
<1>2. ASSUME tab.mount = 0 PROVE OneAtATime' /\ Turns'
  <2>1. \A t \in Chat!Slots : command'[t].pc = "free"
    BY <1>0, <1>2 DEF OneAtATime, ChatTypeOK
  <2>2. ~tab'.sending /\ Len(messages) % 2 = 1 /\ messages # <<>>
    BY <1>0, <1>2 DEF OneAtATime, Turns, Chat!Settled, ChatTypeOK
  <2>3. Len(messages') = Len(messages) - 1 /\ \A i \in DOMAIN messages' : messages'[i] = messages[i]
    <3>1. messages' = SubSeq(messages, 1, Len(messages) - 1)
      BY <2>2
    <3>2. Len(messages) \in Nat /\ Len(messages) # 0
      BY <2>2 DEF ChatTypeOK
    <3> QED
      <4> DEFINE n == Len(messages) - 1
      <4>1. n \in Nat /\ messages' = SubSeq(messages, 1, n)
        BY <3>1, <3>2
      <4> DEFINE S == {messages[i] : i \in 1 .. n}
      <4> HIDE DEF n
      <4>2. /\ Len(SubSeq(messages, 1, n)) = (IF 1 <= n THEN n - 1 + 1 ELSE 0)
            /\ \A i \in 1 .. n - 1 + 1 : SubSeq(messages, 1, n)[i] = messages[1 + i - 1]
        <5>1. \A i \in 1 .. n : messages[i] \in S
          OBVIOUS
        <5> HIDE DEF S
        <5> QED
          BY ONLY <4>1, <5>1, SubSeqProperties
      <4>3. Len(messages') = n /\ \A i \in 1 .. n : messages'[i] = messages[i]
        BY ONLY <4>1, <4>2
      <4>4. DOMAIN messages' = 1 .. Len(messages')
        BY <1>1 DEF ChatTypeOK
      <4> QED
        BY ONLY <4>3, <4>4 DEF n
  <2>4. Turns'
    <3> DEFINE n == Len(messages)
    <3>1. /\ n \in Nat \ {0} /\ DOMAIN messages = 1 .. n /\ DOMAIN messages' = 1 .. n - 1
          /\ Len(messages') = n - 1 /\ n % 2 = 1 /\ (n - 1) % 2 = 0
      <4>1. /\ n \in Nat /\ n # 0 /\ n % 2 = 1 /\ Len(messages') = n - 1
            /\ DOMAIN messages = 1 .. n /\ DOMAIN messages' = 1 .. Len(messages')
        BY <1>1, <2>2, <2>3 DEF ChatTypeOK
      <4> QED
        BY ONLY <4>1
    <3>2. \A i \in 1 .. n - 1 :
            /\ messages'[i].role = (IF i % 2 = 1 THEN "user" ELSE "assistant")
            /\ i % 2 = 0 => i # 1 /\ i - 1 \in 1 .. n - 1
            /\ i % 2 = 0 => messages[i].of = messages[i - 1].of
      <4>1. Turns /\ \A i \in 1 .. n - 1 : messages'[i] = messages[i]
        BY <1>2, <2>3, <3>1
      <4>2. \A i \in 1 .. n - 1 : i \in 1 .. n /\ (i % 2 = 0 => i # 1 /\ i - 1 \in 1 .. n - 1)
        BY ONLY <3>1
      <4> QED
        BY ONLY <3>1, <4>1, <4>2 DEF Turns
    <3> QED
      BY <2>2, <2>3, <3>1, <3>2 DEF Turns
  <2> QED
    BY <2>1, <2>4 DEF OneAtATime
<1> QED
  BY <1>1, <1>2 DEF ChatTypeOK, Chat!Settled

LEMMA ChatKeeps == ChatInv /\ [Chat!ChatNext]_chatVars => ChatInv'
<1> SUFFICES ASSUME ChatInv, [Chat!ChatNext]_chatVars PROVE ChatInv'
  OBVIOUS
<1>1. ASSUME NEW s \in Chat!Slots, Chat!CommandSteps(s) PROVE ChatInv'
  BY <1>1, OnwardSteps, OnwardInv, RepliedInv, GaveUpInv DEF Chat!CommandSteps, ChatInv
<1>2. ASSUME NEW s \in Chat!Slots, NEW q \in Questions, Chat!Send(s, q) PROVE ChatInv'
  BY <1>2, SendInv
<1>3. CASE Chat!Reopen
  BY <1>3 DEF Chat!Reopen, ChatInv, ChatTypeOK
<1>4. CASE Chat!EditMemories
  BY <1>4 DEF Chat!EditMemories, ChatInv, ChatTypeOK, OneAtATime, Turns
<1>5. CASE UNCHANGED chatVars
  BY <1>5 DEF chatVars, ChatInv, ChatTypeOK, OneAtATime, Turns
<1> QED
  BY <1>1, <1>2, <1>3, <1>4, <1>5 DEF Chat!ChatNext

LEMMA ChatInvariant == MCSpec => []ChatInv
<1>1. MCInit => ChatInv
  BY ChatBegins DEF MCInit
<1>2. [MCNext]_deskVars => [Chat!ChatNext]_chatVars
  BY DEF MCNext, deskVars, chatVars
<1> QED
  BY <1>1, <1>2, ChatKeeps, PTL DEF MCSpec

\* Questions and answers in turn, whatever failed, until the tab is left (send of
\* ChatTab.svelte).
THEOREM TurnsKept == MCSpec => []Chat!HistoryAlternates
<1>1. ChatInv => Chat!HistoryAlternates
  BY DEF ChatInv, Chat!HistoryAlternates, Turns
<1> QED
  BY <1>1, ChatInvariant, PTL

\* What the comment in ChatTab.svelte claims of the message that is taken back holds
\* until the tab is left for the first time.
THEOREM OwnQuestionUntilLeft == MCSpec => [](tab.mount = 0 => Chat!TakesBackItsOwn)
<1>1. ChatInv => (tab.mount = 0 => Chat!TakesBackItsOwn)
  BY DEF ChatInv, ChatTypeOK, OneAtATime, Chat!TakesBackItsOwn, Chat!Last
<1> QED
  BY <1>1, ChatInvariant, PTL

-----------------------------------------------------------------------------
(* Skills: a save that is past its look has its directory for itself, or    *)
(* the directory is one that two of them took for free at the same time.    *)

Places == {"look", "make", "write", "done"}
SaveOf(D, C) == [pc : Places, n : Nat, draft : D, clean : C]
SavesTyped == \E D, C : saves \in Seq(SaveOf(D, C))

Chosen(i) == saves[i].pc \in {"make", "write", "done"}
Free(dir) == dir \notin DOMAIN disk
Contested(i) == Skills!Target(i) \in overlapped

SaveFits(i) ==
  /\ saves[i].pc = "make" => Free(Skills!Target(i)) \/ Contested(i)
  /\ saves[i].pc \in {"write", "done"} => ~Free(Skills!Target(i))
  /\ saves[i].pc = "write" => Skills!Target(i) \notin DOMAIN mine \/ Contested(i)
  /\ saves[i].pc = "done" => disk[Skills!Target(i)] = saves[i].draft \/ Contested(i)
  /\ saves[i].pc # "done" /\ ~moved => saves[i].draft = panel.draft

Alone ==
  \A i, j \in DOMAIN saves :
    i # j /\ Chosen(i) /\ Chosen(j) /\ Skills!Target(i) = Skills!Target(j) => Contested(i)

HandMadeFits ==
  \A dir \in DOMAIN mine : ~Free(dir) /\ (dir \in overlapped \/ disk[dir] = mine[dir])

\* The path the panel shows is that of a save of the draft it shows.
PanelFits ==
  panel.path # <<>> /\ ~moved =>
    \E i \in DOMAIN saves :
      saves[i].pc = "done" /\ Skills!Target(i) = panel.path /\ saves[i].draft = panel.draft

PanelTyped == \E D, P : panel \in [open : BOOLEAN, draft : D, path : P]

SkillInv ==
  /\ SavesTyped /\ PanelTyped /\ Alone /\ HandMadeFits /\ PanelFits /\ moved \in BOOLEAN
  /\ \A i \in DOMAIN saves : SaveFits(i)

LEMMA PlaceSet ==
  ASSUME SavesTyped, NEW i \in DOMAIN saves, NEW place \in Places,
         saves' = [saves EXCEPT ![i].pc = place]
  PROVE  /\ SavesTyped' /\ DOMAIN saves' = DOMAIN saves
         /\ saves'[i].pc = place /\ saves'[i].draft = saves[i].draft
         /\ \A j \in DOMAIN saves : j # i => saves'[j] = saves[j]
         /\ \A j \in DOMAIN saves : Skills!Target(j)' = Skills!Target(j)
<1>1. PICK D, C : saves \in Seq(SaveOf(D, C))
  BY DEF SavesTyped
<1> DEFINE r == [saves[i] EXCEPT !.pc = place]
<1>2. saves[i] \in SaveOf(D, C)
  BY <1>1
<1>3. /\ r \in SaveOf(D, C) /\ r.pc = place /\ r.draft = saves[i].draft
      /\ r.n = saves[i].n /\ r.clean = saves[i].clean
  BY <1>2 DEF SaveOf
<1>4. saves' = [saves EXCEPT ![i] = r]
  OBVIOUS
<1> HIDE DEF r
<1>5. saves' \in Seq(SaveOf(D, C)) /\ DOMAIN saves' = DOMAIN saves /\ saves'[i] = r
  BY <1>1, <1>3, <1>4
<1>6. \A j \in DOMAIN saves : j # i => saves'[j] = saves[j]
  BY <1>1, <1>4
<1>7. SavesTyped'
  BY <1>5 DEF SavesTyped
<1>8. ASSUME NEW j \in DOMAIN saves PROVE saves'[j].clean = saves[j].clean /\ saves'[j].n = saves[j].n
  BY <1>3, <1>5, <1>6
<1>9. \A j \in DOMAIN saves : Skills!Target(j)' = Skills!Target(j)
  BY <1>8 DEF Skills!Target
<1> QED
  BY <1>3, <1>5, <1>6, <1>7, <1>9

LEMMA NextNumber ==
  ASSUME SavesTyped, NEW i \in DOMAIN saves, saves' = [saves EXCEPT ![i].n = @ + 1]
  PROVE  /\ SavesTyped' /\ DOMAIN saves' = DOMAIN saves
         /\ saves'[i].pc = saves[i].pc /\ saves'[i].draft = saves[i].draft
         /\ \A j \in DOMAIN saves : j # i => saves'[j] = saves[j]
         /\ \A j \in DOMAIN saves : j # i => Skills!Target(j)' = Skills!Target(j)
<1>1. PICK D, C : saves \in Seq(SaveOf(D, C))
  BY DEF SavesTyped
<1> DEFINE r == [saves[i] EXCEPT !.n = saves[i].n + 1]
<1>2. saves[i] \in SaveOf(D, C)
  BY <1>1
<1>3. r \in SaveOf(D, C) /\ r.pc = saves[i].pc /\ r.draft = saves[i].draft
  BY <1>2 DEF SaveOf
<1>4. saves' = [saves EXCEPT ![i] = r]
  OBVIOUS
<1> HIDE DEF r
<1>5. saves' \in Seq(SaveOf(D, C)) /\ DOMAIN saves' = DOMAIN saves /\ saves'[i] = r
  BY <1>1, <1>3, <1>4
<1>6. \A j \in DOMAIN saves : j # i => saves'[j] = saves[j]
  BY <1>1, <1>4
<1>7. SavesTyped'
  BY <1>5 DEF SavesTyped
<1>8. \A j \in DOMAIN saves : j # i => Skills!Target(j)' = Skills!Target(j)
  BY <1>6 DEF Skills!Target
<1> QED
  BY <1>3, <1>5, <1>6, <1>7, <1>8

LEMMA LookSkill ==
  ASSUME SkillInv, NEW i \in DOMAIN saves, Skills!Look(i) PROVE SkillInv'
<1>1. /\ saves[i].pc = "look" /\ UNCHANGED <<panel, disk, moved, mine>>
      /\ overlapped' = overlapped \cup ({Skills!Target(i)} \cap Skills!Targets)
      /\ saves' = IF Skills!Target(i) \in DOMAIN disk THEN [saves EXCEPT ![i].n = @ + 1]
                  ELSE [saves EXCEPT ![i].pc = "make"]
  BY DEF Skills!Look
<1>2. overlapped \subseteq overlapped'
  BY <1>1
<1>3. CASE Skills!Target(i) \in DOMAIN disk
  <2>1. /\ SavesTyped' /\ DOMAIN saves' = DOMAIN saves
        /\ saves'[i].pc = saves[i].pc /\ saves'[i].draft = saves[i].draft
        /\ \A j \in DOMAIN saves : j # i => saves'[j] = saves[j]
        /\ \A j \in DOMAIN saves : j # i => Skills!Target(j)' = Skills!Target(j)
    BY <1>1, <1>3, NextNumber DEF SkillInv
  <2>2. \A j \in DOMAIN saves : SaveFits(j)'
    BY <1>1, <1>2, <2>1 DEF SkillInv, SaveFits, Contested, Free
  <2>3. Alone'
    BY <1>1, <1>2, <2>1 DEF SkillInv, Alone, Chosen, Contested
  <2>4. PanelFits'
    BY <1>1, <2>1 DEF SkillInv, PanelFits
  <2> QED
    BY <1>1, <1>2, <2>1, <2>2, <2>3, <2>4 DEF SkillInv, PanelTyped, HandMadeFits, Free
<1>4. CASE Skills!Target(i) \notin DOMAIN disk
  <2>1. /\ SavesTyped' /\ DOMAIN saves' = DOMAIN saves
        /\ saves'[i].pc = "make" /\ saves'[i].draft = saves[i].draft
        /\ \A j \in DOMAIN saves : j # i => saves'[j] = saves[j]
        /\ \A j \in DOMAIN saves : Skills!Target(j)' = Skills!Target(j)
    BY <1>1, <1>4, PlaceSet DEF SkillInv, Places
  <2>2. \A j \in DOMAIN saves : SaveFits(j)'
    BY <1>1, <1>2, <1>4, <2>1 DEF SkillInv, SaveFits, Contested, Free
  <2>3. ASSUME NEW j \in DOMAIN saves, j # i, Chosen(j), Skills!Target(j) = Skills!Target(i)
        PROVE  Skills!Target(i) \in overlapped'
    <3>1. CASE saves[j].pc = "make"
      BY <1>1, <2>3, <3>1 DEF Skills!Targets
    <3>2. CASE saves[j].pc \in {"write", "done"}
      BY <1>4, <2>3, <3>2 DEF SkillInv, SaveFits, Free
    <3> QED
      BY <2>3, <3>1, <3>2 DEF Chosen
  <2>4. Alone'
    BY <1>1, <1>2, <2>1, <2>3 DEF SkillInv, Alone, Chosen, Contested
  <2>5. PanelFits'
    BY <1>1, <2>1 DEF SkillInv, PanelFits
  <2> QED
    BY <1>1, <1>2, <2>1, <2>2, <2>4, <2>5 DEF SkillInv, PanelTyped, HandMadeFits, Free
<1> QED
  BY <1>3, <1>4

LEMMA MakeSkillDirectory ==
  ASSUME SkillInv, NEW i \in DOMAIN saves, Skills!MakeDirectory(i) PROVE SkillInv'
<1>1. /\ saves[i].pc = "make" /\ UNCHANGED <<panel, overlapped, moved, mine>>
      /\ saves' = [saves EXCEPT ![i].pc = "write"]
      /\ disk' = IF Skills!Target(i) \in DOMAIN disk THEN disk
                 ELSE Skills!With(disk, Skills!Target(i), Skills!NoDraft)
  BY DEF Skills!MakeDirectory
<1>2. /\ SavesTyped' /\ DOMAIN saves' = DOMAIN saves
      /\ saves'[i].pc = "write" /\ saves'[i].draft = saves[i].draft
      /\ \A j \in DOMAIN saves : j # i => saves'[j] = saves[j]
      /\ \A j \in DOMAIN saves : Skills!Target(j)' = Skills!Target(j)
  BY <1>1, PlaceSet DEF SkillInv, Places
<1>3. /\ DOMAIN disk' = DOMAIN disk \cup {Skills!Target(i)}
      /\ \A d \in DOMAIN disk : disk'[d] = disk[d]
  <2>1. CASE Skills!Target(i) \in DOMAIN disk
    BY <1>1, <2>1
  <2>2. CASE Skills!Target(i) \notin DOMAIN disk
    BY <1>1, <2>2 DEF Skills!With
  <2> QED
    BY <2>1, <2>2
<1>4. Skills!Target(i) \notin DOMAIN mine \/ Contested(i)
  BY <1>1 DEF SkillInv, SaveFits, HandMadeFits, Free
<1>5. SaveFits(i)'
  BY <1>1, <1>2, <1>3, <1>4 DEF SkillInv, SaveFits, Contested, Free
<1>6. ASSUME NEW j \in DOMAIN saves, j # i PROVE SaveFits(j)'
  <2>1. saves'[j] = saves[j] /\ Skills!Target(j)' = Skills!Target(j) /\ SaveFits(j)
    BY <1>2, <1>6 DEF SkillInv
  <2>2. saves[j].pc = "make" /\ Skills!Target(j) = Skills!Target(i) => Contested(j)
    BY <1>1, <1>6 DEF SkillInv, Alone, Chosen
  <2> QED
    BY <1>1, <1>3, <2>1, <2>2 DEF SaveFits, Contested, Free
<1>7. Alone'
  BY <1>1, <1>2 DEF SkillInv, Alone, Chosen, Contested
<1>8. HandMadeFits' /\ PanelTyped' /\ moved' \in BOOLEAN
  BY <1>1, <1>3 DEF SkillInv, HandMadeFits, PanelTyped, Free
<1>9. PanelFits'
  BY <1>1, <1>2 DEF SkillInv, PanelFits
<1> QED
  BY <1>2, <1>5, <1>6, <1>7, <1>8, <1>9 DEF SkillInv

LEMMA WriteSkillFile ==
  ASSUME SkillInv, NEW i \in DOMAIN saves, Skills!WriteSkill(i) PROVE SkillInv'
<1>1. /\ saves[i].pc = "write" /\ UNCHANGED <<overlapped, moved, mine>>
      /\ saves' = [saves EXCEPT ![i].pc = "done"]
      /\ disk' = [disk EXCEPT ![Skills!Target(i)] = saves[i].draft]
      /\ panel' = [panel EXCEPT !.open = TRUE, !.path = Skills!Target(i)]
  BY DEF Skills!WriteSkill
<1>2. /\ SavesTyped' /\ DOMAIN saves' = DOMAIN saves
      /\ saves'[i].pc = "done" /\ saves'[i].draft = saves[i].draft
      /\ \A j \in DOMAIN saves : j # i => saves'[j] = saves[j]
      /\ \A j \in DOMAIN saves : Skills!Target(j)' = Skills!Target(j)
  BY <1>1, PlaceSet DEF SkillInv, Places
<1>3. Skills!Target(i) \in DOMAIN disk
  BY <1>1 DEF SkillInv, SaveFits, Free
<1>4. /\ DOMAIN disk' = DOMAIN disk /\ disk'[Skills!Target(i)] = saves[i].draft
      /\ \A d \in DOMAIN disk : d # Skills!Target(i) => disk'[d] = disk[d]
  BY <1>1, <1>3
<1>5. PanelTyped' /\ panel'.draft = panel.draft /\ panel'.path = Skills!Target(i)
  <2>1. PICK D, P : panel \in [open : BOOLEAN, draft : D, path : P]
    BY DEF SkillInv, PanelTyped
  <2>2. panel' = [open |-> TRUE, draft |-> panel.draft, path |-> Skills!Target(i)]
    BY <1>1, <2>1
  <2>3. panel' \in [open : BOOLEAN, draft : D, path : P \cup {Skills!Target(i)}]
    BY <2>1, <2>2
  <2> QED
    BY <2>2, <2>3 DEF PanelTyped
<1>6. ~moved => saves[i].draft = panel.draft
  BY <1>1 DEF SkillInv, SaveFits
<1>7. SaveFits(i)'
  BY <1>1, <1>2, <1>3, <1>4 DEF SaveFits, Free
<1>8. ASSUME NEW j \in DOMAIN saves, j # i PROVE SaveFits(j)'
  <2>1. saves'[j] = saves[j] /\ Skills!Target(j)' = Skills!Target(j) /\ SaveFits(j)
    BY <1>2, <1>8 DEF SkillInv
  <2>2. Chosen(j) /\ Skills!Target(j) = Skills!Target(i) => Contested(j)
    BY <1>1, <1>8 DEF SkillInv, Alone, Chosen
  <2> QED
    BY <1>1, <1>4, <1>5, <2>1, <2>2 DEF SaveFits, Contested, Free, Chosen
<1>9. Alone'
  BY <1>1, <1>2 DEF SkillInv, Alone, Chosen, Contested
<1>10. HandMadeFits'
  <2>1. Skills!Target(i) \notin DOMAIN mine \/ Contested(i)
    BY <1>1 DEF SkillInv, SaveFits
  <2> QED
    BY <1>1, <1>4, <2>1 DEF SkillInv, HandMadeFits, Free, Contested
<1>11. PanelFits'
  BY <1>1, <1>2, <1>5, <1>6 DEF PanelFits
<1> QED
  BY <1>1, <1>2, <1>5, <1>7, <1>8, <1>9, <1>10, <1>11 DEF SkillInv

LEMMA SkillByHand ==
  ASSUME SkillInv, NEW dir, Skills!ByHand(dir) PROVE SkillInv'
<1>1. /\ dir \notin DOMAIN disk /\ UNCHANGED <<panel, saves, moved>>
      /\ disk' = Skills!With(disk, dir, Skills!HandMade)
      /\ mine' = Skills!With(mine, dir, Skills!HandMade)
      /\ overlapped' = overlapped \cup ({dir} \cap Skills!Targets)
  BY DEF Skills!ByHand
<1>2. /\ DOMAIN disk' = DOMAIN disk \cup {dir} /\ disk'[dir] = Skills!HandMade
      /\ \A d \in DOMAIN disk : disk'[d] = disk[d]
      /\ DOMAIN mine' = DOMAIN mine \cup {dir} /\ mine'[dir] = Skills!HandMade
      /\ \A d \in DOMAIN mine : d # dir => mine'[d] = mine[d]
  BY <1>1 DEF Skills!With
<1>3. \A j \in DOMAIN saves : Skills!Target(j)' = Skills!Target(j)
  BY <1>1 DEF Skills!Target
<1>4. ASSUME NEW j \in DOMAIN saves PROVE SaveFits(j)'
  <2>1. saves[j].pc = "make" /\ Skills!Target(j) = dir => dir \in overlapped'
    BY <1>1 DEF Skills!Targets
  <2> QED
    BY <1>1, <1>2, <1>3, <2>1 DEF SkillInv, SaveFits, Contested, Free
<1>5. Alone'
  BY <1>1, <1>3 DEF SkillInv, Alone, Chosen, Contested
<1>6. HandMadeFits'
  BY <1>1, <1>2 DEF SkillInv, HandMadeFits, Free
<1>7. PanelFits'
  BY <1>1, <1>3 DEF SkillInv, PanelFits
<1>8. SavesTyped' /\ PanelTyped' /\ moved' \in BOOLEAN
  BY <1>1 DEF SkillInv, SavesTyped, PanelTyped
<1> QED
  BY <1>1, <1>4, <1>5, <1>6, <1>7, <1>8 DEF SkillInv

LEMMA SaveBegins ==
  ASSUME SkillInv, Skills!SaveBegin PROVE SkillInv'
<1> DEFINE clean == Skills!Slugify(panel.draft.slug)
           s == [pc |-> "look", n |-> 1, draft |-> panel.draft, clean |-> clean]
<1>1. saves' = Append(saves, s) /\ UNCHANGED <<panel, disk, overlapped, moved, mine>>
  BY Zenon DEF Skills!SaveBegin
<1>2. PICK D, C : saves \in Seq(SaveOf(D, C))
  BY DEF SkillInv, SavesTyped
<1>3. \A t \in SaveOf(D, C) : t \in SaveOf(D \cup {panel.draft}, C \cup {clean})
  BY DEF SaveOf
<1>4. saves \in Seq(SaveOf(D \cup {panel.draft}, C \cup {clean}))
  <2> DEFINE T == SaveOf(D \cup {panel.draft}, C \cup {clean})
  <2>1. SaveOf(D, C) \subseteq T
    BY <1>3
  <2> HIDE DEF T
  <2>2. Len(saves) \in Nat /\ saves \in [1 .. Len(saves) -> SaveOf(D, C)]
    BY <1>2
  <2>3. saves \in [1 .. Len(saves) -> T]
    BY <2>1, <2>2
  <2>4. saves \in Seq(T)
    BY <2>2, <2>3
  <2> QED
    BY <2>4 DEF T
<1>5. s \in SaveOf(D \cup {panel.draft}, C \cup {clean}) /\ s.pc = "look" /\ s.draft = panel.draft
  BY DEF SaveOf, Places
<1> HIDE DEF s, clean
<1>6. PICK k : k = Len(saves) + 1
  OBVIOUS
<1>7. /\ saves' \in Seq(SaveOf(D \cup {panel.draft}, C \cup {clean}))
      /\ DOMAIN saves' = DOMAIN saves \cup {k}
      /\ saves'[k] = s /\ \A j \in DOMAIN saves : saves'[j] = saves[j]
  BY <1>1, <1>4, <1>5, <1>6
<1>8. SavesTyped'
  BY <1>7 DEF SavesTyped
<1>9. \A j \in DOMAIN saves : Skills!Target(j)' = Skills!Target(j)
  BY <1>7 DEF Skills!Target
<1>10. SaveFits(k)'
  BY <1>1, <1>5, <1>7 DEF SaveFits
<1>11. \A j \in DOMAIN saves : SaveFits(j)'
  BY <1>1, <1>7, <1>9 DEF SkillInv, SaveFits, Contested, Free
<1>12. Alone'
  BY <1>1, <1>5, <1>7, <1>9 DEF SkillInv, Alone, Chosen, Contested
<1>13. PanelFits'
  BY <1>1, <1>7, <1>9 DEF SkillInv, PanelFits
<1>14. HandMadeFits' /\ PanelTyped' /\ moved' \in BOOLEAN
  BY <1>1 DEF SkillInv, HandMadeFits, PanelTyped, Free
<1> QED
  BY <1>7, <1>8, <1>10, <1>11, <1>12, <1>13, <1>14 DEF SkillInv

\* The panel shows something else: no path, and saves under way are not its own.
LEMMA PanelChanges ==
  ASSUME SkillInv, PanelTyped', panel'.path = <<>>, moved' = (moved \/ Skills!Saving),
         UNCHANGED <<saves, disk, overlapped, mine>>
  PROVE  SkillInv'
<1>1. ~moved' => ~moved /\ \A j \in DOMAIN saves : saves[j].pc = "done"
  BY Zenon DEF Skills!Saving
<1>2. \A j \in DOMAIN saves : SaveFits(j)'
  <2> SUFFICES ASSUME NEW j \in DOMAIN saves PROVE SaveFits(j)'
    OBVIOUS
  <2>1. Skills!Target(j)' = Skills!Target(j)
    BY DEF Skills!Target
  <2> QED
    BY <1>1, <2>1 DEF SkillInv, SaveFits, Contested, Free
<1>3. moved' \in BOOLEAN
  BY Zenon DEF SkillInv, Skills!Saving
<1>4. Alone' /\ HandMadeFits' /\ SavesTyped'
  BY DEF SkillInv, Alone, HandMadeFits, SavesTyped, Chosen, Contested, Free, Skills!Target
<1>5. PanelFits'
  BY DEF PanelFits
<1> QED
  BY <1>2, <1>3, <1>4, <1>5 DEF SkillInv

LEMMA SkillKeeps == SkillInv /\ [Skills!DraftNext]_draftVars => SkillInv'
<1> SUFFICES ASSUME SkillInv, [Skills!DraftNext]_draftVars PROVE SkillInv'
  OBVIOUS
<1>1. CASE UNCHANGED <<panel, disk, saves, overlapped, moved, mine>>
  BY <1>1 DEF SkillInv, SavesTyped, PanelTyped, Alone, HandMadeFits, PanelFits, SaveFits,
              Chosen, Contested, Free, Skills!Target
<1>2. ASSUME NEW s, NEW p, Skills!NewPrompt(s, p) PROVE SkillInv'
  BY <1>1, <1>2 DEF Skills!NewPrompt
<1>3. ASSUME NEW c, Skills!MineCard(c) PROVE SkillInv'
  BY <1>1, <1>3 DEF Skills!MineCard
<1>4. Skills!Closed \in [open : BOOLEAN, draft : {Skills!NoDraft}, path : {<<>>}]
  BY DEF Skills!Closed
<1>5. ASSUME NEW c, Skills!Ask(c) PROVE SkillInv'
  <2>1. panel' = [Skills!Closed EXCEPT !.open = TRUE]
    BY <1>5 DEF Skills!Ask
  <2>2. panel' \in [open : BOOLEAN, draft : {Skills!NoDraft}, path : {<<>>}]
    BY <1>4, <2>1
  <2>3. PanelTyped' /\ panel'.path = <<>>
    BY <2>2 DEF PanelTyped
  <2> QED
    BY <1>5, <2>3, PanelChanges DEF Skills!Ask
<1>6. ASSUME NEW i, Skills!Drafted(i) PROVE SkillInv'
  <2>1. PICK d : panel' = [open |-> TRUE, path |-> <<>>, draft |-> d]
    BY <1>6, Zenon DEF Skills!Drafted
  <2>2. panel' \in [open : BOOLEAN, draft : {d}, path : {<<>>}]
    BY <2>1
  <2>3. PanelTyped' /\ panel'.path = <<>>
    BY <2>2 DEF PanelTyped
  <2>4. moved' = (moved \/ Skills!Saving) /\ UNCHANGED <<saves, disk, overlapped, mine>>
    BY <1>6, Zenon DEF Skills!Drafted
  <2> QED
    BY <2>3, <2>4, PanelChanges
<1>7. CASE Skills!ClosePanel
  <2>1. PanelTyped' /\ panel'.path = <<>>
    BY <1>4, <1>7 DEF Skills!ClosePanel, PanelTyped
  <2> QED
    BY <1>7, <2>1, PanelChanges DEF Skills!ClosePanel
<1>8. ASSUME NEW dir, Skills!ByHand(dir) PROVE SkillInv'
  BY <1>8, SkillByHand
<1>9. CASE UNCHANGED draftVars
  BY <1>1, <1>9 DEF draftVars
<1> QED
  BY <1>2, <1>3, <1>5, <1>6, <1>7, <1>8, <1>9, LookSkill, MakeSkillDirectory, WriteSkillFile,
     SaveBegins DEF Skills!DraftNext

LEMMA SkillInvariant == MCSpec => []SkillInv
<1>1. MCInit => SkillInv
  <2> SUFFICES ASSUME Skills!DraftInit PROVE SkillInv
    BY DEF MCInit
  <2>1. /\ panel = Skills!Closed /\ saves = <<>> /\ disk = <<>> /\ overlapped = {}
        /\ moved = FALSE /\ mine = <<>>
    BY DEF Skills!DraftInit
  <2>2. panel \in [open : BOOLEAN, draft : {Skills!NoDraft}, path : {<<>>}]
    BY <2>1 DEF Skills!Closed
  <2>3. PanelTyped /\ panel.path = <<>>
    BY <2>2 DEF PanelTyped
  <2>4. saves \in Seq(SaveOf({}, {})) /\ DOMAIN saves = {} /\ DOMAIN mine = {}
    BY <2>1
  <2>5. SavesTyped
    BY <2>4 DEF SavesTyped
  <2> QED
    BY <2>1, <2>3, <2>4, <2>5 DEF SkillInv, Alone, HandMadeFits, PanelFits
<1>2. [MCNext]_deskVars => [Skills!DraftNext]_draftVars
  BY DEF MCNext, deskVars
<1> QED
  BY <1>1, <1>2, SkillKeeps, PTL DEF MCSpec

\* No skill is overwritten, and the panel tells the path where its draft was saved,
\* except where two took the same free directory at once, or the panel moved on while a
\* save was under way (write_draft, saveDraft).
THEOREM SkillsKept == MCSpec => [](part = "skills" => Skills!NothingClobbered /\ Skills!PathFits)
<1>1. SkillInv => Skills!NothingClobbered /\ Skills!PathFits
  <2> SUFFICES ASSUME SkillInv PROVE Skills!NothingClobbered /\ Skills!PathFits
    OBVIOUS
  <2>1. Skills!NothingClobbered
    BY DEF SkillInv, HandMadeFits, SaveFits, Contested, Skills!NothingClobbered
  <2>2. Skills!PathFits
    BY DEF SkillInv, PanelFits, SaveFits, Contested, Skills!PathFits
  <2> QED
    BY <2>1, <2>2
<1> QED
  BY <1>1, SkillInvariant, PTL

-----------------------------------------------------------------------------
(* Drafts: slugs of slugs, and the sessions a draft rests on. *)

Joining == INSTANCE FoldLemmas WITH Op <- Skills!Joined, Base <- <<>>

LEMMA LettersAre == ~Skills!Letter("-") /\ Skills!Letter("workflow")
BY Zenon DEF Skills!Letter

\* What a slug is made of: letters and "-", which is not first and never twice in a row.
Sign(ch) == ch = "-" \/ Skills!Letter(ch)
Tidy(s, T) ==
  /\ s \in Seq(T)
  /\ \A i \in 1 .. Len(s) : Sign(s[i])
  /\ s # <<>> => s[1] # "-"
  /\ \A i \in 1 .. Len(s) - 1 : s[i] = "-" => s[i + 1] # "-"

LEMMA AppendedTidy ==
  ASSUME NEW T, NEW out, Tidy(out, T), NEW ch \in T, Sign(ch),
         ch = "-" => out # <<>> /\ out[Len(out)] # "-"
  PROVE  Tidy(Append(out, ch), T)
<1> DEFINE n == Len(out)
           more == Append(out, ch)
<1>1. out \in Seq(T) /\ n \in Nat /\ (out # <<>> <=> n # 0)
  BY EmptySeq DEF Tidy
<1>2. /\ more \in Seq(T) /\ more # <<>> /\ Len(more) = n + 1
      /\ \A i \in 1 .. n : more[i] = out[i]
      /\ more[n + 1] = ch
  BY <1>1, AppendProperties
<1> HIDE DEF more, n
<1>3. ASSUME NEW i \in 1 .. n + 1 PROVE Sign(more[i])
  <2>1. CASE i = n + 1
    BY <1>2, <2>1
  <2>2. CASE i \in 1 .. n
    BY <1>2, <2>2 DEF Tidy, n
  <2> QED
    BY <1>1, <2>1, <2>2
<1>4. more[1] # "-"
  <2>1. CASE n = 0
    BY <1>1, <1>2, <2>1
  <2>2. CASE n # 0
    <3>1. 1 \in 1 .. n
      BY <1>1, <2>2
    <3> QED
      BY <1>1, <1>2, <2>2, <3>1 DEF Tidy
  <2> QED
    BY <2>1, <2>2
<1>5. ASSUME NEW i \in 1 .. n, more[i] = "-" PROVE more[i + 1] # "-"
  <2>1. CASE i = n
    BY <1>1, <1>2, <1>5, <2>1 DEF n
  <2>2. CASE i \in 1 .. n - 1
    <3>1. i + 1 \in 1 .. n
      BY <1>1, <2>2
    <3> QED
      BY <1>2, <1>5, <2>2, <3>1 DEF Tidy, n
  <2> QED
    BY <1>1, <2>1, <2>2
<1>6. Tidy(more, T)
  <2>1. \A i \in 1 .. Len(more) : Sign(more[i])
    BY <1>2, <1>3
  <2>2. \A i \in 1 .. Len(more) - 1 : more[i] = "-" => more[i + 1] # "-"
    <3>1. Len(more) - 1 = n
      BY <1>1, <1>2
    <3> QED
      BY <1>5, <3>1, Zenon
  <2> QED
    BY <1>2, <1>4, <2>1, <2>2, Zenon DEF Tidy
<1> QED
  BY <1>6 DEF more

LEMMA JoinedTidy ==
  ASSUME NEW T, "-" \in T, NEW out, Tidy(out, T), NEW ch \in T
  PROVE  Tidy(Skills!Joined(out, ch), T)
<1>1. CASE Skills!Letter(ch)
  <2>1. Sign(ch) /\ ch # "-"
    BY <1>1, LettersAre DEF Sign
  <2>2. Skills!Joined(out, ch) = Append(out, ch)
    BY <1>1 DEF Skills!Joined
  <2> QED
    BY <2>1, <2>2, AppendedTidy
<1>2. CASE ~Skills!Letter(ch)
  <2>1. CASE out # <<>> /\ out[Len(out)] # "-"
    <3>1. Skills!Joined(out, ch) = Append(out, "-")
      BY <1>2, <2>1, Zenon DEF Skills!Joined, Skills!Last
    <3>2. Sign("-")
      BY DEF Sign
    <3> QED
      BY <2>1, <3>1, <3>2, AppendedTidy
  <2>2. CASE ~(out # <<>> /\ out[Len(out)] # "-")
    BY <1>2, <2>2, Zenon DEF Skills!Joined, Skills!Last
  <2> QED
    BY <2>1, <2>2
<1> QED
  BY <1>1, <1>2

LEMMA PrefixTidy ==
  ASSUME NEW T, NEW s, Tidy(s, T), NEW n \in 0 .. Len(s)
  PROVE  Tidy(SubSeq(s, 1, n), T) /\ Len(SubSeq(s, 1, n)) = n
<1> DEFINE t == SubSeq(s, 1, n)
<1>1. s \in Seq(T) /\ Len(s) \in Nat /\ n \in Nat /\ n <= Len(s) /\ (s = <<>> <=> Len(s) = 0)
  BY EmptySeq DEF Tidy
<1>2. t \in Seq(T) /\ Len(t) = n /\ \A i \in 1 .. n : t[i] = s[i]
  <2>1. 1 \in Int /\ n \in Int /\ \A i \in 1 .. n : s[i] \in T
    BY <1>1
  <2>2. /\ t \in Seq(T) /\ Len(t) = (IF 1 <= n THEN n - 1 + 1 ELSE 0)
        /\ \A i \in 1 .. n - 1 + 1 : t[i] = s[1 + i - 1]
    BY <2>1, SubSeqProperties
  <2> HIDE DEF t
  <2>3. \A i \in 1 .. n : i \in 1 .. n - 1 + 1 /\ 1 + i - 1 = i
    BY <1>1
  <2>4. Len(t) = n
    BY <1>1, <2>2
  <2> QED
    BY <2>2, <2>3, <2>4
<1> HIDE DEF t
<1>3. \A i \in 1 .. n : i \in 1 .. Len(s)
  BY <1>1
<1>4. t # <<>> => 1 \in 1 .. n /\ s # <<>>
  BY <1>1, <1>2, EmptySeq
<1>5. \A i \in 1 .. n - 1 : i \in 1 .. Len(s) - 1 /\ i \in 1 .. n /\ i + 1 \in 1 .. n
  BY <1>1
<1>6. Tidy(t, T)
  <2>1. \A i \in 1 .. n : Sign(t[i])
    BY <1>2, <1>3 DEF Tidy
  <2>2. t # <<>> => t[1] # "-"
    BY <1>2, <1>4 DEF Tidy
  <2>3. \A i \in 1 .. n - 1 : t[i] = "-" => t[i + 1] # "-"
    BY <1>2, <1>5 DEF Tidy
  <2> QED
    BY <1>2, <2>1, <2>2, <2>3, Zenon DEF Tidy
<1> QED
  BY <1>2, <1>6 DEF t

\* A name that is tidy already is joined to itself.
LEMMA TidyStays ==
  ASSUME NEW T, NEW s, Tidy(s, T) PROVE Joining!FromLeft(s) = s
<1> DEFINE I == [k \in 0 .. Len(s) |-> {SubSeq(s, 1, k)}]
<1>1. s \in Seq(T) /\ Len(s) \in Nat
  BY DEF Tidy
<1>2. <<>> \in I[0]
  <2>1. SubSeq(s, 1, 0) = <<>>
    BY SubSeqEmpty
  <2> QED
    BY <1>1, <2>1
<1>3. ASSUME NEW k \in 1 .. Len(s), NEW a \in I[k - 1] PROVE Skills!Joined(a, s[k]) \in I[k]
  <2>1. k - 1 \in 0 .. Len(s) /\ k \in 0 .. Len(s) /\ Len(s) \in Nat /\ s[k] \in T /\ Sign(s[k])
    BY <1>1 DEF Tidy
  <2>2. a = SubSeq(s, 1, k - 1)
    BY <2>1
  <2>3. a \in Seq(T) /\ Len(a) = k - 1 /\ Tidy(a, T)
    BY <2>1, <2>2, PrefixTidy DEF Tidy
  <2>4. SubSeq(s, 1, k) = Append(a, s[k])
    <3>1. SubSeq(s, 1, k) = SubSeq(s, 1, k - 1) \o <<s[k]>>
      <4>1. 1 \in 1 .. Len(s) /\ k \in 1 .. Len(s)
        BY <2>1
      <4> QED
        BY <1>1, <4>1, SubSeqRecursiveSecond
    <3> QED
      BY <2>1, <2>2, <2>3, <3>1, AppendIsConcat
  <2> HIDE DEF I
  <2>5. Skills!Joined(a, s[k]) = Append(a, s[k])
    <3>1. CASE s[k] # "-"
      BY <2>1, <3>1 DEF Skills!Joined, Sign
    <3>2. CASE s[k] = "-"
      <4>1. k # 1
        <5>1. s # <<>>
          BY <1>1, EmptySeq
        <5> QED
          BY <3>2, <5>1 DEF Tidy
      <4>2. s[k - 1] # "-"
        <5>1. k - 1 \in 1 .. Len(s) - 1 /\ (k - 1) + 1 = k
          BY <2>1, <4>1
        <5> QED
          BY <3>2, <5>1 DEF Tidy
      <4>3. a # <<>> /\ a[Len(a)] = s[k - 1]
        <5>1. k - 1 \in 1 .. k - 1 /\ \A i \in 1 .. k - 1 : s[i] \in T
          BY <1>1, <2>1, <4>1
        <5>2. \A i \in 1 .. k - 1 - 1 + 1 : a[i] = s[1 + i - 1]
          BY <2>1, <2>2, <5>1, SubSeqProperties
        <5>3. k - 1 \in 1 .. k - 1 - 1 + 1 /\ 1 + (k - 1) - 1 = k - 1 /\ k - 1 # 0
          BY <2>1, <4>1
        <5>4. a[k - 1] = s[k - 1]
          BY <5>2, <5>3
        <5> QED
          BY <2>3, <5>3, <5>4, EmptySeq
      <4> QED
        BY <3>2, <4>2, <4>3, LettersAre DEF Skills!Joined, Skills!Last
    <3> QED
      BY <3>1, <3>2
  <2> QED
    BY <2>1, <2>4, <2>5 DEF I
<1>4. Joining!FromLeft(s) \in I[Len(s)]
  <2> HIDE DEF I
  <2> QED
    BY <1>1, <1>2, <1>3, Joining!FoldLeftHolds
<1>5. SubSeq(s, 1, Len(s)) = s
  BY <1>1, SubSeqFull
<1> QED
  BY <1>1, <1>4, <1>5

LEMMA FoldIsJoining == \A s : Skills!FoldLeft(Skills!Joined, <<>>, s) = Joining!FromLeft(s)
BY Zenon DEF Joining!FromLeft, Skills!FoldLeft, Joining!FoldLeft, Skills!MapThenFoldSet,
   Joining!MapThenFoldSet, Skills!Max, Joining!Max

\* A slug of a slug is the slug, unless it was cut after a "-".
LEMMA SlugOfSlug ==
  ASSUME NEW T, NEW name \in Seq(T), Skills!Last(Skills!Slugify(name)) # "-"
  PROVE  Skills!Slugify(Skills!Slugify(name)) = Skills!Slugify(name)
<1> DEFINE C == T \cup {"-", "workflow"}
           out == Joining!FromLeft(name)
           trimmed == IF out # <<>> /\ Skills!Last(out) = "-" THEN Skills!Front(out) ELSE out
           slug == Skills!Slugify(name)
<1>0. SlugLimit \in Nat \ {0}
  BY DeskAssumption DEF Skills!DraftAssumption
<1>1. Tidy(out, C)
  <2> DEFINE I == [k \in 0 .. Len(name) |-> {t \in Seq(C) : Tidy(t, C)}]
  <2>1. Len(name) \in Nat /\ name \in Seq(C)
    OBVIOUS
  <2>2. <<>> \in I[0]
    BY <2>1 DEF Tidy
  <2>3. ASSUME NEW k \in 1 .. Len(name), NEW a \in I[k - 1] PROVE Skills!Joined(a, name[k]) \in I[k]
    <3>1. k - 1 \in 0 .. Len(name) /\ k \in 0 .. Len(name) /\ name[k] \in C /\ "-" \in C
      BY <2>1
    <3>2. Tidy(a, C)
      BY <3>1
    <3> HIDE DEF C
    <3>3. Tidy(Skills!Joined(a, name[k]), C)
      BY <3>1, <3>2, JoinedTidy
    <3> QED
      BY <3>1, <3>3 DEF Tidy
  <2>4. out \in I[Len(name)]
    <3> HIDE DEF I, C
    <3> QED
      BY <2>1, <2>2, <2>3, Joining!FoldLeftHolds
  <2> QED
    BY <2>1, <2>4
<1> HIDE DEF out, C
<1>2. Tidy(trimmed, C)
  <2>1. CASE out # <<>> /\ Skills!Last(out) = "-"
    <3>1. Len(out) \in Nat \ {0} /\ Len(out) - 1 \in 0 .. Len(out)
      BY <1>1, <2>1, EmptySeq DEF Tidy
    <3>2. trimmed = SubSeq(out, 1, Len(out) - 1)
      BY <2>1, Zenon DEF Skills!Front
    <3> HIDE DEF trimmed
    <3> QED
      BY <1>1, <3>1, <3>2, PrefixTidy
  <2>2. CASE ~(out # <<>> /\ Skills!Last(out) = "-")
    BY <1>1, <2>2
  <2> QED
    BY <2>1, <2>2
<1>3. slug = IF trimmed = <<>> THEN <<"workflow">>
             ELSE SubSeq(trimmed, 1, IF Len(trimmed) < SlugLimit THEN Len(trimmed) ELSE SlugLimit)
  BY FoldIsJoining, Zenon DEF Skills!Slugify, out
<1> HIDE DEF trimmed
<1>4. Tidy(slug, C) /\ Len(slug) \in 1 .. SlugLimit
  <2>1. CASE trimmed = <<>>
    <3>1. slug = <<"workflow">>
      BY <1>3, <2>1
    <3>2. Tidy(<<"workflow">>, C) /\ Len(<<"workflow">>) = 1
      BY LettersAre DEF Tidy, C, Sign
    <3> QED
      BY <1>0, <3>1, <3>2
  <2>2. CASE trimmed # <<>>
    <3> DEFINE n == IF Len(trimmed) < SlugLimit THEN Len(trimmed) ELSE SlugLimit
    <3>1. Len(trimmed) \in Nat \ {0}
      BY <1>2, <2>2, EmptySeq DEF Tidy
    <3>2. n \in 0 .. Len(trimmed) /\ n \in 1 .. SlugLimit
      BY <1>0, <3>1
    <3>3. slug = SubSeq(trimmed, 1, n)
      BY <1>3, <2>2
    <3> HIDE DEF n
    <3> QED
      BY <1>2, <3>2, <3>3, PrefixTidy
  <2> QED
    BY <2>1, <2>2
<1>5. Skills!Last(slug) # "-" /\ slug # <<>> /\ slug \in Seq(C)
  BY <1>4, EmptySeq DEF Tidy
<1> HIDE DEF slug
<1>6. Skills!FoldLeft(Skills!Joined, <<>>, slug) = slug
  BY <1>4, TidyStays, FoldIsJoining
<1>7. Skills!Slugify(slug) = SubSeq(slug, 1, IF Len(slug) < SlugLimit THEN Len(slug) ELSE SlugLimit)
  BY <1>5, <1>6, Zenon DEF Skills!Slugify
<1>8. (IF Len(slug) < SlugLimit THEN Len(slug) ELSE SlugLimit) = Len(slug)
  BY <1>0, <1>4
<1>9. Skills!Slugify(slug) = slug
  BY <1>5, <1>7, <1>8, SubSeqFull
<1> QED
  BY <1>9 DEF slug

\* A draft that was asked for rests on all that its card counts, and so does the one shown.
Pending == [card : Cards, sessions : SUBSET Sessions, counted : SUBSET Sessions, pc : {"draft"}]
Asking == {c \in Pending : c.counted \subseteq c.sessions} \cup {Skills!Answered}

DraftOK(d) ==
  /\ d.counted \subseteq d.sessions
  /\ d.name # <<>> /\ Skills!Last(d.slug) # "-" => Skills!Slugify(d.name) = Skills!Slugify(d.slug)

DraftInv ==
  /\ counted \in [Cards -> SUBSET Sessions]
  /\ \A c \in Cards : counted[c] \subseteq Skills!Material(c)
  /\ calls \in Seq(Asking)
  /\ DraftOK(panel.draft)

LEMMA NamesFit ==
  ASSUME NEW c \in Cards, NEW b \in Skills!Built(c), Skills!Named(c, b).name # <<>>,
         Skills!Last(Skills!Named(c, b).slug) # "-"
  PROVE  Skills!Slugify(Skills!Named(c, b).name) = Skills!Slugify(Skills!Named(c, b).slug)
<1> DEFINE n == Skills!Named(c, b)
           Fit(r) == r.name # <<>> /\ Skills!Last(r.slug) # "-" =>
                       Skills!Slugify(r.name) = Skills!Slugify(r.slug)
<1>1. CASE Suggested[c] # <<>>
  <2> DEFINE s == Skills!Slugify(Suggested[c])
  <2>1. n = [name |-> IF b.name = <<>> THEN <<>> ELSE s, slug |-> s]
    BY <1>1, Zenon DEF Skills!Named
  <2> HIDE DEF s, n
  <2>2. n.name = <<>> \/ n.name = n.slug
    BY <2>1
  <2> QED
    BY <2>2, Zenon DEF n
<1>2. CASE Suggested[c] = <<>>
  <2>1. n = b
    BY <1>2, Zenon DEF Skills!Named
  <2>2. ASSUME NEW a \in Replies, b = [name |-> a, slug |-> Skills!Slugify(a)] PROVE Fit(b)
    <3> DEFINE s == Skills!Slugify(a)
    <3>1. a \in Seq(Skills!Range(a))
      BY DeskAssumption, Zenon DEF Skills!DraftAssumption
    <3>2. Skills!Last(s) # "-" => Skills!Slugify(s) = s
      BY <3>1, SlugOfSlug, Zenon
    <3> HIDE DEF s
    <3>3. b.name = a /\ b.slug = s
      BY <2>2 DEF s
    <3> QED
      BY <3>2, <3>3, Zenon DEF s
  <2>3. ASSUME NEW s, b = [name |-> <<>>, slug |-> s] \/ b = [name |-> s, slug |-> s] PROVE Fit(b)
    <3>1. b.name = <<>> \/ b.name = b.slug
      BY <2>3
    <3> QED
      BY <3>1, Zenon
  <2>4. Fit(b)
    BY <2>2, <2>3, Zenon DEF Skills!Built
  <2> QED
    BY <2>1, <2>4, Zenon
<1> QED
  BY <1>1, <1>2

LEMMA DraftKeeps == PanelTyped /\ DraftInv /\ [Skills!DraftNext]_draftVars => DraftInv'
<1> SUFFICES ASSUME PanelTyped, DraftInv, [Skills!DraftNext]_draftVars PROVE DraftInv'
  OBVIOUS
<1>1. \A c \in Cards : Skills!Material(c) \subseteq Sessions
  BY DEF Skills!Material, Skills!SessionsOf
<1>2. DraftOK(Skills!NoDraft)
  <2>1. /\ Skills!NoDraft.counted = {} /\ Skills!NoDraft.sessions = {} /\ Skills!NoDraft.name = <<>>
    BY DEF Skills!NoDraft
  <2> QED
    BY <2>1 DEF DraftOK
<1>3. ASSUME UNCHANGED <<prompts, counted, calls>>, panel'.draft \in {panel.draft, Skills!NoDraft}
      PROVE  DraftInv'
  <2>1. DraftOK(panel'.draft)
    BY <1>2, <1>3, Zenon DEF DraftInv
  <2>2. \A c \in Cards : Skills!Material(c)' = Skills!Material(c)
    BY <1>3 DEF Skills!Material, Skills!SessionsOf
  <2> QED
    BY <1>3, <2>1, <2>2 DEF DraftInv, DraftOK
<1>4. ASSUME NEW s, NEW p, Skills!NewPrompt(s, p) PROVE DraftInv'
  <2>1. prompts \subseteq prompts' /\ UNCHANGED <<counted, calls, panel>>
    BY <1>4 DEF Skills!NewPrompt
  <2>2. \A c \in Cards : Skills!Material(c) \subseteq Skills!Material(c)'
    BY <2>1 DEF Skills!Material, Skills!SessionsOf
  <2> QED
    BY <2>1, <2>2 DEF DraftInv, DraftOK
<1>5. ASSUME NEW c \in Cards, Skills!MineCard(c) PROVE DraftInv'
  <2>1. PICK window \in SUBSET Sessions :
          counted' = [counted EXCEPT ![c] = Skills!SessionsOf(NormsOf[c]) \cap window]
    BY <1>5 DEF Skills!MineCard
  <2>2. UNCHANGED <<prompts, calls, panel>>
    BY <1>5 DEF Skills!MineCard
  <2>3. \A d \in Cards : Skills!Material(d)' = Skills!Material(d)
    BY <2>2 DEF Skills!Material, Skills!SessionsOf
  <2>4. Skills!SessionsOf(NormsOf[c]) = Skills!Material(c)
    BY DEF Skills!Material
  <2>5. counted' \in [Cards -> SUBSET Sessions] /\ \A d \in Cards : counted'[d] \subseteq Skills!Material(d)
    BY <1>1, <2>1, <2>4 DEF DraftInv
  <2> QED
    BY <2>2, <2>3, <2>5 DEF DraftInv, DraftOK
<1>6. ASSUME NEW c \in Cards, Skills!Ask(c) PROVE DraftInv'
  <2> DEFINE call == [card |-> c, sessions |-> Skills!Material(c), counted |-> counted[c], pc |-> "draft"]
  <2>1. /\ calls' = Append(calls, call) /\ panel' = [Skills!Closed EXCEPT !.open = TRUE]
        /\ UNCHANGED <<prompts, counted>>
    BY <1>6 DEF Skills!Ask
  <2>2. call \in Asking
    <3>1. Skills!Material(c) \subseteq Sessions /\ counted[c] \subseteq Skills!Material(c)
      BY <1>1 DEF DraftInv
    <3> QED
      BY <3>1 DEF Asking, Pending
  <2> HIDE DEF call
  <2>3. calls' \in Seq(Asking)
    BY <2>1, <2>2 DEF DraftInv
  <2>4. panel'.draft = Skills!NoDraft
    BY <2>1 DEF Skills!Closed
  <2>5. \A d \in Cards : Skills!Material(d)' = Skills!Material(d)
    BY <2>1 DEF Skills!Material, Skills!SessionsOf
  <2>6. DraftOK(panel'.draft)
    BY <1>2, <2>4, Zenon
  <2> QED
    BY <2>1, <2>3, <2>5, <2>6 DEF DraftInv, DraftOK
<1>7. ASSUME NEW i \in DOMAIN calls, Skills!Drafted(i) PROVE DraftInv'
  <2> DEFINE call == calls[i]
  <2>1. PICK b \in Skills!Built(call.card) :
          panel' = [open |-> TRUE, path |-> <<>>,
                    draft |-> [card |-> call.card, slug |-> Skills!Named(call.card, b).slug,
                               name |-> Skills!Named(call.card, b).name,
                               sessions |-> call.sessions, counted |-> call.counted]]
    BY <1>7, Zenon DEF Skills!Drafted
  <2>2. call.pc = "draft" /\ calls' = [calls EXCEPT ![i] = Skills!Answered] /\ UNCHANGED <<prompts, counted>>
    BY <1>7 DEF Skills!Drafted
  <2>3. call.card \in Cards /\ call.counted \subseteq call.sessions
    <3>1. call \in Asking
      BY DEF DraftInv
    <3> HIDE DEF call
    <3> QED
      BY <2>2, <3>1 DEF Asking, Pending, Skills!Answered
  <2>4. calls' \in Seq(Asking)
    <3>1. Skills!Answered \in Asking
      BY DEF Asking
    <3> QED
      BY <2>2, <3>1 DEF DraftInv
  <2> HIDE DEF call
  <2> DEFINE n == Skills!Named(call.card, b)
  <2>5. /\ panel'.draft.counted = call.counted /\ panel'.draft.sessions = call.sessions
        /\ panel'.draft.name = n.name /\ panel'.draft.slug = n.slug
    <3> HIDE DEF n
    <3>1. panel' = [open |-> TRUE, path |-> <<>>,
                    draft |-> [card |-> call.card, slug |-> n.slug, name |-> n.name,
                               sessions |-> call.sessions, counted |-> call.counted]]
      BY <2>1 DEF n
    <3> QED
      BY <3>1
  <2>6. n.name # <<>> /\ Skills!Last(n.slug) # "-" => Skills!Slugify(n.name) = Skills!Slugify(n.slug)
    BY <2>3, NamesFit, Zenon
  <2> HIDE DEF n
  <2>7. DraftOK(panel'.draft)
    BY <2>3, <2>5, <2>6, Zenon DEF DraftOK
  <2>8. \A d \in Cards : Skills!Material(d)' = Skills!Material(d)
    BY <2>2 DEF Skills!Material, Skills!SessionsOf
  <2> QED
    BY <2>2, <2>4, <2>7, <2>8 DEF DraftInv, DraftOK
<1>8. CASE Skills!ClosePanel
  BY <1>3, <1>8 DEF Skills!ClosePanel, Skills!Closed
<1>9. ASSUME NEW i, Skills!WriteSkill(i) PROVE DraftInv'
  <2>1. UNCHANGED <<prompts, counted, calls>> /\ panel' = [panel EXCEPT !.open = TRUE, !.path = Skills!Target(i)]
    BY <1>9, Zenon DEF Skills!WriteSkill
  <2>2. panel'.draft = panel.draft
    BY <2>1 DEF PanelTyped
  <2> QED
    BY <1>3, <2>1, <2>2
<1>10. CASE UNCHANGED <<prompts, counted, calls, panel>>
  BY <1>3, <1>10
<1>11. ASSUME NEW i, NEW dir, Skills!Look(i) \/ Skills!MakeDirectory(i) \/ Skills!SaveBegin \/ Skills!ByHand(dir)
       PROVE  DraftInv'
  BY <1>10, <1>11, Zenon DEF Skills!Look, Skills!MakeDirectory, Skills!SaveBegin, Skills!ByHand
<1>12. CASE UNCHANGED draftVars
  BY <1>10, <1>12 DEF draftVars
<1> QED
  BY <1>4, <1>5, <1>6, <1>7, <1>8, <1>9, <1>11, <1>12, Zenon DEF Skills!DraftNext

\* A skill rests on every session its card counted, and its front matter has the name its
\* directory is made from, unless the slug was cut right after a "-"; none is overwritten
\* and the panel tells its path, except where two took the same free directory at once or
\* the panel moved on (generate_skill_draft, write_draft, saveDraft).
THEOREM SkillsAreSafe == MCSpec => []SkillsSafe
<1>1. MCInit => DraftInv
  <2> SUFFICES ASSUME Skills!DraftInit PROVE DraftInv
    BY DEF MCInit
  <2>1. counted = [c \in Cards |-> {}] /\ calls = <<>> /\ panel = Skills!Closed
    BY DEF Skills!DraftInit
  <2>2. panel.draft = Skills!NoDraft
    BY <2>1 DEF Skills!Closed
  <2>3. /\ Skills!NoDraft.counted = {} /\ Skills!NoDraft.sessions = {} /\ Skills!NoDraft.name = <<>>
    BY DEF Skills!NoDraft
  <2>4. DraftOK(panel.draft)
    BY <2>2, <2>3 DEF DraftOK
  <2>5. calls \in Seq(Asking)
    BY <2>1
  <2> QED
    BY <2>1, <2>4, <2>5 DEF DraftInv
<1>2. [MCNext]_deskVars => [Skills!DraftNext]_draftVars
  BY DEF MCNext, deskVars
<1>3. SkillInv => PanelTyped
  BY DEF SkillInv
<1>4. /\ DraftInv
      /\ part = "skills" => Skills!NothingClobbered /\ Skills!PathFits
      => SkillsSafe
  BY Zenon DEF DraftInv, DraftOK, SkillsSafe, Skills!SkillsSafe, Skills!DraftFits
<1> QED
  BY <1>1, <1>2, <1>3, <1>4, SkillInvariant, SkillsKept, DraftKeeps, PTL DEF MCSpec

-----------------------------------------------------------------------------
(* The chat's questions: a marker of letters occurs between other           *)
(* characters than letters and digits if and only if it is one of the       *)
(* question's words.                                                        *)

LEMMA MarkersAreSequences ==
  /\ Questions \subseteq Seq(Chat!Characters)
  /\ \A k \in Coaching \cup Quantity : k \in Seq(Chat!Characters) /\ k # <<>>
BY DeskAssumption DEF Chat!ChatAssumption

InLetters(k) == \A n \in DOMAIN k : k[n] \in Letters
Around(q, i, l) ==
  /\ i = 1 \/ q[i - 1] \notin Chat!Alphanumeric
  /\ i + l > Len(q) \/ q[i + l] \notin Chat!Alphanumeric

LEMMA LetterKeywords ==
  ASSUME NEW q, NEW k
  PROVE  /\ Chat!Range(k) \subseteq Letters <=> InLetters(k)
         /\ Chat!ContainsKeyword(q, k) <=>
              \E i \in DOMAIN q : Chat!OccursAt(k, q, i) /\ (InLetters(k) => Around(q, i, Len(k)))
<1>1. Chat!Range(k) \subseteq Letters <=> InLetters(k)
  BY DEF Chat!Range, InLetters
<1> QED
  BY <1>1, Zenon DEF Chat!ContainsKeyword, Around

LEMMA Span ==
  ASSUME NEW S, NEW q \in Seq(S), NEW i \in Int, NEW j \in Int, 1 <= i, i <= j, j <= Len(q)
  PROVE  /\ Len(SubSeq(q, i, j)) = j - i + 1
         /\ \A n \in i .. j : n - i + 1 \in 1 .. j - i + 1 /\ SubSeq(q, i, j)[n - i + 1] = q[n]
<1>1. Len(SubSeq(q, i, j)) = j - i + 1
  OBVIOUS
<1>2. ASSUME NEW n \in i .. j PROVE n - i + 1 \in 1 .. j - i + 1
  OBVIOUS
<1>3. ASSUME NEW m \in 1 .. j - i + 1 PROVE SubSeq(q, i, j)[m] = q[i + m - 1]
  OBVIOUS
<1>4. ASSUME NEW n \in i .. j PROVE i + (n - i + 1) - 1 = n
  OBVIOUS
<1> QED
  BY <1>1, <1>2, <1>3, <1>4

LEMMA SpanEnds ==
  ASSUME NEW i \in Int, NEW j \in Int, NEW l \in Int
  PROVE  l = j - i + 1 <=> i + l - 1 = j /\ i + l = j + 1
OBVIOUS

\* k is what q has from i to j, all letters and digits, and has none of these around it.
WordAt(q, k, i, j) ==
  /\ 1 <= i /\ i <= j /\ j <= Len(q) /\ k = SubSeq(q, i, j)
  /\ \A n \in i .. j : q[n] \in Chat!Alphanumeric
  /\ i = 1 \/ q[i - 1] \notin Chat!Alphanumeric
  /\ j = Len(q) \/ q[j + 1] \notin Chat!Alphanumeric

LEMMA WordsAt ==
  ASSUME NEW S, NEW q \in Seq(S), NEW k
  PROVE  k \in Chat!WordsOf(q) <=> \E i, j \in DOMAIN q : WordAt(q, k, i, j)
<1> DEFINE Word(i, j) == /\ i <= j /\ \A n \in i .. j : q[n] \in Chat!Alphanumeric
                         /\ i = 1 \/ q[i - 1] \notin Chat!Alphanumeric
                         /\ j = Len(q) \/ q[j + 1] \notin Chat!Alphanumeric
<1>1. Chat!WordsOf(q) = {SubSeq(q, w[1], w[2]) : w \in {v \in (DOMAIN q) \X (DOMAIN q) : Word(v[1], v[2])}}
  BY DEF Chat!WordsOf
<1>2. \A i, j \in DOMAIN q : WordAt(q, k, i, j) <=> Word(i, j) /\ k = SubSeq(q, i, j)
  BY DEF WordAt
<1> HIDE DEF Word
<1>3. ASSUME k \in Chat!WordsOf(q) PROVE \E i, j \in DOMAIN q : Word(i, j) /\ k = SubSeq(q, i, j)
  <2>1. PICK w \in {v \in (DOMAIN q) \X (DOMAIN q) : Word(v[1], v[2])} : k = SubSeq(q, w[1], w[2])
    BY <1>1, <1>3
  <2> QED
    BY <2>1
<1>4. ASSUME NEW i \in DOMAIN q, NEW j \in DOMAIN q, Word(i, j), k = SubSeq(q, i, j)
      PROVE  k \in Chat!WordsOf(q)
  <2>1. <<i, j>> \in {v \in (DOMAIN q) \X (DOMAIN q) : Word(v[1], v[2])}
    BY <1>4
  <2>2. k = SubSeq(q, <<i, j>>[1], <<i, j>>[2])
    BY <1>4
  <2> QED
    BY <1>1, <2>1, <2>2
<1> QED
  BY <1>2, <1>3, <1>4

LEMMA KeywordIsWord ==
  ASSUME NEW S, NEW q \in Seq(S), NEW k \in Seq(S), k # <<>>, InLetters(k)
  PROVE  Chat!ContainsKeyword(q, k) <=> k \in Chat!WordsOf(q)
<1>1. Len(k) \in Nat /\ Len(k) > 0 /\ DOMAIN k = 1 .. Len(k)
  OBVIOUS
<1>2. Len(q) \in Nat /\ DOMAIN q = 1 .. Len(q)
  OBVIOUS
<1>3. ASSUME NEW i \in DOMAIN q, Chat!OccursAt(k, q, i), Around(q, i, Len(k))
      PROVE  \E j \in DOMAIN q : WordAt(q, k, i, j)
  <2>1. i \in Int /\ 1 <= i /\ i <= Len(q)
    BY <1>2
  <2>2. PICK j \in Int : j = i + Len(k) - 1
    BY <1>1, <2>1
  <2>3. Len(k) = j - i + 1 /\ i + Len(k) = j + 1
    BY <1>1, <2>1, <2>2, SpanEnds
  <2>4. i <= j /\ j <= Len(q) /\ j \in DOMAIN q /\ k = SubSeq(q, i, j)
    BY <1>1, <1>2, <1>3, <2>1, <2>2 DEF Chat!OccursAt
  <2>5. \A n \in i .. j : n - i + 1 \in DOMAIN k /\ k[n - i + 1] = q[n]
    BY <1>1, <2>1, <2>3, <2>4, Span
  <2>6. \A n \in i .. j : q[n] \in Chat!Alphanumeric
    BY <2>5 DEF InLetters, Chat!Alphanumeric
  <2>7. j = Len(q) \/ q[j + 1] \notin Chat!Alphanumeric
    <3>1. i + Len(k) > Len(q) \/ q[i + Len(k)] \notin Chat!Alphanumeric
      BY <1>3, Zenon DEF Around
    <3>2. j + 1 > Len(q) \/ q[j + 1] \notin Chat!Alphanumeric
      BY <2>3, <3>1, Zenon
    <3>3. j <= Len(q) /\ Len(q) \in Int
      BY <1>2, <2>4
    <3>4. j + 1 > Len(q) => j = Len(q)
      BY <3>3
    <3> QED
      BY <3>2, <3>4, Zenon
  <2>8. i = 1 \/ q[i - 1] \notin Chat!Alphanumeric
    BY <1>3, Zenon DEF Around
  <2> QED
    BY <2>1, <2>4, <2>6, <2>7, <2>8 DEF WordAt
<1>4. ASSUME NEW i \in DOMAIN q, NEW j \in DOMAIN q, WordAt(q, k, i, j)
      PROVE  Chat!OccursAt(k, q, i) /\ Around(q, i, Len(k))
  <2>1. i \in Int /\ j \in Int /\ 1 <= i /\ i <= j /\ j <= Len(q) /\ k = SubSeq(q, i, j)
    BY <1>2, <1>4 DEF WordAt
  <2>2. Len(k) = j - i + 1
    BY <2>1, Span
  <2>3. i + Len(k) - 1 = j /\ i + Len(k) = j + 1
    BY <1>1, <2>1, <2>2, SpanEnds
  <2>4. Chat!OccursAt(k, q, i)
    BY <2>1, <2>3 DEF Chat!OccursAt
  <2>5. Around(q, i, Len(k))
    <3>1. j = Len(q) \/ q[j + 1] \notin Chat!Alphanumeric
      BY <1>4, Zenon DEF WordAt
    <3>2. j = Len(q) => j + 1 > Len(q)
      BY <1>2
    <3>3. i + Len(k) > Len(q) \/ q[i + Len(k)] \notin Chat!Alphanumeric
      BY <2>3, <3>1, <3>2, Zenon
    <3> QED
      BY <1>4, <3>3, Zenon DEF WordAt, Around
  <2> QED
    BY <2>4, <2>5
<1> QED
  BY <1>3, <1>4, WordsAt, LetterKeywords

\* What RoutedByWords says of the markers ks.
SaidBy(q, ks) ==
  \/ \E k \in ks : Chat!Range(k) \subseteq Letters /\ k \in Chat!WordsOf(q)
  \/ \E k \in ks : ~(Chat!Range(k) \subseteq Letters) /\ \E i \in DOMAIN q : Chat!OccursAt(k, q, i)

LEMMA MarkersSaid ==
  ASSUME NEW q \in Questions, NEW ks \in SUBSET (Coaching \cup Quantity)
  PROVE  (\E k \in ks : Chat!ContainsKeyword(q, k)) <=> SaidBy(q, ks)
<1>1. q \in Seq(Chat!Characters) /\ \A k \in ks : k \in Seq(Chat!Characters) /\ k # <<>>
  BY MarkersAreSequences
<1>2. ASSUME NEW k \in ks, Chat!Range(k) \subseteq Letters
      PROVE  Chat!ContainsKeyword(q, k) <=> k \in Chat!WordsOf(q)
  <2>1. InLetters(k)
    BY <1>2, LetterKeywords, Zenon
  <2> QED
    BY <1>1, <2>1, KeywordIsWord, Zenon
<1>3. ASSUME NEW k \in ks, ~(Chat!Range(k) \subseteq Letters)
      PROVE  Chat!ContainsKeyword(q, k) <=> \E i \in DOMAIN q : Chat!OccursAt(k, q, i)
  BY <1>3, LetterKeywords, Zenon
<1> QED
  BY <1>2, <1>3, Zenon DEF SaidBy

LEMMA IntentSaid ==
  ASSUME NEW q \in Questions
  PROVE  Chat!Intent(q) = IF SaidBy(q, Coaching) THEN "coaching"
                          ELSE IF SaidBy(q, Quantity) THEN "quant" ELSE "narrative"
<1>1. /\ (\E k \in Coaching : Chat!ContainsKeyword(q, k)) <=> SaidBy(q, Coaching)
      /\ (\E k \in Quantity : Chat!ContainsKeyword(q, k)) <=> SaidBy(q, Quantity)
  BY MarkersSaid
<1> DEFINE C == \E k \in Coaching : Chat!ContainsKeyword(q, k)
           Q == \E k \in Quantity : Chat!ContainsKeyword(q, k)
<1>2. Chat!Intent(q) = CASE C -> "coaching" [] ~C /\ Q -> "quant" [] OTHER -> "narrative"
  BY DEF Chat!Intent
<1> HIDE DEF C, Q
<1>3. Chat!Intent(q) = IF C THEN "coaching" ELSE IF Q THEN "quant" ELSE "narrative"
  BY <1>2
<1> QED
  BY <1>1, <1>3, Zenon DEF C, Q

ToolFields == {"pc", "of", "mount", "question", "intent", "system", "convo", "round", "todo"}

RouteOK(c) ==
  /\ c.pc = "read" => c.question \in Questions
  /\ c.pc \in {"tools", "calls"} => ToolFields \subseteq DOMAIN c /\ c.round \in Nat
  /\ c.pc = "tools" /\ c.round = 0 =>
       /\ c.question \in Questions /\ c.intent = Chat!Intent(c.question)
       /\ c.system.about = IF c.intent = "coaching" THEN "week" ELSE "today"

RouteInv == \A s \in Chat!Slots : RouteOK(command[s])

\* One command makes a step, or is free again, or starts.
Becomes(s, c) == command' = [command EXCEPT ![s] = c]

LEMMA OneBecomes ==
  ASSUME ChatTypeOK, NEW s \in Chat!Slots, NEW c, Becomes(s, c)
  PROVE  command'[s] = c /\ \A t \in Chat!Slots : t # s => command'[t] = command[t]
BY DEF ChatTypeOK, Becomes

LEMMA NewPc ==
  ASSUME ChatTypeOK, NEW s \in Chat!Slots, command[s].pc # "free", NEW p
  PROVE  [command[s] EXCEPT !.pc = p].pc = p
BY DEF ChatTypeOK, CommandOK

LEMMA PlainEnds ==
  ASSUME ChatTypeOK, NEW s \in Chat!Slots, Chat!PlainTurn(s)
  PROVE  \E c : Becomes(s, c) /\ c.pc \in {"done", "failed"}
<1> DEFINE stripped == [command[s] EXCEPT !.convo = Chat!Plain(@)]
           Ended(p) == [stripped EXCEPT !.pc = p]
<1>1. "pc" \in DOMAIN stripped
  BY DEF Chat!PlainTurn, Chat!Step, ChatTypeOK, CommandOK
<1>2. \E p \in {"done", "failed"} : Becomes(s, Ended(p))
  BY DEF Chat!PlainTurn, Chat!Step, Becomes
<1> HIDE DEF stripped
<1>3. \A p : Ended(p).pc = p
  BY <1>1
<1> QED
  BY <1>2, <1>3, Zenon

LEMMA RouteSteps ==
  ASSUME ChatTypeOK, RouteInv, NEW s \in Chat!Slots, Chat!CommandSteps(s)
  PROVE  \E c : Becomes(s, c) /\ RouteOK(c)
<1> USE DEF Chat!Step, Becomes
<1>1. RouteOK(command[s])
  BY DEF RouteInv
<1>2. ASSUME NEW p, p \in {"failed", "done", "plain"}, command[s].pc # "free",
             Becomes(s, [command[s] EXCEPT !.pc = p])
      PROVE  \E c : Becomes(s, c) /\ RouteOK(c)
  <2> DEFINE c == [command[s] EXCEPT !.pc = p]
  <2>1. c.pc = p
    BY <1>2, NewPc, Zenon
  <2>2. Becomes(s, c)
    BY <1>2, Zenon
  <2> HIDE DEF c
  <2>3. RouteOK(c)
    BY <1>2, <2>1 DEF RouteOK
  <2> QED
    BY <2>2, <2>3, Zenon
<1>3. CASE Chat!ReadContext(s)
  <2> DEFINE q == command[s].question
             prompt == IF Chat!Intent(q) = "coaching" THEN Chat!CoachingPrompt ELSE Chat!ChatPrompt
             c == [pc |-> "tools", of |-> command[s].of, mount |-> command[s].mount,
                   question |-> q, intent |-> Chat!Intent(q), system |-> prompt,
                   convo |-> Chat!Newest(command[s].messages, MaxHistory),
                   round |-> 0, todo |-> <<>>]
  <2>1. CASE command[s].pc = "read" /\ Becomes(s, c)
    <3>1. prompt.about = IF Chat!Intent(q) = "coaching" THEN "week" ELSE "today"
      BY DEF Chat!CoachingPrompt, Chat!ChatPrompt
    <3>2. q \in Questions
      BY <1>1, <2>1 DEF RouteOK
    <3>3. /\ c.pc = "tools" /\ c.question = q /\ c.intent = Chat!Intent(q) /\ c.system = prompt
          /\ c.round = 0 /\ ToolFields \subseteq DOMAIN c
      BY DEF ToolFields
    <3> HIDE DEF prompt, c
    <3>4. RouteOK(c)
      BY <3>1, <3>2, <3>3 DEF RouteOK
    <3> QED
      BY <2>1, <3>4, Zenon
  <2>2. CASE command[s].pc = "read" /\ Becomes(s, [command[s] EXCEPT !.pc = "failed"])
    BY <1>2, <2>2
  <2> QED
    BY <1>3, <2>1, <2>2, Zenon DEF Chat!ReadContext
<1>4. CASE Chat!ToolsTurn(s)
  <2>1. command[s].pc = "tools"
    BY <1>4, Zenon DEF Chat!ToolsTurn
  <2>2. CASE \E p \in {"done", "plain"} : Becomes(s, [command[s] EXCEPT !.pc = p])
    BY <1>2, <2>1, <2>2
  <2>3. ASSUME NEW todo,
               Becomes(s, [command[s] EXCEPT !.pc = "calls", !.todo = todo,
                                     !.convo = Append(@, Chat!CallsTurn(command[s].round, todo))])
        PROVE  \E c : Becomes(s, c) /\ RouteOK(c)
    <3> DEFINE c == [command[s] EXCEPT !.pc = "calls", !.todo = todo,
                                       !.convo = Append(@, Chat!CallsTurn(command[s].round, todo))]
    <3>1. c.pc = "calls" /\ c.round = command[s].round /\ DOMAIN c = DOMAIN command[s]
      BY <1>1, <2>1 DEF RouteOK, ToolFields
    <3>2. Becomes(s, c)
      BY <2>3, Zenon
    <3> HIDE DEF c
    <3>3. RouteOK(c)
      BY <1>1, <2>1, <3>1 DEF RouteOK
    <3> QED
      BY <3>2, <3>3, Zenon
  <2> QED
    BY <1>4, <2>2, <2>3, Zenon DEF Chat!ToolsTurn
<1>5. CASE Chat!HandleCall(s)
  <2> DEFINE round == command[s].round
             rest == Tail(command[s].todo)
             answer == [role |-> "tool", round |-> round]
             c == [command[s] EXCEPT
                     !.todo = rest, !.convo = Append(@, answer),
                     !.round = IF rest = <<>> THEN round + 1 ELSE round,
                     !.pc = IF rest # <<>> THEN "calls"
                            ELSE IF round + 1 = MaxRounds THEN "plain" ELSE "tools"]
  <2>1. command[s].pc = "calls" /\ Becomes(s, c)
    BY <1>5, Zenon DEF Chat!HandleCall
  <2>2. round \in Nat /\ ToolFields \subseteq DOMAIN command[s]
    BY <1>1, <2>1 DEF RouteOK
  <2>3. /\ c.pc = IF rest # <<>> THEN "calls"
                  ELSE IF round + 1 = MaxRounds THEN "plain" ELSE "tools"
        /\ c.round = IF rest = <<>> THEN round + 1 ELSE round
        /\ DOMAIN c = DOMAIN command[s]
    BY <2>2 DEF ToolFields
  <2> HIDE DEF c, rest
  <2>4. c.pc = "tools" => c.round # 0
    BY <2>2, <2>3
  <2>5. c.pc # "read" /\ c.round \in Nat
    BY <2>2, <2>3
  <2>6. RouteOK(c)
    BY <2>2, <2>3, <2>4, <2>5 DEF RouteOK
  <2> QED
    BY <2>1, <2>6, Zenon
<1>6. CASE Chat!PlainTurn(s)
  <2>1. PICK c : Becomes(s, c) /\ c.pc \in {"done", "failed"}
    BY <1>6, PlainEnds, Zenon
  <2>2. RouteOK(c)
    BY <2>1 DEF RouteOK
  <2> QED
    BY <2>1, <2>2, Zenon
<1>7. CASE Chat!Replied(s) \/ Chat!GaveUp(s)
  <2>1. Becomes(s, Chat!Free)
    BY <1>7 DEF Chat!Replied, Chat!GaveUp
  <2>2. RouteOK(Chat!Free)
    BY DEF Chat!Free, RouteOK
  <2> QED
    BY <2>1, <2>2, Zenon
<1> QED
  BY <1>3, <1>4, <1>5, <1>6, <1>7 DEF Chat!CommandSteps

LEMMA RouteBegins == Chat!ChatInit => RouteInv
BY DEF Chat!ChatInit, RouteInv, RouteOK, Chat!Free

LEMMA RouteKeeps == ChatTypeOK /\ RouteInv /\ [Chat!ChatNext]_chatVars => RouteInv'
<1> SUFFICES ASSUME ChatTypeOK, RouteInv, [Chat!ChatNext]_chatVars PROVE RouteInv'
  OBVIOUS
<1>1. ASSUME NEW s \in Chat!Slots, NEW c, Becomes(s, c), RouteOK(c) PROVE RouteInv'
  <2>1. command'[s] = c /\ \A t \in Chat!Slots : t # s => command'[t] = command[t]
    BY <1>1, OneBecomes, Zenon
  <2>2. ASSUME NEW t \in Chat!Slots PROVE RouteOK(command'[t])
    <3>1. CASE t = s
      BY <1>1, <2>1, <3>1, Zenon
    <3>2. CASE t # s
      BY <2>1, <3>2, Zenon DEF RouteInv
    <3> QED
      BY <3>1, <3>2
  <2> QED
    BY <2>2, Zenon DEF RouteInv, RouteOK, Chat!Slots
<1>2. ASSUME NEW s \in Chat!Slots, Chat!CommandSteps(s) PROVE RouteInv'
  BY <1>1, <1>2, RouteSteps, Zenon
<1>3. ASSUME NEW s \in Chat!Slots, NEW q \in Questions, Chat!Send(s, q) PROVE RouteInv'
  <2> DEFINE c == [pc |-> "read", of |-> sends + 1, mount |-> tab.mount, question |-> q,
                   messages |-> messages']
  <2>1. Becomes(s, c)
    BY <1>3 DEF Chat!Send, Becomes
  <2>2. RouteOK(c)
    BY DEF RouteOK
  <2> HIDE DEF c
  <2> QED
    BY <1>1, <2>1, <2>2, Zenon
<1>4. CASE UNCHANGED command
  BY <1>4 DEF RouteInv, RouteOK
<1>5. CASE Chat!Reopen \/ Chat!EditMemories \/ UNCHANGED chatVars
  BY <1>4, <1>5 DEF Chat!Reopen, Chat!EditMemories, chatVars
<1> QED
  BY <1>2, <1>3, <1>5, Zenon DEF Chat!ChatNext

LEMMA RoutedThen == ChatTypeOK /\ RouteInv => Chat!RoutedByWords
<1> SUFFICES ASSUME RouteInv, NEW s \in Chat!Prepared
             PROVE  /\ command[s].system.about = (IF command[s].intent = "coaching" THEN "week" ELSE "today")
                    /\ command[s].intent = (IF SaidBy(command[s].question, Coaching) THEN "coaching"
                                            ELSE IF SaidBy(command[s].question, Quantity) THEN "quant"
                                            ELSE "narrative")
  BY Zenon DEF Chat!RoutedByWords, SaidBy
<1>1. s \in Chat!Slots /\ command[s].pc = "tools" /\ command[s].round = 0
  BY DEF Chat!Prepared
<1>2. /\ command[s].question \in Questions /\ command[s].intent = Chat!Intent(command[s].question)
      /\ command[s].system.about = IF command[s].intent = "coaching" THEN "week" ELSE "today"
  BY <1>1 DEF RouteInv, RouteOK
<1> QED
  BY <1>2, IntentSaid, Zenon

\* The prompt a question gets is the one its words call for: a marker of letters counts
\* when it is a word of the question and not a part of one, any other wherever it occurs,
\* and coaching comes before quantity (contains_keyword, classify_intent and
\* run_memory_chat of chat.rs).
THEOREM QuestionsAreRouted == MCSpec => [](part = "chat" => Chat!RoutedByWords)
<1>1. MCInit => RouteInv
  BY RouteBegins DEF MCInit
<1>2. [MCNext]_deskVars => [Chat!ChatNext]_chatVars
  BY DEF MCNext, deskVars, chatVars
<1>3. ChatInv => ChatTypeOK
  BY DEF ChatInv
<1> QED
  BY <1>1, <1>2, <1>3, ChatInvariant, RouteKeeps, RoutedThen, PTL DEF MCSpec

-----------------------------------------------------------------------------
(* Conversations: every call of the engine gets its answer. *)

Parsing == INSTANCE FoldLemmas WITH Op <- Chat!Parsed, Base <- <<>>

Arguments == Chat!Texts \cup {Blank, Broken, Nameless}
Turn == Message \cup [role : {"calls"}, round : Nat, calls : Nat] \cup [role : {"tool"}, round : Nat]
ToolAnswer(round) == [role |-> "tool", round |-> round]

\* A conversation whose last turn of calls, that of the round, still waits for as many
\* answers as are left; all others have theirs.
Open(convo, round, left) ==
  /\ convo \in Seq(Turn)
  /\ \A i \in DOMAIN convo : convo[i].role = "calls" =>
       /\ \A n \in 1 .. convo[i].calls : i + n <= Len(convo) => convo[i + n] = ToolAnswer(convo[i].round)
       /\ \/ i + convo[i].calls <= Len(convo)
          \/ convo[i].round = round /\ i + convo[i].calls = Len(convo) + left
  /\ \A i \in DOMAIN convo : convo[i].role = "tool" =>
       \E t \in DOMAIN convo :
         /\ convo[t].role = "calls" /\ convo[t].round = convo[i].round
         /\ t < i /\ i <= t + convo[t].calls
  /\ left # 0 => \E t \in DOMAIN convo :
       convo[t].role = "calls" /\ convo[t].round = round /\ t + convo[t].calls = Len(convo) + left

LEMMA TurnTypes ==
  ASSUME NEW convo \in Seq(Turn)
  PROVE  /\ Len(convo) \in Nat /\ DOMAIN convo = 1 .. Len(convo)
         /\ \A i \in DOMAIN convo : convo[i] \in Turn
         /\ \A i \in DOMAIN convo : convo[i].role = "calls" => convo[i].calls \in Nat /\ convo[i].round \in Nat
<1>1. Len(convo) \in Nat /\ DOMAIN convo = 1 .. Len(convo) /\ \A i \in DOMAIN convo : convo[i] \in Turn
  OBVIOUS
<1>2. \A t \in Turn : t.role = "calls" => t.calls \in Nat /\ t.round \in Nat
  BY DEF Turn, Message
<1> QED
  BY <1>1, <1>2

LEMMA CallsOpen ==
  ASSUME NEW convo, NEW round \in Nat, NEW k \in Nat \ {0}, Open(convo, round, 0)
  PROVE  Open(Append(convo, [role |-> "calls", round |-> round, calls |-> k]), round, k)
<1> DEFINE turn == [role |-> "calls", round |-> round, calls |-> k]
           longer == Append(convo, turn)
           n == Len(convo)
<1>1. /\ convo \in Seq(Turn) /\ n \in Nat /\ DOMAIN convo = 1 .. n
      /\ \A i \in 1 .. n : convo[i].role = "calls" => convo[i].calls \in Nat /\ convo[i].round \in Nat
  BY TurnTypes DEF Open
<1>2. turn \in Turn /\ turn.role = "calls" /\ turn.round = round /\ turn.calls = k
  BY DEF Turn
<1> HIDE DEF turn
<1>3. /\ longer \in Seq(Turn) /\ Len(longer) = n + 1 /\ DOMAIN longer = 1 .. n + 1
      /\ \A i \in 1 .. n : longer[i] = convo[i]
      /\ longer[n + 1] = turn
  BY <1>1, <1>2, AppendProperties
<1> HIDE DEF longer, n
<1>4. ASSUME NEW i \in 1 .. n + 1, longer[i].role = "calls"
      PROVE  /\ \A m \in 1 .. longer[i].calls : i + m <= n + 1 => longer[i + m] = ToolAnswer(longer[i].round)
             /\ \/ i + longer[i].calls <= n + 1
                \/ longer[i].round = round /\ i + longer[i].calls = n + 1 + k
  <2>1. CASE i = n + 1
    BY <1>1, <1>2, <1>3, <2>1
  <2>2. CASE i \in 1 .. n
    <3>1. /\ \A m \in 1 .. convo[i].calls : i + m <= n => convo[i + m] = ToolAnswer(convo[i].round)
          /\ i + convo[i].calls <= n /\ convo[i].calls \in Nat
      <4>1. i \in DOMAIN convo /\ convo[i].role = "calls"
        BY <1>1, <1>3, <1>4, <2>2
      <4>2. n + 0 = n
        BY <1>1
      <4> QED
        BY <1>1, <2>2, <4>1, <4>2 DEF Open, n
    <3>2. ASSUME NEW m \in 1 .. convo[i].calls PROVE longer[i + m] = ToolAnswer(convo[i].round)
      <4>1. i + m \in 1 .. n /\ i + m <= n
        BY <1>1, <2>2, <3>1
      <4> QED
        BY <1>3, <3>1, <4>1
    <3>3. longer[i] = convo[i]
      BY <1>3, <2>2
    <3>4. i + convo[i].calls <= n + 1
      BY <1>1, <2>2, <3>1
    <3> QED
      BY <3>2, <3>3, <3>4
  <2> QED
    BY <1>1, <2>1, <2>2
<1>5. ASSUME NEW i \in 1 .. n + 1, longer[i].role = "tool"
      PROVE  \E t \in 1 .. n + 1 :
               /\ longer[t].role = "calls" /\ longer[t].round = longer[i].round
               /\ t < i /\ i <= t + longer[t].calls
  <2>1. i \in 1 .. n /\ longer[i] = convo[i]
    BY <1>1, <1>2, <1>3, <1>5
  <2>2. PICK t \in 1 .. n : /\ convo[t].role = "calls" /\ convo[t].round = convo[i].round
                            /\ t < i /\ i <= t + convo[t].calls
    BY <1>1, <1>5, <2>1 DEF Open
  <2>3. longer[t] = convo[t] /\ t \in 1 .. n + 1
    BY <1>1, <1>3
  <2> QED
    BY <2>1, <2>2, <2>3
<1>6. n + 1 \in 1 .. n + 1 /\ longer[n + 1].role = "calls" /\ longer[n + 1].round = round
      /\ n + 1 + longer[n + 1].calls = n + 1 + k
  BY <1>1, <1>2, <1>3
<1>7. Open(longer, round, k)
  BY <1>3, <1>4, <1>5, <1>6 DEF Open
<1> QED
  BY <1>7 DEF longer, turn

\* An answer more; when it was the last, another round may begin.
LEMMA AnswerGiven ==
  ASSUME NEW convo, NEW round \in Nat, NEW k \in Nat \ {0}, Open(convo, round, k),
         NEW next \in Nat, k = 1 \/ next = round
  PROVE  Open(Append(convo, ToolAnswer(round)), next, k - 1)
<1> DEFINE turn == ToolAnswer(round)
           longer == Append(convo, turn)
           n == Len(convo)
<1>1. /\ convo \in Seq(Turn) /\ n \in Nat /\ DOMAIN convo = 1 .. n
      /\ \A i \in 1 .. n : convo[i].role = "calls" => convo[i].calls \in Nat /\ convo[i].round \in Nat
  BY TurnTypes DEF Open
<1>2. turn \in Turn /\ turn.role = "tool" /\ turn.round = round
  <2>1. turn = [role |-> "tool", round |-> round]
    BY DEF ToolAnswer
  <2>2. turn \in [role : {"tool"}, round : Nat]
    BY <2>1
  <2>3. turn \in Turn
    BY <2>2, Zenon DEF Turn
  <2> QED
    BY <2>1, <2>3
<1> HIDE DEF turn
<1>3. /\ longer \in Seq(Turn) /\ Len(longer) = n + 1 /\ DOMAIN longer = 1 .. n + 1
      /\ \A i \in 1 .. n : longer[i] = convo[i]
      /\ longer[n + 1] = turn
  BY <1>1, <1>2, AppendProperties
<1> HIDE DEF longer, n
<1>4. ASSUME NEW i \in 1 .. n + 1, longer[i].role = "calls"
      PROVE  /\ \A m \in 1 .. longer[i].calls : i + m <= n + 1 => longer[i + m] = ToolAnswer(longer[i].round)
             /\ \/ i + longer[i].calls <= n + 1
                \/ longer[i].round = next /\ i + longer[i].calls = n + 1 + (k - 1)
  <2>1. i \in 1 .. n /\ longer[i] = convo[i]
    BY <1>1, <1>2, <1>3, <1>4
  <2>2. /\ \A m \in 1 .. convo[i].calls : i + m <= n => convo[i + m] = ToolAnswer(convo[i].round)
        /\ \/ i + convo[i].calls <= n
           \/ convo[i].round = round /\ i + convo[i].calls = n + k
        /\ convo[i].calls \in Nat
    <3>1. i \in DOMAIN convo /\ convo[i].role = "calls"
      BY <1>1, <1>4, <2>1
    <3> QED
      BY <1>1, <3>1 DEF Open, n
  <2>3. ASSUME NEW m \in 1 .. convo[i].calls, i + m <= n + 1 PROVE longer[i + m] = ToolAnswer(convo[i].round)
    <3>1. CASE i + m <= n
      <4>1. i + m \in 1 .. n
        BY <1>1, <2>1, <2>2, <3>1
      <4> QED
        BY <1>3, <2>2, <3>1, <4>1
    <3>2. CASE i + m = n + 1
      <4>1. ~(i + convo[i].calls <= n)
        <5>1. i \in Nat /\ m \in Nat /\ convo[i].calls \in Nat /\ m <= convo[i].calls
          BY <2>1, <2>2
        <5> QED
          BY <1>1, <3>2, <5>1
      <4> QED
        BY <1>3, <2>2, <3>2, <4>1 DEF turn
    <3>3. i \in Nat /\ m \in Nat /\ n \in Nat
      BY <1>1, <2>1, <2>2
    <3> QED
      BY <2>3, <3>1, <3>2, <3>3
  <2>4. \/ i + convo[i].calls <= n + 1
        \/ convo[i].round = next /\ i + convo[i].calls = n + 1 + (k - 1)
    BY <1>1, <2>1, <2>2
  <2> QED
    BY <2>1, <2>3, <2>4
<1>5. ASSUME NEW i \in 1 .. n + 1, longer[i].role = "tool"
      PROVE  \E t \in 1 .. n + 1 :
               /\ longer[t].role = "calls" /\ longer[t].round = longer[i].round
               /\ t < i /\ i <= t + longer[t].calls
  <2>1. CASE i \in 1 .. n
    <3>1. longer[i] = convo[i]
      BY <1>3, <2>1
    <3>2. PICK t \in 1 .. n : /\ convo[t].role = "calls" /\ convo[t].round = convo[i].round
                              /\ t < i /\ i <= t + convo[t].calls
      BY <1>1, <1>5, <2>1, <3>1 DEF Open
    <3>3. longer[t] = convo[t] /\ t \in 1 .. n + 1
      BY <1>1, <1>3
    <3> QED
      BY <3>1, <3>2, <3>3
  <2>2. CASE i = n + 1
    <3>1. PICK t \in 1 .. n : /\ convo[t].role = "calls" /\ convo[t].round = round
                              /\ t + convo[t].calls = n + k
      BY <1>1 DEF Open, n
    <3>2. longer[t] = convo[t] /\ t \in 1 .. n + 1 /\ t < n + 1 /\ n + 1 <= t + convo[t].calls
      BY <1>1, <1>3, <3>1
    <3> QED
      BY <1>2, <1>3, <2>2, <3>1, <3>2
  <2> QED
    BY <1>1, <2>1, <2>2
<1>6. ASSUME k - 1 # 0
      PROVE  \E t \in 1 .. n + 1 : /\ longer[t].role = "calls" /\ longer[t].round = next
                                   /\ t + longer[t].calls = n + 1 + (k - 1)
  <2>1. PICK t \in 1 .. n : /\ convo[t].role = "calls" /\ convo[t].round = round
                            /\ t + convo[t].calls = n + k
    BY <1>1 DEF Open, n
  <2>2. longer[t] = convo[t] /\ t \in 1 .. n + 1 /\ n + 1 + (k - 1) = n + k /\ next = round
    BY <1>1, <1>3, <1>6, <2>1
  <2> QED
    BY <2>1, <2>2
<1>7. Open(longer, next, k - 1)
  BY <1>3, <1>4, <1>5, <1>6 DEF Open
<1> QED
  BY <1>7 DEF longer, turn

LEMMA OpenThen ==
  ASSUME NEW convo, NEW round \in Nat, Open(convo, round, 0)
  PROVE  /\ \A i \in DOMAIN convo : convo[i].role = "calls" =>
              /\ i + convo[i].calls <= Len(convo)
              /\ \A n \in 1 .. convo[i].calls : convo[i + n] = ToolAnswer(convo[i].round)
         /\ \A i \in DOMAIN convo : convo[i].role = "tool" =>
              \E t \in {u \in DOMAIN convo : convo[u].role = "calls" /\ convo[u].round = convo[i].round} :
                t < i /\ i <= t + convo[t].calls
<1>1. /\ Len(convo) \in Nat /\ DOMAIN convo = 1 .. Len(convo)
      /\ \A i \in DOMAIN convo : convo[i].role = "calls" => convo[i].calls \in Nat /\ convo[i].round \in Nat
  BY TurnTypes DEF Open
<1>2. ASSUME NEW i \in DOMAIN convo, convo[i].role = "calls"
      PROVE  /\ i + convo[i].calls <= Len(convo)
             /\ \A n \in 1 .. convo[i].calls : convo[i + n] = ToolAnswer(convo[i].round)
  <2>1. i + convo[i].calls <= Len(convo) /\ convo[i].calls \in Nat
    BY <1>1, <1>2 DEF Open
  <2>2. \A n \in 1 .. convo[i].calls : i + n <= Len(convo)
    BY <1>1, <2>1
  <2> QED
    BY <1>2, <2>1, <2>2 DEF Open
<1> QED
  BY <1>2 DEF Open

LEMMA ParsedArguments ==
  ASSUME NEW list \in CallLists PROVE Chat!ParsedCalls(list) \in Seq(Arguments)
<1> DEFINE I == [k \in 0 .. Len(list) |-> Seq(Arguments)]
<1>1. list \in Seq(Arguments) /\ Len(list) \in Nat
  BY DeskAssumption DEF Chat!ChatAssumption, Arguments
<1>2. <<>> \in I[0]
  BY <1>1
<1>3. ASSUME NEW k \in 1 .. Len(list), NEW a \in I[k - 1] PROVE Chat!Parsed(a, list[k]) \in I[k]
  <2>1. a \in Seq(Arguments) /\ k \in 0 .. Len(list) /\ list[k] \in Arguments
    BY <1>1
  <2>2. Chat!Parsed(a, list[k]) \in Seq(Arguments)
    BY <2>1 DEF Chat!Parsed
  <2> QED
    BY <2>1, <2>2
<1>4. Parsing!FromLeft(list) \in I[Len(list)]
  <2> HIDE DEF I
  <2> QED
    BY <1>1, <1>2, <1>3, Parsing!FoldLeftHolds
<1>5. Chat!ParsedCalls(list) = Parsing!FromLeft(list)
  BY Zenon DEF Chat!ParsedCalls, Parsing!FromLeft, Chat!FoldLeft, Parsing!FoldLeft,
     Chat!MapThenFoldSet, Parsing!MapThenFoldSet, Chat!Max, Parsing!Max
<1> QED
  BY <1>1, <1>4, <1>5

\* The conversation of a command fits what it still has to answer.
ConvoOK(c) ==
  /\ c.pc = "read" => c.messages \in Seq(Message)
  /\ c.pc \in {"tools", "calls", "plain"} =>
       /\ {"pc", "convo", "round", "todo"} \subseteq DOMAIN c
       /\ c.round \in Nat /\ c.todo \in Seq(Arguments)
       /\ c.pc = "calls" <=> c.todo # <<>>
       /\ Open(c.convo, c.round, Len(c.todo))

ConvoInv == \A s \in Chat!Slots : ConvoOK(command[s])

LEMMA NewestOpen ==
  ASSUME NEW s \in Seq(Message) PROVE Open(Chat!Newest(s, MaxHistory), 0, 0)
<1> DEFINE m == IF Len(s) > MaxHistory THEN Len(s) - MaxHistory + 1 ELSE 1
           t == SubSeq(s, m, Len(s))
<1>1. Len(s) \in Nat /\ MaxHistory \in Nat \ {0}
  BY DeskAssumption DEF Chat!ChatAssumption
<1>2. m \in 1 .. Len(s) + 1
  BY <1>1
<1>3. t = Chat!Newest(s, MaxHistory)
  BY DEF Chat!Newest
<1> HIDE DEF m
<1>4. t \in Seq(Message)
  <2>1. \A i \in m .. Len(s) : s[i] \in Message
    BY <1>1, <1>2
  <2> QED
    BY <1>1, <1>2, <2>1, SubSeqProperties
<1> HIDE DEF t
<1>5. t \in Seq(Turn) /\ \A i \in DOMAIN t : t[i] \in Message
  BY <1>4, SeqMonotonic DEF Turn
<1>6. \A i \in DOMAIN t : t[i].role \notin {"calls", "tool"}
  BY <1>5 DEF Message
<1> QED
  BY <1>3, <1>5, <1>6 DEF Open

LEMMA ConvoSteps ==
  ASSUME ChatTypeOK, ConvoInv, NEW s \in Chat!Slots, Chat!CommandSteps(s)
  PROVE  \E c : Becomes(s, c) /\ ConvoOK(c)
<1> USE DEF Chat!Step, Becomes
<1>1. ConvoOK(command[s])
  BY DEF ConvoInv
<1>2. ASSUME NEW p, p \in {"failed", "done"}, command[s].pc # "free",
             Becomes(s, [command[s] EXCEPT !.pc = p])
      PROVE  \E c : Becomes(s, c) /\ ConvoOK(c)
  <2> DEFINE c == [command[s] EXCEPT !.pc = p]
  <2>1. c.pc = p
    BY <1>2, NewPc, Zenon
  <2>2. Becomes(s, c)
    BY <1>2, Zenon
  <2> HIDE DEF c
  <2>3. ConvoOK(c)
    BY <1>2, <2>1 DEF ConvoOK
  <2> QED
    BY <2>2, <2>3, Zenon
<1>3. CASE Chat!ReadContext(s)
  <2> DEFINE q == command[s].question
             prompt == IF Chat!Intent(q) = "coaching" THEN Chat!CoachingPrompt ELSE Chat!ChatPrompt
             convo == Chat!Newest(command[s].messages, MaxHistory)
             c == [pc |-> "tools", of |-> command[s].of, mount |-> command[s].mount,
                   question |-> q, intent |-> Chat!Intent(q), system |-> prompt,
                   convo |-> convo, round |-> 0, todo |-> <<>>]
  <2>1. CASE command[s].pc = "read" /\ Becomes(s, c)
    <3>1. Open(convo, 0, 0)
      BY <1>1, <2>1, NewestOpen DEF ConvoOK
    <3> HIDE DEF convo, prompt
    <3>2. /\ c.pc = "tools" /\ c.convo = convo /\ c.todo = <<>> /\ c.round = 0
          /\ {"pc", "convo", "round", "todo"} \subseteq DOMAIN c
      OBVIOUS
    <3> HIDE DEF c
    <3>3. ConvoOK(c)
      BY <3>1, <3>2, EmptySeq DEF ConvoOK
    <3> QED
      BY <2>1, <3>3, Zenon
  <2>2. CASE command[s].pc = "read" /\ Becomes(s, [command[s] EXCEPT !.pc = "failed"])
    BY <1>2, <2>2
  <2> QED
    BY <1>3, <2>1, <2>2, Zenon DEF Chat!ReadContext
<1>4. CASE Chat!ToolsTurn(s)
  <2>1. command[s].pc = "tools"
    BY <1>4, Zenon DEF Chat!ToolsTurn
  <2>2. CASE Becomes(s, [command[s] EXCEPT !.pc = "done"])
    BY <1>2, <2>1, <2>2
  <2>3. CASE Becomes(s, [command[s] EXCEPT !.pc = "plain"])
    <3> DEFINE c == [command[s] EXCEPT !.pc = "plain"]
    <3>1. /\ c.pc = "plain" /\ c.convo = command[s].convo /\ c.todo = command[s].todo
          /\ c.round = command[s].round /\ DOMAIN c = DOMAIN command[s]
      BY <1>1, <2>1 DEF ConvoOK
    <3> HIDE DEF c
    <3>2. ConvoOK(c)
      BY <1>1, <2>1, <3>1 DEF ConvoOK
    <3> QED
      BY <2>3, <3>2, Zenon DEF c
  <2>4. ASSUME NEW todo \in Seq(Arguments), todo # <<>>,
               Becomes(s, [command[s] EXCEPT !.pc = "calls", !.todo = todo,
                                     !.convo = Append(@, Chat!CallsTurn(command[s].round, todo))])
        PROVE  \E c : Becomes(s, c) /\ ConvoOK(c)
    <3> DEFINE turn == Chat!CallsTurn(command[s].round, todo)
               c == [command[s] EXCEPT !.pc = "calls", !.todo = todo, !.convo = Append(@, turn)]
    <3>1. /\ c.pc = "calls" /\ c.convo = Append(command[s].convo, turn) /\ c.todo = todo
          /\ c.round = command[s].round /\ DOMAIN c = DOMAIN command[s]
      BY <1>1, <2>1 DEF ConvoOK
    <3>2. Becomes(s, c)
      BY <2>4, Zenon
    <3> HIDE DEF c
    <3>3. command[s].round \in Nat /\ Open(command[s].convo, command[s].round, 0)
      <4>1. command[s].todo = <<>> /\ Len(command[s].todo) = 0
        BY <1>1, <2>1, EmptySeq DEF ConvoOK
      <4> QED
        BY <1>1, <2>1, <4>1 DEF ConvoOK
    <3>4. Len(todo) \in Nat \ {0} /\ turn = [role |-> "calls", round |-> command[s].round, calls |-> Len(todo)]
      BY <2>4, EmptySeq DEF Chat!CallsTurn
    <3> HIDE DEF turn
    <3>5. Open(c.convo, c.round, Len(c.todo))
      BY <3>1, <3>3, <3>4, CallsOpen
    <3>6. ConvoOK(c)
      BY <1>1, <2>1, <2>4, <3>1, <3>3, <3>5 DEF ConvoOK
    <3> QED
      BY <3>2, <3>6, Zenon
  <2>5. \/ Becomes(s, [command[s] EXCEPT !.pc = "done"])
        \/ Becomes(s, [command[s] EXCEPT !.pc = "plain"])
        \/ \E made \in {Chat!ParsedCalls(list) : list \in CallLists} :
             /\ made # <<>>
             /\ Becomes(s, [command[s] EXCEPT !.pc = "calls", !.todo = made,
                                     !.convo = Append(@, Chat!CallsTurn(command[s].round, made))])
    BY <1>4, Zenon DEF Chat!ToolsTurn
  <2>6. \A made \in {Chat!ParsedCalls(list) : list \in CallLists} : made \in Seq(Arguments)
    BY ParsedArguments
  <2> QED
    BY <2>2, <2>3, <2>4, <2>5, <2>6, Zenon
<1>5. CASE Chat!HandleCall(s)
  <2> DEFINE round == command[s].round
             todo == command[s].todo
             rest == Tail(todo)
             answer == [role |-> "tool", round |-> round]
             next == IF rest = <<>> THEN round + 1 ELSE round
             c == [command[s] EXCEPT
                     !.todo = rest, !.convo = Append(@, answer),
                     !.round = IF rest = <<>> THEN round + 1 ELSE round,
                     !.pc = IF rest # <<>> THEN "calls"
                            ELSE IF round + 1 = MaxRounds THEN "plain" ELSE "tools"]
  <2>1. command[s].pc = "calls" /\ Becomes(s, c)
    BY <1>5, Zenon DEF Chat!HandleCall
  <2>2. /\ round \in Nat /\ {"pc", "convo", "round", "todo"} \subseteq DOMAIN command[s]
        /\ todo \in Seq(Arguments) /\ todo # <<>>
        /\ Open(command[s].convo, round, Len(todo))
    BY <1>1, <2>1 DEF ConvoOK
  <2>3. /\ c.pc = IF rest # <<>> THEN "calls"
                  ELSE IF round + 1 = MaxRounds THEN "plain" ELSE "tools"
        /\ c.round = next /\ c.todo = rest
        /\ c.convo = Append(command[s].convo, answer)
        /\ DOMAIN c = DOMAIN command[s]
    BY <2>2
  <2> HIDE DEF c
  <2>4. Len(todo) \in Nat \ {0} /\ rest \in Seq(Arguments) /\ Len(rest) = Len(todo) - 1
    BY <2>2, EmptySeq, HeadTailProperties
  <2> HIDE DEF rest
  <2>5. next \in Nat /\ (Len(todo) = 1 \/ next = round)
    <3>1. rest = <<>> => Len(rest) = 0
      BY EmptySeq
    <3> QED
      BY <2>2, <2>4, <3>1
  <2> HIDE DEF next, round, todo
  <2>6. Open(Append(command[s].convo, answer), next, Len(rest))
    <3>1. answer = ToolAnswer(round)
      BY DEF ToolAnswer
    <3> QED
      BY <2>2, <2>4, <2>5, <3>1, AnswerGiven
  <2> HIDE DEF answer
  <2>7. ConvoOK(c)
    <3>1. c.pc # "read" /\ (c.pc = "calls" <=> rest # <<>>)
      BY <2>3
    <3> QED
      BY <2>2, <2>3, <2>4, <2>5, <2>6, <3>1 DEF ConvoOK
  <2> QED
    BY <2>1, <2>7, Zenon
<1>6. CASE Chat!PlainTurn(s)
  <2>1. PICK c : Becomes(s, c) /\ c.pc \in {"done", "failed"}
    BY <1>6, PlainEnds, Zenon
  <2>2. ConvoOK(c)
    BY <2>1 DEF ConvoOK
  <2> QED
    BY <2>1, <2>2, Zenon
<1>7. CASE Chat!Replied(s) \/ Chat!GaveUp(s)
  <2>1. Becomes(s, Chat!Free)
    BY <1>7 DEF Chat!Replied, Chat!GaveUp
  <2>2. ConvoOK(Chat!Free)
    BY DEF Chat!Free, ConvoOK
  <2> QED
    BY <2>1, <2>2, Zenon
<1> QED
  BY <1>3, <1>4, <1>5, <1>6, <1>7 DEF Chat!CommandSteps

LEMMA ConvoKeeps == ChatTypeOK /\ ChatTypeOK' /\ ConvoInv /\ [Chat!ChatNext]_chatVars => ConvoInv'
<1> SUFFICES ASSUME ChatTypeOK, ChatTypeOK', ConvoInv, [Chat!ChatNext]_chatVars PROVE ConvoInv'
  OBVIOUS
<1>1. ASSUME NEW s \in Chat!Slots, NEW c, Becomes(s, c), ConvoOK(c) PROVE ConvoInv'
  <2>1. command'[s] = c /\ \A t \in Chat!Slots : t # s => command'[t] = command[t]
    BY <1>1, OneBecomes, Zenon
  <2>2. ASSUME NEW t \in Chat!Slots PROVE ConvoOK(command'[t])
    <3>1. CASE t = s
      BY <1>1, <2>1, <3>1, Zenon
    <3>2. CASE t # s
      BY <2>1, <3>2, Zenon DEF ConvoInv
    <3> QED
      BY <3>1, <3>2
  <2> QED
    BY <2>2, Zenon DEF ConvoInv, ConvoOK, Chat!Slots
<1>2. ASSUME NEW s \in Chat!Slots, Chat!CommandSteps(s) PROVE ConvoInv'
  BY <1>1, <1>2, ConvoSteps, Zenon
<1>3. ASSUME NEW s \in Chat!Slots, NEW q \in Questions, Chat!Send(s, q) PROVE ConvoInv'
  <2> DEFINE c == [pc |-> "read", of |-> sends + 1, mount |-> tab.mount, question |-> q,
                   messages |-> messages']
  <2>1. Becomes(s, c)
    BY <1>3 DEF Chat!Send, Becomes
  <2>2. ConvoOK(c)
    BY DEF ConvoOK, ChatTypeOK
  <2> HIDE DEF c
  <2> QED
    BY <1>1, <2>1, <2>2, Zenon
<1>4. CASE UNCHANGED command
  BY <1>4 DEF ConvoInv, ConvoOK
<1>5. CASE Chat!Reopen \/ Chat!EditMemories \/ UNCHANGED chatVars
  BY <1>4, <1>5 DEF Chat!Reopen, Chat!EditMemories, chatVars
<1> QED
  BY <1>2, <1>3, <1>5, Zenon DEF Chat!ChatNext

LEMMA ConvoThen == ConvoInv => Chat!CallsAnswered
<1> SUFFICES ASSUME ConvoInv, NEW s \in Chat!Slots, command[s].pc = "tools"
             PROVE  LET convo == command[s].convo
                        Made(r) == {i \in DOMAIN convo : convo[i].role = "calls" /\ convo[i].round = r}
                    IN  /\ \A i \in DOMAIN convo : convo[i].role = "calls" =>
                             /\ i + convo[i].calls <= Len(convo)
                             /\ \A n \in 1 .. convo[i].calls :
                                  convo[i + n] = [role |-> "tool", round |-> convo[i].round]
                        /\ \A i \in DOMAIN convo : convo[i].role = "tool" =>
                             \E t \in Made(convo[i].round) : t < i /\ i <= t + convo[t].calls
  BY Zenon DEF Chat!CallsAnswered
<1>1. command[s].round \in Nat /\ Open(command[s].convo, command[s].round, 0)
  <2>1. command[s].todo = <<>> /\ Len(command[s].todo) = 0
    BY EmptySeq DEF ConvoInv, ConvoOK
  <2> QED
    BY <2>1 DEF ConvoInv, ConvoOK
<1> QED
  BY <1>1, OpenThen, Zenon DEF ToolAnswer

LEMMA ConvoInvariant == MCSpec => []ConvoInv
<1>1. MCInit => ConvoInv
  BY DEF MCInit, Chat!ChatInit, ConvoInv, ConvoOK, Chat!Free
<1>2. [MCNext]_deskVars => [Chat!ChatNext]_chatVars
  BY DEF MCNext, deskVars, chatVars
<1>3. ChatInv => ChatTypeOK
  BY DEF ChatInv
<1> QED
  BY <1>1, <1>2, <1>3, ChatInvariant, ConvoKeeps, PTL DEF MCSpec

-----------------------------------------------------------------------------
(* Prompts: the newest memories, as many as fit. *)

Weigh(n, line) == n + SizeOf[line] + 2
Weighing == INSTANCE FoldLemmas WITH Op <- Weigh, Base <- 0
Blocks == INSTANCE FoldLemmas WITH Op <- Chat!Take, Base <- Chat!NothingTaken

LEMMA ChatConstants ==
  /\ SizeOf \in [Chat!Texts -> Nat] /\ MaxMemories \in Nat \ {0} /\ MaxMemoryChars \in Nat \ {0}
BY DeskAssumption DEF Chat!ChatAssumption

LEMMA TotalIs == \A s : Chat!Total(s) = Weighing!FromLeft(s)
BY Zenon DEF Chat!Total, Weighing!FromLeft, Chat!FoldLeft, Weighing!FoldLeft, Chat!MapThenFoldSet,
   Weighing!MapThenFoldSet, Chat!Max, Weighing!Max, Weigh

LEMMA TotalNat ==
  ASSUME NEW s \in Seq(Chat!Texts) PROVE Chat!Total(s) \in Nat
<1> DEFINE I == [k \in 0 .. Len(s) |-> Nat]
<1>1. Len(s) \in Nat
  OBVIOUS
<1>2. 0 \in I[0]
  BY <1>1
<1>3. ASSUME NEW k \in 1 .. Len(s), NEW a \in I[k - 1] PROVE Weigh(a, s[k]) \in I[k]
  <2>1. k \in 0 .. Len(s) /\ a \in Nat
    BY <1>1
  <2>2. s[k] \in Chat!Texts
    OBVIOUS
  <2>3. SizeOf[s[k]] \in Nat
    BY <2>2, ChatConstants
  <2> QED
    BY <2>1, <2>3 DEF Weigh
<1>4. Weighing!FromLeft(s) \in I[Len(s)]
  <2> HIDE DEF I
  <2> QED
    BY <1>2, <1>3, Weighing!FoldLeftHolds
<1> QED
  BY <1>1, <1>4, TotalIs

LEMMA TotalNothing == Chat!Total(<<>>) = 0
<1>1. PICK acc : acc[0] = 0 /\ Weighing!FromLeft(<<>>) = acc[Len(<<>>)]
  BY EmptySeq, Weighing!FoldLeftSteps
<1> QED
  BY <1>1, EmptySeq, TotalIs

LEMMA TotalMore ==
  ASSUME NEW s \in Seq(Chat!Texts), NEW x \in Chat!Texts
  PROVE  Chat!Total(<<x>> \o s) = Chat!Total(s) + SizeOf[x] + 2
<1> DEFINE longer == <<x>> \o s
           w == SizeOf[x] + 2
<1>1. Len(s) \in Nat /\ w \in Nat /\ SizeOf[x] \in Nat /\ \A k \in 1 .. Len(s) : SizeOf[s[k]] \in Nat
  BY ChatConstants
<1>2. /\ longer \in Seq(Chat!Texts) /\ Len(longer) = Len(s) + 1 /\ longer[1] = x
      /\ \A k \in 1 .. Len(s) : longer[k + 1] = s[k]
  <2>1. <<x>> \in Seq(Chat!Texts) /\ Len(<<x>>) = 1 /\ <<x>>[1] = x
    OBVIOUS
  <2>2. /\ longer \in Seq(Chat!Texts) /\ Len(longer) = 1 + Len(s)
        /\ \A i \in 1 .. 1 + Len(s) : longer[i] = IF i <= 1 THEN <<x>>[i] ELSE s[i - 1]
    BY <2>1, ConcatProperties
  <2>3. ASSUME NEW k \in 1 .. Len(s) PROVE longer[k + 1] = s[k]
    <3>1. k + 1 \in 1 .. 1 + Len(s) /\ ~(k + 1 <= 1) /\ k + 1 - 1 = k
      BY <1>1
    <3> QED
      BY <2>2, <3>1
  <2> QED
    BY <1>1, <2>1, <2>2, <2>3
<1> HIDE DEF longer, w
<1>3. PICK a : /\ a[0] = 0 /\ Weighing!FromLeft(s) = a[Len(s)]
               /\ \A k \in 1 .. Len(s) : a[k] = Weigh(a[k - 1], s[k])
  BY Weighing!FoldLeftSteps
<1>4. PICK b : /\ b[0] = 0 /\ Weighing!FromLeft(longer) = b[Len(longer)]
               /\ \A k \in 1 .. Len(longer) : b[k] = Weigh(b[k - 1], longer[k])
  BY <1>2, Weighing!FoldLeftSteps
<1> DEFINE Bad == {k \in 0 .. Len(s) : ~(a[k] \in Nat /\ b[k + 1] = a[k] + w)}
<1>5. ASSUME Bad # {} PROVE FALSE
  <2>1. Bad \in SUBSET Nat
    BY <1>1
  <2>2. PICK m \in Bad : \A k \in Bad : m <= k
    BY <1>5, <2>1, Weighing!LeastNatural
  <2>3. CASE m = 0
    <3>1. b[1] = Weigh(b[0], x)
      <4>1. 1 \in 1 .. Len(longer) /\ 1 - 1 = 0
        BY <1>1, <1>2
      <4> QED
        BY <1>2, <1>4, <4>1
    <3>2. b[0 + 1] = a[0] + w
      BY <1>1, <1>3, <1>4, <3>1 DEF Weigh, w
    <3> QED
      BY <1>3, <2>2, <2>3, <3>2
  <2>4. CASE m # 0
    <3>1. m \in 1 .. Len(s) /\ m - 1 \in 0 .. Len(s) /\ m - 1 \notin Bad
      BY <1>1, <2>1, <2>2, <2>4
    <3>2. a[m - 1] \in Nat /\ b[m] = a[m - 1] + w
      <4>1. (m - 1) + 1 = m
        BY <3>1
      <4> QED
        BY <3>1, <4>1
    <3>3. a[m] = a[m - 1] + SizeOf[s[m]] + 2
      BY <1>3, <3>1 DEF Weigh
    <3>4. b[m + 1] = b[m] + SizeOf[s[m]] + 2
      <4>1. m + 1 \in 1 .. Len(longer) /\ (m + 1) - 1 = m /\ longer[m + 1] = s[m]
        BY <1>1, <1>2, <3>1
      <4> QED
        BY <1>4, <4>1 DEF Weigh
    <3>5. a[m] \in Nat /\ b[m + 1] = a[m] + w
      BY <1>1, <3>1, <3>2, <3>3, <3>4
    <3> QED
      BY <2>2, <3>5
  <2> QED
    BY <2>3, <2>4
<1>6. a[Len(s)] \in Nat /\ b[Len(s) + 1] = a[Len(s)] + w
  BY <1>1, <1>5
<1>7. Chat!Total(s) = a[Len(s)] /\ Chat!Total(longer) = b[Len(s) + 1]
  BY <1>2, <1>3, <1>4, TotalIs
<1> QED
  BY <1>1, <1>6, <1>7 DEF longer, w

LEMMA NewestMore ==
  ASSUME NEW s \in Seq(Chat!Texts), NEW m \in 0 .. Len(s)
  PROVE  /\ Chat!Newest(s, m) \in Seq(Chat!Texts) /\ Len(Chat!Newest(s, m)) = m
         /\ \A i \in 1 .. m : Chat!Newest(s, m)[i] = s[Len(s) - m + i]
         /\ m < Len(s) => Chat!Newest(s, m + 1) = <<s[Len(s) - m]>> \o Chat!Newest(s, m)
<1>1. Len(s) \in Nat
  OBVIOUS
<1>2. \A k \in 0 .. Len(s) : Chat!Newest(s, k) = SubSeq(s, Len(s) - k + 1, Len(s))
  <2> SUFFICES ASSUME NEW k \in 0 .. Len(s)
               PROVE  Chat!Newest(s, k) = SubSeq(s, Len(s) - k + 1, Len(s))
    OBVIOUS
  <2>1. (IF Len(s) > k THEN Len(s) - k + 1 ELSE 1) = Len(s) - k + 1
    BY <1>1
  <2> QED
    BY <2>1, Zenon DEF Chat!Newest
<1> DEFINE j == Len(s) - m + 1
<1>3. j \in 1 .. Len(s) + 1 /\ Len(s) - j + 1 = m
  BY <1>1
<1>4. /\ SubSeq(s, j, Len(s)) \in Seq(Chat!Texts)
      /\ Len(SubSeq(s, j, Len(s))) = IF j <= Len(s) THEN Len(s) - j + 1 ELSE 0
      /\ \A i \in 1 .. Len(s) - j + 1 : SubSeq(s, j, Len(s))[i] = s[j + i - 1]
  <2> HIDE DEF j
  <2>1. \A i \in j .. Len(s) : s[i] \in Chat!Texts
    BY <1>1, <1>3
  <2>2. j \in Int /\ Len(s) \in Int
    BY <1>1, <1>3
  <2> QED
    BY <2>1, <2>2, SubSeqProperties
<1>5. /\ Chat!Newest(s, m) \in Seq(Chat!Texts) /\ Len(Chat!Newest(s, m)) = m
      /\ \A i \in 1 .. m : Chat!Newest(s, m)[i] = s[Len(s) - m + i]
  <2>1. \A i \in 1 .. m : j + i - 1 = Len(s) - m + i
    BY <1>1
  <2>2. Chat!Newest(s, m) = SubSeq(s, j, Len(s)) /\ (j <= Len(s) \/ m = 0)
    BY <1>1, <1>2
  <2>3. Len(SubSeq(s, j, Len(s))) = m
    <3> HIDE DEF j
    <3> QED
      BY <1>1, <1>3, <1>4, <2>2
  <2> HIDE DEF j
  <2> QED
    BY <1>3, <1>4, <2>1, <2>2, <2>3
<1>6. ASSUME m < Len(s) PROVE Chat!Newest(s, m + 1) = <<s[Len(s) - m]>> \o Chat!Newest(s, m)
  <2> DEFINE k == Len(s) - m
  <2>1. k \in 1 .. Len(s) /\ Len(s) \in k .. Len(s) /\ m + 1 \in 0 .. Len(s)
        /\ Len(s) - (m + 1) + 1 = k /\ k + 1 = j
    BY <1>1, <1>6
  <2> HIDE DEF k, j
  <2>2. SubSeq(s, k, Len(s)) = <<s[k]>> \o SubSeq(s, k + 1, Len(s))
    BY <2>1, SubSeqRecursiveFirst
  <2> QED
    BY <1>2, <2>1, <2>2 DEF k, j
<1> QED
  BY <1>5, <1>6

\* What memory_block has taken of the last k lines: the newest, as many as fit, all of them
\* until it was full.
Taken(lines, k) ==
  {a \in [full : BOOLEAN, chars : Nat, kept : Seq(Chat!Texts)] :
     LET m == Len(a.kept)
     IN  /\ m <= k /\ a.kept = Chat!Newest(lines, m)
         /\ a.chars = Chat!Total(a.kept) /\ Chat!Fits(a.kept)
         /\ ~a.full => m = k
         /\ a.full => m < k /\ ~Chat!Fits(Chat!Newest(lines, m + 1))}

LEMMA TakesNewest ==
  ASSUME NEW lines \in Seq(Chat!Texts), NEW k \in 1 .. Len(lines), NEW a \in Taken(lines, k - 1)
  PROVE  Chat!Take(lines[Len(lines) - k + 1], a) \in Taken(lines, k)
<1> DEFINE x == lines[Len(lines) - k + 1]
           m == Len(a.kept)
           longer == <<x>> \o a.kept
           w == a.chars + SizeOf[x] + 2
           Over == m >= MaxMemories \/ (a.kept # <<>> /\ w > MaxMemoryChars)
<1>1. /\ Len(lines) \in Nat /\ m \in Nat /\ x \in Chat!Texts
      /\ a \in [full : BOOLEAN, chars : Nat, kept : Seq(Chat!Texts)]
      /\ m <= k - 1 /\ a.kept = Chat!Newest(lines, m)
      /\ a.chars = Chat!Total(a.kept) /\ Chat!Fits(a.kept)
      /\ ~a.full => m = k - 1
      /\ a.full => m < k - 1 /\ ~Chat!Fits(Chat!Newest(lines, m + 1))
  <2>1. Len(lines) \in Nat /\ Len(lines) - k + 1 \in 1 .. Len(lines)
    OBVIOUS
  <2>2. /\ a \in [full : BOOLEAN, chars : Nat, kept : Seq(Chat!Texts)]
        /\ m <= k - 1 /\ a.kept = Chat!Newest(lines, m)
        /\ a.chars = Chat!Total(a.kept) /\ Chat!Fits(a.kept)
        /\ ~a.full => m = k - 1
        /\ a.full => m < k - 1 /\ ~Chat!Fits(Chat!Newest(lines, m + 1))
    BY Zenon DEF Taken
  <2>3. a.kept \in Seq(Chat!Texts) /\ x \in Chat!Texts
    BY <2>1, <2>2
  <2> QED
    BY <2>1, <2>2, <2>3
<1>2. Chat!Take(x, a) = IF a.full \/ Over THEN [a EXCEPT !.full = TRUE]
                        ELSE [full |-> FALSE, chars |-> w, kept |-> longer]
  BY Zenon DEF Chat!Take
<1> HIDE DEF x
<1>3. CASE a.full
  <2>1. Chat!Take(x, a) = a
    BY <1>1, <1>2, <1>3
  <2>2. m <= k /\ m < k
    BY <1>1, <1>3
  <2> QED
    BY <1>1, <1>3, <2>1, <2>2, Zenon DEF Taken, x
<1>4. CASE ~a.full
  <2>1. m = k - 1 /\ m + 1 = k /\ m < Len(lines) /\ Len(lines) - m = Len(lines) - k + 1 /\ m \in 0 .. Len(lines)
    BY <1>1, <1>4
  <2>2. longer = Chat!Newest(lines, m + 1)
    BY <1>1, <2>1, NewestMore DEF x
  <2>3. longer \in Seq(Chat!Texts) /\ Len(longer) = m + 1 /\ w \in Nat /\ Chat!Total(longer) = w
    <3>1. m + 1 \in 0 .. Len(lines)
      BY <1>1, <2>1
    <3>2. longer \in Seq(Chat!Texts) /\ Len(longer) = m + 1
      BY <2>2, <3>1, NewestMore
    <3>3. a.kept \in Seq(Chat!Texts) /\ a.chars \in Nat /\ SizeOf[x] \in Nat
      BY <1>1, ChatConstants
    <3>4. Chat!Total(longer) = Chat!Total(a.kept) + SizeOf[x] + 2
      BY <1>1, <3>3, TotalMore
    <3> QED
      BY <1>1, <3>2, <3>3, <3>4
  <2>4. a.kept # <<>> <=> m # 0
    BY <1>1, EmptySeq
  <2>5. Over <=> ~Chat!Fits(longer)
    <3>1. Chat!Fits(longer) <=> m + 1 <= MaxMemories /\ (m + 1 <= 1 \/ w <= MaxMemoryChars)
      BY <2>3 DEF Chat!Fits
    <3>2. m \in Nat /\ MaxMemories \in Nat /\ w \in Nat /\ MaxMemoryChars \in Nat
      BY <1>1, <2>3, ChatConstants
    <3>3. Over <=> m >= MaxMemories \/ (m # 0 /\ w > MaxMemoryChars)
      BY <2>4, Zenon
    <3> HIDE DEF m, w, longer, Over
    <3> QED
      BY <3>1, <3>2, <3>3
  <2> HIDE DEF w, longer
  <2>6. CASE Over
    <3> DEFINE b == [a EXCEPT !.full = TRUE]
    <3>1. /\ b \in [full : BOOLEAN, chars : Nat, kept : Seq(Chat!Texts)]
          /\ b.full /\ b.chars = a.chars /\ b.kept = a.kept
      BY <1>1
    <3>2. m <= k /\ m < k
      BY <1>1, <2>1
    <3>3. Chat!Take(x, a) = b
      BY <1>2, <2>6
    <3> HIDE DEF b, Over
    <3>4. b \in Taken(lines, k)
      BY <1>1, <2>2, <2>5, <2>6, <3>1, <3>2, Zenon DEF Taken
    <3> QED
      BY <3>3, <3>4 DEF x
  <2>7. CASE ~Over
    <3> DEFINE b == [full |-> FALSE, chars |-> w, kept |-> longer]
    <3>1. /\ b \in [full : BOOLEAN, chars : Nat, kept : Seq(Chat!Texts)]
          /\ ~b.full /\ b.chars = w /\ b.kept = longer
      BY <2>3
    <3>2. Chat!Take(x, a) = b
      BY <1>2, <1>4, <2>7
    <3> HIDE DEF b, Over
    <3>3. Len(b.kept) = k /\ k <= k /\ b.kept = Chat!Newest(lines, k) /\ Chat!Fits(b.kept)
          /\ b.chars = Chat!Total(b.kept)
      BY <2>1, <2>2, <2>3, <2>5, <2>7, <3>1
    <3>4. b \in Taken(lines, k)
      BY <3>1, <3>3, Zenon DEF Taken
    <3> QED
      BY <3>2, <3>4 DEF x
  <2> QED
    BY <2>6, <2>7
<1> QED
  BY <1>3, <1>4

\* The newest lines, as many as fit.
LEMMA BlockIsNewest ==
  ASSUME NEW lines \in Seq(Chat!Texts)
  PROVE  \E m \in 0 .. Len(lines) :
           /\ Chat!MemoryBlock(lines) = Chat!Newest(lines, m) /\ Chat!Fits(Chat!Newest(lines, m))
           /\ m < Len(lines) => ~Chat!Fits(Chat!Newest(lines, m + 1))
<1> DEFINE I == [k \in 0 .. Len(lines) |-> Taken(lines, k)]
           a == Blocks!FromRight(lines)
<1>1. Len(lines) \in Nat
  OBVIOUS
<1>2. Chat!NothingTaken \in I[0]
  <2> DEFINE b == Chat!NothingTaken
  <2>1. /\ b \in [full : BOOLEAN, chars : Nat, kept : Seq(Chat!Texts)]
        /\ ~b.full /\ b.chars = 0 /\ b.kept = <<>> /\ Len(b.kept) = 0
    BY EmptySeq DEF Chat!NothingTaken
  <2>2. Chat!Newest(lines, 0) = <<>>
    <3>0. 0 \in 0 .. Len(lines)
      BY <1>1
    <3>1. Chat!Newest(lines, 0) \in Seq(Chat!Texts) /\ Len(Chat!Newest(lines, 0)) = 0
      BY <3>0, NewestMore
    <3> QED
      BY <3>1, EmptySeq
  <2>3. Chat!Fits(<<>>)
    BY EmptySeq, ChatConstants DEF Chat!Fits
  <2>4. 0 <= 0
    OBVIOUS
  <2> HIDE DEF b
  <2>5. b \in Taken(lines, 0)
    BY <2>1, <2>2, <2>3, <2>4, TotalNothing, Zenon DEF Taken
  <2> QED
    BY <1>1, <2>5 DEF b
<1>3. ASSUME NEW k \in 1 .. Len(lines), NEW b \in I[k - 1]
      PROVE  Chat!Take(lines[Len(lines) - k + 1], b) \in I[k]
  <2>1. k \in 0 .. Len(lines) /\ k - 1 \in 0 .. Len(lines)
    BY <1>1
  <2> QED
    BY <2>1, TakesNewest
<1>4. a \in Taken(lines, Len(lines))
  <2>1. a \in I[Len(lines)]
    <3> HIDE DEF I, a
    <3> QED
      BY <1>2, <1>3, Blocks!FoldRightHolds DEF a
  <2> QED
    BY <1>1, <2>1
<1>5. Chat!MemoryBlock(lines) = a.kept
  BY Zenon DEF Chat!MemoryBlock, Blocks!FromRight, Chat!FoldRight, Blocks!FoldRight,
     Chat!MapThenFoldSet, Blocks!MapThenFoldSet, Chat!Min, Blocks!Min
<1> HIDE DEF a
<1> DEFINE m == Len(a.kept)
<1>6. /\ a.kept \in Seq(Chat!Texts) /\ m <= Len(lines) /\ a.kept = Chat!Newest(lines, m)
      /\ Chat!Fits(a.kept) /\ (~a.full => m = Len(lines))
      /\ a.full => ~Chat!Fits(Chat!Newest(lines, m + 1))
  <2>1. a \in [full : BOOLEAN, chars : Nat, kept : Seq(Chat!Texts)]
    BY <1>4, Zenon DEF Taken
  <2> QED
    BY <1>4, <2>1, Zenon DEF Taken
<1>7. m \in 0 .. Len(lines) /\ (m < Len(lines) => a.full)
  BY <1>1, <1>6
<1> QED
  BY <1>5, <1>6, <1>7

LEMMA NewestIsSuffix ==
  ASSUME NEW s \in Seq(Chat!Texts), NEW m \in 0 .. Len(s)
  PROVE  Chat!IsSuffix(Chat!Newest(s, m), s)
<1> DEFINE t == Chat!Newest(s, m)
           n == Len(s)
           rt == Chat!Reverse(t)
           rs == Chat!Reverse(s)
<1>1. /\ n \in Nat /\ m \in Nat /\ m <= n /\ t \in Seq(Chat!Texts) /\ Len(t) = m
      /\ \A i \in 1 .. m : t[i] = s[n - m + i]
  <2>1. n \in Nat /\ m \in Nat /\ m <= n
    OBVIOUS
  <2>2. t \in Seq(Chat!Texts) /\ Len(t) = m /\ \A i \in 1 .. m : t[i] = s[n - m + i]
    BY NewestMore, Zenon
  <2> QED
    BY <2>1, <2>2, Zenon
<1> HIDE DEF t, n
<1>2. rt \in Seq(Chat!Texts) /\ Len(rt) = m /\ \A i \in 1 .. m : rt[i] = t[m - i + 1]
  <2>1. rt = [i \in 1 .. m |-> t[m - i + 1]]
    BY <1>1 DEF Chat!Reverse
  <2>2. \A i \in 1 .. m : t[m - i + 1] \in Chat!Texts
    BY <1>1
  <2> QED
    BY <1>1, <2>1, <2>2
<1>3. rs \in Seq(Chat!Texts) /\ Len(rs) = n /\ \A i \in 1 .. n : rs[i] = s[n - i + 1]
  <2>1. rs = [i \in 1 .. n |-> s[n - i + 1]]
    BY <1>1 DEF Chat!Reverse, n
  <2>2. \A i \in 1 .. n : s[n - i + 1] \in Chat!Texts
    BY <1>1 DEF n
  <2>3. n \in Nat
    BY <1>1
  <2> HIDE DEF rs
  <2>4. rs \in [1 .. n -> Chat!Texts]
    BY <2>1, <2>2, Zenon
  <2>5. rs \in Seq(Chat!Texts) /\ Len(rs) = n
    BY <2>3, <2>4
  <2>6. \A i \in 1 .. n : rs[i] = s[n - i + 1]
    BY <2>1, Zenon
  <2> QED
    BY <2>5, <2>6, Zenon
<1> HIDE DEF rt, rs
<1>4. ASSUME NEW i \in 1 .. m PROVE rt[i] = rs[i]
  <2>1. m - i + 1 \in 1 .. m /\ n - m + (m - i + 1) = n - i + 1 /\ i \in 1 .. n
    BY <1>1
  <2> QED
    BY <1>1, <1>2, <1>3, <2>1
<1>5. SubSeq(rt, 1, m) = SubSeq(rs, 1, m)
  <2>1. \A i \in 1 .. m : rt[i] \in Chat!Texts /\ rs[i] \in Chat!Texts
    BY <1>2, <1>4
  <2> DEFINE a == SubSeq(rt, 1, m)
             b == SubSeq(rs, 1, m)
  <2>2. /\ a \in Seq(Chat!Texts) /\ Len(a) = (IF 1 <= m THEN m - 1 + 1 ELSE 0)
        /\ \A i \in 1 .. m - 1 + 1 : a[i] = rt[1 + i - 1]
    BY <1>1, <2>1, SubSeqProperties
  <2>3. /\ b \in Seq(Chat!Texts) /\ Len(b) = (IF 1 <= m THEN m - 1 + 1 ELSE 0)
        /\ \A i \in 1 .. m - 1 + 1 : b[i] = rs[1 + i - 1]
    BY <1>1, <2>1, SubSeqProperties
  <2> HIDE DEF a, b
  <2>4. Len(a) = m /\ Len(b) = m
    BY <1>1, <2>2, <2>3
  <2>5. ASSUME NEW i \in 1 .. m PROVE a[i] = b[i]
    <3>1. i \in 1 .. m - 1 + 1 /\ 1 + i - 1 = i
      BY <1>1
    <3> QED
      BY <1>4, <2>2, <2>3, <3>1
  <2>6. a = b
    BY <2>2, <2>3, <2>4, <2>5, SeqEqual
  <2> QED
    BY <2>6 DEF a, b
<1> QED
  BY <1>1, <1>2, <1>3, <1>5 DEF Chat!IsSuffix, Chat!IsPrefix, t, n, rt, rs

-----------------------------------------------------------------------------
\* A command whose prompt was just put together has the block of the memories it lists.
HoldOK(c) ==
  c.pc = "tools" /\ c.round = 0 =>
    c.system.listed \in Seq(Chat!Texts) /\ c.system.block = Chat!MemoryBlock(c.system.listed)

MemoriesHeld == memories \in Seq(Chat!Texts)
HoldInv == MemoriesHeld /\ \A s \in Chat!Slots : HoldOK(command[s])

LEMMA WithoutOne ==
  ASSUME NEW T, NEW seq \in Seq(T), NEW i \in DOMAIN seq
  PROVE  Chat!RemoveAt(seq, i) \in Seq(T)
<1>1. Len(seq) \in Nat /\ i \in 1 .. Len(seq) /\ \A j \in 1 .. Len(seq) : seq[j] \in T
  OBVIOUS
<1>2. SubSeq(seq, 1, i - 1) \in Seq(T)
  <2>1. 1 \in Int /\ i - 1 \in Int /\ \A j \in 1 .. i - 1 : seq[j] \in T
    BY <1>1
  <2> QED
    BY <2>1, SubSeqProperties
<1>3. SubSeq(seq, i + 1, Len(seq)) \in Seq(T)
  <2>1. i + 1 \in Int /\ Len(seq) \in Int /\ \A j \in i + 1 .. Len(seq) : seq[j] \in T
    BY <1>1
  <2> QED
    BY <2>1, SubSeqProperties
<1> QED
  BY <1>2, <1>3, ConcatProperties DEF Chat!RemoveAt

LEMMA MemoriesKeep == MemoriesHeld /\ [Chat!ChatNext]_chatVars => MemoriesHeld'
<1> SUFFICES ASSUME MemoriesHeld, [Chat!ChatNext]_chatVars PROVE MemoriesHeld'
  OBVIOUS
<1>1. CASE UNCHANGED memories
  BY <1>1 DEF MemoriesHeld
<1>2. ASSUME NEW t \in Chat!Texts, memories' = Append(memories, t) PROVE MemoriesHeld'
  BY <1>2 DEF MemoriesHeld
<1>3. CASE Chat!EditMemories
  <2>1. ASSUME NEW i \in DOMAIN memories, NEW t \in Chat!Texts, memories' = [memories EXCEPT ![i] = t]
        PROVE  MemoriesHeld'
    BY <2>1 DEF MemoriesHeld
  <2>2. ASSUME NEW i \in DOMAIN memories, memories' = Chat!RemoveAt(memories, i) PROVE MemoriesHeld'
    BY <2>2, WithoutOne DEF MemoriesHeld
  <2> QED
    BY <1>2, <1>3, <2>1, <2>2, Zenon DEF Chat!EditMemories
<1>4. ASSUME NEW s \in Chat!Slots, Chat!HandleCall(s) PROVE MemoriesHeld'
  <2>1. \/ Head(command[s].todo) \in Chat!Texts /\ memories' = Append(memories, Head(command[s].todo))
        \/ memories' = memories
    BY <1>4 DEF Chat!HandleCall
  <2> QED
    BY <1>1, <1>2, <2>1
<1>5. ASSUME NEW s \in Chat!Slots, Chat!CommandSteps(s) PROVE MemoriesHeld'
  BY <1>1, <1>4, <1>5 DEF Chat!CommandSteps, Chat!ReadContext, Chat!ToolsTurn, Chat!PlainTurn,
     Chat!Replied, Chat!GaveUp
<1>6. ASSUME NEW s \in Chat!Slots, NEW q \in Questions, Chat!Send(s, q) PROVE MemoriesHeld'
  BY <1>1, <1>6 DEF Chat!Send
<1>7. CASE Chat!Reopen \/ UNCHANGED chatVars
  BY <1>1, <1>7 DEF Chat!Reopen, chatVars
<1> QED
  BY <1>3, <1>5, <1>6, <1>7, Zenon DEF Chat!ChatNext

LEMMA HoldSteps ==
  ASSUME ChatTypeOK, RouteInv, HoldInv, NEW s \in Chat!Slots, Chat!CommandSteps(s)
  PROVE  \E c : Becomes(s, c) /\ HoldOK(c)
<1> USE DEF Chat!Step, Becomes
<1>1. RouteOK(command[s])
  BY DEF RouteInv
<1>2. ASSUME NEW p, p \in {"failed", "done", "plain"}, command[s].pc # "free",
             Becomes(s, [command[s] EXCEPT !.pc = p])
      PROVE  \E c : Becomes(s, c) /\ HoldOK(c)
  <2> DEFINE c == [command[s] EXCEPT !.pc = p]
  <2>1. c.pc = p
    BY <1>2, NewPc, Zenon
  <2>2. Becomes(s, c)
    BY <1>2, Zenon
  <2> HIDE DEF c
  <2>3. HoldOK(c)
    BY <1>2, <2>1 DEF HoldOK
  <2> QED
    BY <2>2, <2>3, Zenon
<1>3. CASE Chat!ReadContext(s)
  <2> DEFINE q == command[s].question
             prompt == IF Chat!Intent(q) = "coaching" THEN Chat!CoachingPrompt ELSE Chat!ChatPrompt
             convo == Chat!Newest(command[s].messages, MaxHistory)
             c == [pc |-> "tools", of |-> command[s].of, mount |-> command[s].mount,
                   question |-> q, intent |-> Chat!Intent(q), system |-> prompt,
                   convo |-> convo, round |-> 0, todo |-> <<>>]
  <2>1. CASE command[s].pc = "read" /\ Becomes(s, c)
    <3>1. prompt.block = Chat!MemoryBlock(memories) /\ prompt.listed = memories
      <4> DEFINE block == Chat!MemoryBlock(memories)
      <4>1. /\ Chat!CoachingPrompt = [about |-> "week", block |-> block, listed |-> memories]
            /\ Chat!ChatPrompt = [about |-> "today", block |-> block, listed |-> memories]
        BY Zenon DEF Chat!CoachingPrompt, Chat!ChatPrompt
      <4> HIDE DEF block
      <4>2. prompt.block = block /\ prompt.listed = memories
        BY <4>1
      <4> QED
        BY <4>2 DEF block
    <3> HIDE DEF convo, prompt
    <3>2. c.system = prompt
      OBVIOUS
    <3> HIDE DEF c
    <3>3. HoldOK(c)
      BY <3>1, <3>2, Zenon DEF HoldOK, HoldInv, MemoriesHeld
    <3> QED
      BY <2>1, <3>3, Zenon
  <2>2. CASE command[s].pc = "read" /\ Becomes(s, [command[s] EXCEPT !.pc = "failed"])
    BY <1>2, <2>2
  <2> QED
    BY <1>3, <2>1, <2>2, Zenon DEF Chat!ReadContext
<1>4. CASE Chat!ToolsTurn(s)
  <2>1. command[s].pc = "tools"
    BY <1>4, Zenon DEF Chat!ToolsTurn
  <2>2. CASE \E p \in {"done", "plain"} : Becomes(s, [command[s] EXCEPT !.pc = p])
    BY <1>2, <2>1, <2>2
  <2>3. ASSUME NEW todo,
               Becomes(s, [command[s] EXCEPT !.pc = "calls", !.todo = todo,
                                     !.convo = Append(@, Chat!CallsTurn(command[s].round, todo))])
        PROVE  \E c : Becomes(s, c) /\ HoldOK(c)
    <3> DEFINE c == [command[s] EXCEPT !.pc = "calls", !.todo = todo,
                                       !.convo = Append(@, Chat!CallsTurn(command[s].round, todo))]
    <3>1. c.pc = "calls"
      BY <1>1, <2>1 DEF RouteOK, ToolFields
    <3>2. Becomes(s, c)
      BY <2>3, Zenon
    <3> HIDE DEF c
    <3>3. HoldOK(c)
      BY <3>1 DEF HoldOK
    <3> QED
      BY <3>2, <3>3, Zenon
  <2> QED
    BY <1>4, <2>2, <2>3, Zenon DEF Chat!ToolsTurn
<1>5. CASE Chat!HandleCall(s)
  <2> DEFINE round == command[s].round
             rest == Tail(command[s].todo)
             answer == [role |-> "tool", round |-> round]
             c == [command[s] EXCEPT
                     !.todo = rest, !.convo = Append(@, answer),
                     !.round = IF rest = <<>> THEN round + 1 ELSE round,
                     !.pc = IF rest # <<>> THEN "calls"
                            ELSE IF round + 1 = MaxRounds THEN "plain" ELSE "tools"]
  <2>1. command[s].pc = "calls" /\ Becomes(s, c)
    BY <1>5, Zenon DEF Chat!HandleCall
  <2>2. round \in Nat /\ ToolFields \subseteq DOMAIN command[s]
    BY <1>1, <2>1 DEF RouteOK
  <2>3. /\ c.pc = IF rest # <<>> THEN "calls"
                  ELSE IF round + 1 = MaxRounds THEN "plain" ELSE "tools"
        /\ c.round = IF rest = <<>> THEN round + 1 ELSE round
    BY <2>2 DEF ToolFields
  <2> HIDE DEF c, rest
  <2>4. c.pc = "tools" => c.round # 0
    BY <2>2, <2>3
  <2>5. HoldOK(c)
    BY <2>4 DEF HoldOK
  <2> QED
    BY <2>1, <2>5, Zenon
<1>6. CASE Chat!PlainTurn(s)
  <2>1. PICK c : Becomes(s, c) /\ c.pc \in {"done", "failed"}
    BY <1>6, PlainEnds, Zenon
  <2>2. HoldOK(c)
    BY <2>1 DEF HoldOK
  <2> QED
    BY <2>1, <2>2, Zenon
<1>7. CASE Chat!Replied(s) \/ Chat!GaveUp(s)
  <2>1. Becomes(s, Chat!Free)
    BY <1>7 DEF Chat!Replied, Chat!GaveUp
  <2>2. HoldOK(Chat!Free)
    BY DEF Chat!Free, HoldOK
  <2> QED
    BY <2>1, <2>2, Zenon
<1> QED
  BY <1>3, <1>4, <1>5, <1>6, <1>7 DEF Chat!CommandSteps

LEMMA HoldKeeps == ChatTypeOK /\ RouteInv /\ HoldInv /\ [Chat!ChatNext]_chatVars => HoldInv'
<1> SUFFICES ASSUME ChatTypeOK, RouteInv, HoldInv, [Chat!ChatNext]_chatVars PROVE HoldInv'
  OBVIOUS
<1>0. MemoriesHeld'
  BY MemoriesKeep, Zenon DEF HoldInv
<1>1. ASSUME NEW s \in Chat!Slots, NEW c, Becomes(s, c), HoldOK(c) PROVE HoldInv'
  <2>1. command'[s] = c /\ \A t \in Chat!Slots : t # s => command'[t] = command[t]
    BY <1>1, OneBecomes, Zenon
  <2>2. ASSUME NEW t \in Chat!Slots PROVE HoldOK(command'[t])
    <3>1. CASE t = s
      BY <1>1, <2>1, <3>1, Zenon
    <3>2. CASE t # s
      BY <2>1, <3>2, Zenon DEF HoldInv
    <3> QED
      BY <3>1, <3>2
  <2> QED
    BY <1>0, <2>2, Zenon DEF HoldInv, HoldOK, Chat!Slots
<1>2. ASSUME NEW s \in Chat!Slots, Chat!CommandSteps(s) PROVE HoldInv'
  BY <1>1, <1>2, HoldSteps, Zenon
<1>3. ASSUME NEW s \in Chat!Slots, NEW q \in Questions, Chat!Send(s, q) PROVE HoldInv'
  <2> DEFINE c == [pc |-> "read", of |-> sends + 1, mount |-> tab.mount, question |-> q,
                   messages |-> messages']
  <2>1. Becomes(s, c)
    BY <1>3 DEF Chat!Send, Becomes
  <2>2. HoldOK(c)
    BY DEF HoldOK
  <2> HIDE DEF c
  <2> QED
    BY <1>1, <2>1, <2>2, Zenon
<1>4. CASE UNCHANGED command
  BY <1>0, <1>4, Zenon DEF HoldInv, HoldOK
<1>5. CASE Chat!Reopen \/ Chat!EditMemories \/ UNCHANGED chatVars
  BY <1>4, <1>5 DEF Chat!Reopen, Chat!EditMemories, chatVars
<1> QED
  BY <1>2, <1>3, <1>5, Zenon DEF Chat!ChatNext

LEMMA HoldThen == HoldInv => Chat!PromptsHoldNewest
<1> SUFFICES ASSUME HoldInv, NEW s \in Chat!Prepared
             PROVE  LET block == command[s].system.block
                        listed == command[s].system.listed
                    IN /\ Chat!IsSuffix(block, listed) /\ Chat!Fits(block)
                       /\ block # listed => ~Chat!Fits(Chat!Newest(listed, Len(block) + 1))
  BY Zenon DEF Chat!PromptsHoldNewest
<1> DEFINE block == command[s].system.block
           listed == command[s].system.listed
<1>1. listed \in Seq(Chat!Texts) /\ block = Chat!MemoryBlock(listed)
  BY Zenon DEF HoldInv, HoldOK, Chat!Prepared
<1> HIDE DEF block, listed
<1>2. PICK m \in 0 .. Len(listed) :
         /\ block = Chat!Newest(listed, m) /\ Chat!Fits(Chat!Newest(listed, m))
         /\ m < Len(listed) => ~Chat!Fits(Chat!Newest(listed, m + 1))
  BY <1>1, BlockIsNewest, Zenon
<1>3. /\ block \in Seq(Chat!Texts) /\ Len(block) = m
      /\ \A i \in 1 .. m : block[i] = listed[Len(listed) - m + i]
  BY <1>1, <1>2, NewestMore, Zenon
<1>4. Chat!IsSuffix(block, listed)
  BY <1>1, <1>2, NewestIsSuffix, Zenon
<1>5. ASSUME m = Len(listed) PROVE block = listed
  <2>1. \A i \in 1 .. Len(listed) : block[i] = listed[i]
    BY <1>1, <1>3, <1>5
  <2> QED
    BY <1>1, <1>3, <1>5, <2>1, SeqEqual
<1>6. block # listed => m < Len(listed)
  BY <1>1, <1>5
<1> QED
  BY <1>2, <1>3, <1>4, <1>6, Zenon DEF block, listed

\* The chat keeps faith in all four ways at once.  A prompt holds the newest memories that
\* fit, at least one when there are any (memory_block); it is the one the words of the
\* question call for (classify_intent); every tool call of the engine has its answer right
\* after the turn that made it when the engine is offered tools again (run_memory_chat); and as long
\* as the tab stays open questions and answers alternate (send of ChatTab.svelte).
THEOREM ChatKeepsFaith == MCSpec => []ChatHolds
<1>1. MCInit => HoldInv
  BY DEF MCInit, Chat!ChatInit, HoldInv, HoldOK, MemoriesHeld, Chat!Free
<1>2. MCInit => RouteInv
  BY RouteBegins DEF MCInit
<1>3. [MCNext]_deskVars => [Chat!ChatNext]_chatVars
  BY DEF MCNext, deskVars, chatVars
<1>4. ChatInv => ChatTypeOK
  BY DEF ChatInv
<1>5. RouteInv /\ HoldInv /\ ConvoInv /\ ChatTypeOK /\ Chat!HistoryAlternates => ChatHolds
  BY HoldThen, RoutedThen, ConvoThen, Zenon DEF ChatHolds, Chat!ChatHolds
<1> QED
  BY <1>1, <1>2, <1>3, <1>4, <1>5, ChatInvariant, ConvoInvariant, TurnsKept, RouteKeeps, HoldKeeps,
     PTL DEF MCSpec

-----------------------------------------------------------------------------
(* Repeated prompts (PatternFindings), for any number of prompts, any      *)
(* similarity between them, any counts, attempts and batch size.           *)

\* A candidate is with the LLM only during the pass, and nothing touches its
\* row meanwhile: it is still pending when the verdict arrives.
OnlyPendingAsked ==
  /\ phase # "asking" => \A k \in Norms : asked[k] = 0
  /\ \A k \in Norms : asked[k] > 0 => rows[k].status = "pending"

\* The baseline of a resolved card is the number it showed when resolved.
BaselineIsAccepted ==
  \A k \in Norms : rows[k].status = "resolved" /\ rows[k].base # Unset =>
                     rows[k].base = accepted[k]

PatternInv ==
  /\ TypeOK
  /\ PendingCanBeTaken
  /\ ShownWasApproved
  /\ OnlyPendingAsked
  /\ BaselineIsAccepted

-----------------------------------------------------------------------------
(* Rows.                                                                   *)

\* What a row looks like after an upsert with evidence about and number n.
LEMMA UpsertedRow ==
  ASSUME NEW A, NEW row \in Row(A), NEW n \in Nat, NEW about \in A
  PROVE  LET up == Upserted(row, "pending", n, about)
         IN  /\ up \in Row(A)
             /\ up.n = n
             /\ row.status = "absent" =>
                  up.status = "pending" /\ up.attempts = 0
             /\ row.status \notin {"absent", "resolved"} =>
                  up.status = row.status /\ up.attempts = row.attempts
             /\ row.status = "resolved" =>
                  \/ up.status = "resolved" /\ up.base = row.base
                  \/ up.status = "new" /\ row.base # Unset /\ n > row.base
<1>1. CASE row.status = "absent"
  BY <1>1, AttemptsAssumption DEF Upserted, Inserted, Row, Status, Unset
<1>2. CASE row.status # "absent"
  <2>1. Revived(row, n) \in Row(A)
    BY DEF Revived, Row, Status, Unset
  <2>2. Upserted(row, "pending", n, about) = [Revived(row, n) EXCEPT !.n = n, !.about = about]
    BY <1>2 DEF Upserted
  <2>3. CASE row.status = "resolved" /\ row.base # Unset /\ n > row.base
    BY <1>2, <2>1, <2>2, <2>3 DEF Revived, Row, Status, Unset
  <2>4. CASE ~(row.status = "resolved" /\ row.base # Unset /\ n > row.base)
    BY <1>2, <2>1, <2>2, <2>4 DEF Revived, Row, Status, Unset
  <2> QED BY <2>3, <2>4
<1> QED BY <1>1, <1>2

LEMMA AbsentRow == Absent \in Row(SUBSET Norms) /\ Absent.status = "absent"
BY AttemptsAssumption DEF Absent, Row, Status, Unset

\* A failed attempt: one more try, or the rejection.
LEMMA FailedRow ==
  ASSUME NEW A, NEW row \in Row(A), NEW attempts \in 1 .. MaxAttempts
  PROVE  LET out == FailedTry(row, attempts)
         IN  /\ out \in Row(A)
             /\ out.attempts = attempts
             /\ out.status = IF attempts = MaxAttempts THEN "rejected" ELSE row.status
<1>1. attempts \in 0 .. MaxAttempts
  BY AttemptsAssumption
<1>2. CASE attempts = MaxAttempts
  <2>1. FailedTry(row, attempts) = [row EXCEPT !.attempts = attempts, !.status = "rejected"]
    BY <1>1, <1>2, AttemptsAssumption DEF FailedTry, Row
  <2> QED BY <1>1, <1>2, <2>1 DEF Row, Status
<1>3. CASE attempts # MaxAttempts
  <2>1. FailedTry(row, attempts) = [row EXCEPT !.attempts = attempts]
    <3>1. ~(attempts >= MaxAttempts)
      BY <1>3, AttemptsAssumption
    <3> QED BY <3>1 DEF FailedTry, Row
  <2> QED BY <1>1, <1>3, <2>1 DEF Row, Status
<1> QED BY <1>2, <1>3

LEMMA NothingAsked == [k \in Norms |-> 0] \in [Norms -> 0 .. MaxAttempts]
<1>1. 0 \in 0 .. MaxAttempts
  BY AttemptsAssumption
<1> QED BY <1>1

\* A verdict, or the failure to give one, for a candidate that is still pending.
LEMMA JudgedRow ==
  ASSUME NEW A, NEW row \in Row(A), row.status = "pending",
         NEW verdict \in {"new", "rejected", "malformed"},
         NEW attempts \in 1 .. MaxAttempts
  PROVE  LET out == Judged(row, verdict, attempts)
         IN  /\ out \in Row(A)
             /\ out.status \in {"pending", "new", "rejected"}
             /\ out.status = "pending" => out.attempts < MaxAttempts
             /\ out.status = "new" <=> verdict = "new"
<1>1. CASE verdict = "malformed"
  <2>1. Judged(row, verdict, attempts) = FailedTry(row, attempts)
    BY <1>1 DEF Judged
  <2>2. attempts # MaxAttempts => attempts < MaxAttempts
    BY AttemptsAssumption
  <2> QED BY <1>1, <2>1, <2>2, FailedRow
<1>2. CASE verdict # "malformed"
  <2>1. Judged(row, verdict, attempts) = [row EXCEPT !.status = verdict, !.attempts = attempts]
    BY <1>2 DEF Judged
  <2>2. attempts \in 0 .. MaxAttempts /\ verdict \in Status
    BY <1>2, AttemptsAssumption DEF Status
  <2>3. Judged(row, verdict, attempts) \in Row(A)
    BY <2>1, <2>2 DEF Row
  <2>4. Judged(row, verdict, attempts).status = verdict
    BY <2>1 DEF Row
  <2> QED BY <1>2, <2>3, <2>4
<1> QED BY <1>1, <1>2

-----------------------------------------------------------------------------
(* One scan.                                                               *)

LEMMA ClusterType ==
  ASSUME NEW P \in SUBSET Norms
  PROVE  Clusters[P] \subseteq SUBSET Norms
BY DEF Clusters, ClusterOf

LEMMA EmittedType ==
  ASSUME NEW P \in SUBSET Norms
  PROVE  Emitted(P) \subseteq Clusters[P] /\ Emitted(P) \subseteq SUBSET Norms
BY ClusterType DEF Emitted

\* The upserts keep the types and, row by row, do what UpsertedRow says.
LEMMA UpsertsRow ==
  ASSUME TypeOK, NEW P \in SUBSET Norms, NEW count \in [Clusters[P] -> 1 .. MaxCount],
         NEW k \in Norms
  PROVE  LET up == Upserts(Emitted(P), count)[k]
         IN  /\ up \in Row(SUBSET Norms)
             /\ \/ up = rows[k]
                \/ /\ \E C \in Emitted(P) : Anchor(C) = k
                   /\ \E C \in SUBSET Norms, n \in Nat : up = Upserted(rows[k], "pending", n, C)
<1> DEFINE E == Emitted(P)
<1>1. rows[k] \in Row(SUBSET Norms)
  BY DEF TypeOK
<1>2. CASE \E C \in E : Anchor(C) = k
  <2> DEFINE C == CHOOSE D \in E : Anchor(D) = k
  <2>1. C \in E /\ C \in Clusters[P] /\ C \in SUBSET Norms
    BY <1>2, EmittedType
  <2>2. count[C] \in Nat
    BY <2>1
  <2>3. Upserts(E, count)[k] = Upserted(rows[k], "pending", count[C], C)
    BY <1>2 DEF Upserts
  <2>4. Upserted(rows[k], "pending", count[C], C) \in Row(SUBSET Norms)
    BY <1>1, <2>1, <2>2, UpsertedRow
  <2> QED BY <1>2, <2>1, <2>2, <2>3, <2>4
<1>3. CASE ~\E C \in E : Anchor(C) = k
  <2>1. Upserts(E, count)[k] = rows[k]
    BY <1>3 DEF Upserts
  <2> QED BY <1>1, <2>1
<1> QED BY <1>2, <1>3

\* What a row has become, for a scan with or without its pruning: a relation
\* between the row before (old) and after (out).
Rescanned(old, out) ==
  /\ out \in Row(SUBSET Norms)
  /\ \/ out = old
     \/ out = Absent /\ old.status \in {"pending", "new"}
     \/ old.status = "absent" /\ out.status = "pending" /\ out.attempts = 0
     \/ /\ old.status \notin {"absent", "resolved"}
        /\ out.status = old.status /\ out.attempts = old.attempts
     \/ old.status = "resolved" /\ out.status = "resolved" /\ out.base = old.base
     \/ /\ old.status = "resolved" /\ out.status = "new"
        /\ old.base # Unset /\ out.n > old.base

LEMMA UpsertsRescan ==
  ASSUME TypeOK, NEW P \in SUBSET Norms, NEW count \in [Clusters[P] -> 1 .. MaxCount],
         NEW k \in Norms
  PROVE  /\ Rescanned(rows[k], Upserts(Emitted(P), count)[k])
         /\ Upserts(Emitted(P), count)[k] # rows[k] => \E C \in Emitted(P) : Anchor(C) = k
<1> DEFINE up == Upserts(Emitted(P), count)[k]
<1>1. rows[k] \in Row(SUBSET Norms)
  BY DEF TypeOK
<1>2. up \in Row(SUBSET Norms)
  BY UpsertsRow
<1>3. CASE up = rows[k]
  BY <1>2, <1>3 DEF Rescanned
<1>4. CASE /\ \E C \in Emitted(P) : Anchor(C) = k
           /\ \E C \in SUBSET Norms, n \in Nat : up = Upserted(rows[k], "pending", n, C)
  <2>1. PICK C \in SUBSET Norms, n \in Nat : up = Upserted(rows[k], "pending", n, C)
    BY <1>4
  <2>2. /\ up.n = n
        /\ rows[k].status = "absent" => up.status = "pending" /\ up.attempts = 0
        /\ rows[k].status \notin {"absent", "resolved"} =>
             up.status = rows[k].status /\ up.attempts = rows[k].attempts
        /\ rows[k].status = "resolved" =>
             \/ up.status = "resolved" /\ up.base = rows[k].base
             \/ up.status = "new" /\ rows[k].base # Unset /\ n > rows[k].base
    BY <1>1, <2>1, UpsertedRow
  <2> QED BY <1>2, <1>4, <2>2 DEF Rescanned
<1> QED BY <1>3, <1>4, UpsertsRow

LEMMA PrunedRescan ==
  ASSUME TypeOK, NEW P \in SUBSET Norms, NEW count \in [Clusters[P] -> 1 .. MaxCount],
         NEW k \in Norms
  PROVE  Rescanned(rows[k], Pruned(Upserts(Emitted(P), count), Emitted(P))[k])
<1> DEFINE up == Upserts(Emitted(P), count)
           out == Pruned(up, Emitted(P))[k]
<1>1. Rescanned(rows[k], up[k])
  BY UpsertsRescan
<1>2. CASE out = up[k]
  BY <1>1, <1>2
<1>3. CASE out # up[k]
  <2>1. /\ out = Absent
        /\ up[k].status \in {"new", "pending"}
        /\ ~\E C \in Emitted(P) : Anchor(C) = k
    BY <1>3 DEF Pruned
  <2>2. up[k] = rows[k]
    BY <2>1, UpsertsRescan
  <2> QED BY <2>1, <2>2, AbsentRow DEF Rescanned
<1> QED BY <1>2, <1>3

-----------------------------------------------------------------------------
(* The inductive invariant.                                                *)

LEMMA PatternsBegin == Init => PatternInv
<1> SUFFICES ASSUME Init PROVE PatternInv
  OBVIOUS
<1>1. \A k \in Norms : rows[k] \in Row(SUBSET Norms)
  BY AbsentRow, AttemptsAssumption DEF Init, Inserted, Row, Status, Unset
<1>2. TypeOK
  BY <1>1, NothingAsked, PatternAssumption DEF Init, TypeOK
<1>3. \A k \in Norms : rows[k].status \in {"absent", "resolved"}
                       /\ (rows[k].status = "resolved" => k \in Legacy /\ rows[k].base = Unset)
  BY DEF Init, Inserted, Absent, Unset
<1> QED BY <1>2, <1>3 DEF Init, PatternInv, PendingCanBeTaken, ShownWasApproved, OnlyPendingAsked,
                          BaselineIsAccepted

\* A scan, pruned or not, leaves the conjuncts that speak of rows intact.
LEMMA RescanKeeps ==
  ASSUME PatternInv, phase = "idle", rows' \in [Norms -> Row(SUBSET Norms)],
         \A k \in Norms : Rescanned(rows[k], rows'[k]),
         approved' \in {approved, approved \ Gone(rows')},
         phase' \in {"idle", "scanned"}, UNCHANGED <<asked, accepted, silenced>>
  PROVE  PatternInv'
<1>1. TypeOK'
  BY DEF PatternInv, TypeOK
<1>2. PendingCanBeTaken'
  <2> SUFFICES ASSUME NEW k \in Norms, rows'[k].status = "pending"
               PROVE  Judgeable(rows'[k])
    BY DEF PendingCanBeTaken
  <2>1. rows[k].status = "pending" => rows[k].attempts < MaxAttempts
    BY DEF PatternInv, PendingCanBeTaken, Judgeable
  <2> QED BY <2>1, AbsentRow, AttemptsAssumption DEF Rescanned, Judgeable
<1>3. ShownWasApproved'
  <2> SUFFICES ASSUME NEW k \in Norms, rows'[k].status \in {"new", "resolved", "dismissed"}
               PROVE  k \in approved'
    BY DEF ShownWasApproved
  <2>1. rows[k].status \in {"new", "resolved", "dismissed"}
    BY AbsentRow DEF Rescanned
  <2>2. k \in approved
    BY <2>1 DEF PatternInv, ShownWasApproved
  <2> QED BY <2>2 DEF Gone
<1>4. OnlyPendingAsked'
  BY DEF PatternInv, OnlyPendingAsked, TypeOK
<1>5. BaselineIsAccepted'
  <2> SUFFICES ASSUME NEW k \in Norms, rows'[k].status = "resolved", rows'[k].base # Unset
               PROVE  rows'[k].base = accepted'[k]
    BY DEF BaselineIsAccepted
  <2>1. rows[k].status = "resolved" /\ rows'[k].base = rows[k].base
    BY AbsentRow DEF Rescanned
  <2> QED BY <2>1 DEF PatternInv, BaselineIsAccepted
<1> QED BY <1>1, <1>2, <1>3, <1>4, <1>5 DEF PatternInv

LEMMA ScanKeeps ==
  ASSUME PatternInv, NEW P \in SUBSET Norms, NEW count \in [Clusters[P] -> 1 .. MaxCount],
         Scan(P, count) \/ ScanCut(P, count)
  PROVE  PatternInv' /\ \A k \in Norms : Rescanned(rows[k], rows'[k])
<1>1. TypeOK
  BY DEF PatternInv
<1>2. CASE Scan(P, count)
  <2>1. rows' = Pruned(Upserts(Emitted(P), count), Emitted(P))
    BY <1>2 DEF Scan
  <2>2. \A k \in Norms : Rescanned(rows[k], rows'[k])
    BY <1>1, <2>1, PrunedRescan
  <2>3. rows' \in [Norms -> Row(SUBSET Norms)]
    BY <2>1, <2>2 DEF Pruned, Rescanned
  <2> QED BY <1>2, <2>2, <2>3, RescanKeeps DEF Scan
<1>3. CASE ScanCut(P, count)
  <2>1. rows' = Upserts(Emitted(P), count)
    BY <1>3 DEF ScanCut
  <2>2. \A k \in Norms : Rescanned(rows[k], rows'[k])
    BY <1>1, <2>1, UpsertsRescan
  <2>3. rows' \in [Norms -> Row(SUBSET Norms)]
    BY <2>1, <2>2 DEF Upserts, Rescanned
  <2> QED BY <1>3, <2>2, <2>3, RescanKeeps DEF ScanCut, history
<1> QED BY <1>2, <1>3

LEMMA TakeKeeps ==
  ASSUME PatternInv, NEW B \in SUBSET Norms, NEW F \in SUBSET B, TakeBatch(B, F)
  PROVE  /\ PatternInv'
         /\ \A k \in Norms : rows'[k] # rows[k] => rows[k].status = "pending"
<1>1. \A k \in B : rows[k].status = "pending" /\ rows[k].attempts \in 0 .. MaxAttempts - 1
  BY AttemptsAssumption DEF TakeBatch, Batches, Judgeable, PatternInv, TypeOK, Row
<1>2. \A k \in Norms : rows[k] \in Row(SUBSET Norms)
  BY DEF PatternInv, TypeOK
<1>3. \A k \in F : /\ rows'[k] = Judged(rows[k], "malformed", rows[k].attempts + 1)
                   /\ rows[k].attempts + 1 \in 1 .. MaxAttempts
  BY <1>1, AttemptsAssumption DEF TakeBatch, Judged
<1>4. \A k \in F : /\ rows'[k] \in Row(SUBSET Norms)
                   /\ rows'[k].status \in {"pending", "rejected"}
                   /\ rows'[k].status = "pending" => rows'[k].attempts < MaxAttempts
  <2> SUFFICES ASSUME NEW k \in F
               PROVE  /\ rows'[k] \in Row(SUBSET Norms)
                      /\ rows'[k].status \in {"pending", "rejected"}
                      /\ rows'[k].status = "pending" => rows'[k].attempts < MaxAttempts
    OBVIOUS
  <2>1. rows[k] \in Row(SUBSET Norms) /\ rows[k].status = "pending"
    BY <1>1, <1>2
  <2>2. rows[k].attempts + 1 \in 1 .. MaxAttempts
    BY <1>3
  <2> DEFINE out == Judged(rows[k], "malformed", rows[k].attempts + 1)
  <2>3. /\ out \in Row(SUBSET Norms)
        /\ out.status \in {"pending", "new", "rejected"}
        /\ out.status = "pending" => out.attempts < MaxAttempts
        /\ out.status # "new"
    BY <2>1, <2>2, JudgedRow
  <2> QED BY <1>3, <2>3
<1>5. \A k \in Norms \ F : rows'[k] = rows[k]
  BY DEF TakeBatch
<1>6. TypeOK'
  <2>1. rows' \in [Norms -> Row(SUBSET Norms)]
    BY <1>2, <1>4, <1>5 DEF TakeBatch
  <2>2. asked' \in [Norms -> 0 .. MaxAttempts]
    BY <1>1, AttemptsAssumption DEF TakeBatch
  <2> QED BY <2>1, <2>2 DEF TakeBatch, PatternInv, TypeOK, history
<1>7. PendingCanBeTaken'
  BY <1>4, <1>5 DEF PatternInv, PendingCanBeTaken, Judgeable
<1>8. ShownWasApproved' /\ BaselineIsAccepted'
  BY <1>4, <1>5 DEF PatternInv, ShownWasApproved, BaselineIsAccepted, TakeBatch, history
<1>9. OnlyPendingAsked'
  BY <1>1, <1>5 DEF TakeBatch, OnlyPendingAsked
<1> QED BY <1>1, <1>5, <1>6, <1>7, <1>8, <1>9 DEF PatternInv

LEMMA StoreKeeps ==
  ASSUME PatternInv, NEW answer \in [Out -> Answer], StoreVerdicts(answer)
  PROVE  /\ PatternInv'
         /\ \A k \in Norms : rows'[k] # rows[k] => rows[k].status = "pending"
<1> DEFINE J == {k \in Out : answer[k] # "lost"}
<1>1. \A k \in Norms : rows[k] \in Row(SUBSET Norms)
  BY DEF PatternInv, TypeOK
<1>2. \A k \in J : /\ rows[k].status = "pending"
                   /\ answer[k] \in {"new", "rejected", "malformed"}
                   /\ asked[k] \in 1 .. MaxAttempts
                   /\ rows'[k] = Judged(rows[k], answer[k], asked[k])
  BY AttemptsAssumption DEF Out, Answer, StoreVerdicts, Stored, PatternInv, OnlyPendingAsked, TypeOK
<1>3. \A k \in J : /\ rows'[k] \in Row(SUBSET Norms)
                   /\ rows'[k].status \in {"pending", "new", "rejected"}
                   /\ rows'[k].status = "pending" => rows'[k].attempts < MaxAttempts
                   /\ rows'[k].status = "new" => k \in approved'
  <2> SUFFICES ASSUME NEW k \in J
               PROVE  /\ rows'[k] \in Row(SUBSET Norms)
                      /\ rows'[k].status \in {"pending", "new", "rejected"}
                      /\ rows'[k].status = "pending" => rows'[k].attempts < MaxAttempts
                      /\ rows'[k].status = "new" => k \in approved'
    OBVIOUS
  <2>1. k \in Norms /\ k \in Out
    BY DEF Out
  <2>2. rows[k] \in Row(SUBSET Norms) /\ rows[k].status = "pending"
    BY <1>1, <1>2, <2>1
  <2> DEFINE out == Judged(rows[k], answer[k], asked[k])
  <2>3. /\ out \in Row(SUBSET Norms)
        /\ out.status \in {"pending", "new", "rejected"}
        /\ out.status = "pending" => out.attempts < MaxAttempts
    BY <1>2, <2>2, JudgedRow
  <2> QED BY <1>2, <2>1, <2>3 DEF StoreVerdicts
<1>4. \A k \in Norms \ J : rows'[k] = rows[k]
  BY DEF StoreVerdicts, Stored
<1>5. approved \subseteq approved' /\ approved' \subseteq Norms
  BY DEF StoreVerdicts, Out, PatternInv, TypeOK
<1>6. TypeOK'
  <2>1. rows' \in [Norms -> Row(SUBSET Norms)]
    BY <1>1, <1>3, <1>4 DEF StoreVerdicts, Stored
  <2> QED BY <1>5, <2>1, NothingAsked DEF StoreVerdicts, PatternInv, TypeOK
<1>7. PendingCanBeTaken'
  BY <1>3, <1>4 DEF PatternInv, PendingCanBeTaken, Judgeable
<1>8. ShownWasApproved'
  BY <1>3, <1>4, <1>5 DEF PatternInv, ShownWasApproved
<1>9. BaselineIsAccepted'
  BY <1>3, <1>4 DEF PatternInv, BaselineIsAccepted, StoreVerdicts
<1>10. OnlyPendingAsked'
  BY DEF StoreVerdicts, OnlyPendingAsked
<1> QED BY <1>2, <1>4, <1>6, <1>7, <1>8, <1>9, <1>10 DEF PatternInv

\* The user's two commands, as one: row k, which is shown, gets a new status.
LEMMA UserKeeps ==
  ASSUME PatternInv, NEW k \in Norms, NEW status \in {"new", "resolved", "dismissed"},
         rows[k].status \in {"new", "resolved", "dismissed"},
         rows' = [rows EXCEPT ![k] = Disposed(@, status)],
         accepted' = [accepted EXCEPT ![k] = IF status = "resolved" THEN rows[k].n ELSE 0],
         silenced' \in [Norms -> SUBSET Norms],
         UNCHANGED <<phase, asked, approved>>
  PROVE  PatternInv'
<1>1. rows[k] \in Row(SUBSET Norms)
  BY DEF PatternInv, TypeOK
<1>2. /\ Disposed(rows[k], status) \in Row(SUBSET Norms)
      /\ Disposed(rows[k], status).status = status
      /\ Disposed(rows[k], status).base = IF status = "resolved" THEN rows[k].n ELSE Unset
  BY <1>1 DEF Disposed, Row, Status, Unset
<1>3. rows'[k] = Disposed(rows[k], status) /\ \A i \in Norms \ {k} : rows'[i] = rows[i]
  BY DEF PatternInv, TypeOK
<1>4. rows[k].n \in Nat
  BY <1>1 DEF Row
<1>5. TypeOK'
  BY <1>2, <1>4 DEF PatternInv, TypeOK
<1>6. PendingCanBeTaken' /\ ShownWasApproved' /\ OnlyPendingAsked'
  BY <1>2, <1>3 DEF PatternInv, PendingCanBeTaken, ShownWasApproved, OnlyPendingAsked, Judgeable, TypeOK
<1>7. BaselineIsAccepted'
  BY <1>2, <1>3 DEF PatternInv, BaselineIsAccepted, TypeOK
<1> QED BY <1>5, <1>6, <1>7 DEF PatternInv

LEMMA DisposeKeeps ==
  ASSUME PatternInv, NEW k \in Norms, NEW status \in {"resolved", "dismissed"}, Dispose(k, status)
  PROVE  PatternInv' /\ \A i \in Norms : rows'[i] # rows[i] => rows[i].status = "new"
<1>1. rows[k].about \in SUBSET Norms
  BY DEF PatternInv, TypeOK, Row
<1>2. silenced' \in [Norms -> SUBSET Norms]
  BY <1>1 DEF Dispose, PatternInv, TypeOK
<1>3. PatternInv'
  BY <1>2, UserKeeps DEF Dispose
<1> QED BY <1>3 DEF Dispose, PatternInv, TypeOK

LEMMA UndoKeeps ==
  ASSUME PatternInv, NEW k \in Norms, Undo(k)
  PROVE  PatternInv' /\ \A i \in Norms \ {k} : rows'[i] = rows[i]
<1>1. silenced' \in [Norms -> SUBSET Norms]
  BY DEF Undo, PatternInv, TypeOK
<1>2. PatternInv'
  BY <1>1, UserKeeps DEF Undo
<1> QED BY <1>2 DEF Undo, PatternInv, TypeOK

\* Every step keeps the invariant; a row that changes does so in one of four
\* ways: rescanned, judged while pending, disposed of while new, or undone.
LEMMA PatternsKeep ==
  ASSUME PatternInv, [Next]_vars
  PROVE  /\ PatternInv'
         /\ \A k \in Norms :
              \/ Rescanned(rows[k], rows'[k])
              \/ rows'[k] # rows[k] /\ rows[k].status \in {"pending", "new"}
              \/ Undo(k)
<1>0. ASSUME NEW k \in Norms, rows'[k] = rows[k]
      PROVE  Rescanned(rows[k], rows'[k])
  BY <1>0 DEF PatternInv, TypeOK, Rescanned
<1>1. CASE Scans \/ \E P \in SUBSET Norms : \E count \in [Clusters[P] -> 1 .. MaxCount] : ScanCut(P, count)
  BY <1>1, ScanKeeps DEF Scans
<1>2. CASE Takes
  BY <1>0, <1>2, TakeKeeps DEF Takes
<1>3. CASE \E answer \in [Out -> Answer] : StoreVerdicts(answer)
  BY <1>0, <1>3, StoreKeeps
<1>4. CASE PassDropped
  <2>1. UNCHANGED <<rows, history>> /\ asked' = [k \in Norms |-> 0] /\ phase' = "idle"
    BY <1>4 DEF PassDropped
  <2>2. TypeOK'
    BY <2>1, NothingAsked DEF history, PatternInv, TypeOK
  <2>3. PendingCanBeTaken' /\ ShownWasApproved' /\ OnlyPendingAsked' /\ BaselineIsAccepted'
    BY <2>1 DEF history, PatternInv, PendingCanBeTaken, ShownWasApproved, OnlyPendingAsked,
                BaselineIsAccepted
  <2> QED BY <1>0, <2>1, <2>2, <2>3 DEF PatternInv
<1>5. CASE \E k \in Norms : \E status \in {"resolved", "dismissed"} : Dispose(k, status)
  BY <1>0, <1>5, DisposeKeeps
<1>6. CASE \E k \in Norms : Undo(k)
  BY <1>0, <1>6, UndoKeeps
<1>7. CASE UNCHANGED vars
  BY <1>0, <1>7 DEF vars, history, PatternInv, TypeOK, PendingCanBeTaken, ShownWasApproved,
                    OnlyPendingAsked, BaselineIsAccepted
<1> QED BY <1>1, <1>2, <1>3, <1>4, <1>5, <1>6, <1>7 DEF Next

LEMMA PatternInvariant == Spec => []PatternInv
BY PatternsBegin, PatternsKeep, PTL DEF Spec

-----------------------------------------------------------------------------
(* The theorems.                                                           *)

\* Every variable keeps its type.
THEOREM PatternsTyped == Spec => []TypeOK
BY PatternInvariant, PTL DEF PatternInv

\* No candidate is left pending with its attempts used up.
THEOREM CandidatesCanBeTaken == Spec => []PendingCanBeTaken
BY PatternInvariant, PTL DEF PatternInv

\* Nothing is shown that the judge has not approved.
THEOREM CardsAreApproved == Spec => []ShownWasApproved
BY PatternInvariant, PTL DEF PatternInv

\* A rejection is remembered through any sequence of scans and passes.
THEOREM RejectionIsFinal == Spec => RejectedForGood
<1>1. ASSUME PatternInv, [Next]_vars
      PROVE  [\A k \in Norms : rows[k].status = "rejected" => rows'[k].status = "rejected"]_vars
  <2> SUFFICES ASSUME NEW k \in Norms, rows[k].status = "rejected"
               PROVE  rows'[k].status = "rejected"
    OBVIOUS
  <2>1. ~Undo(k)
    BY DEF Undo
  <2>2. Rescanned(rows[k], rows'[k])
    BY <1>1, <2>1, PatternsKeep
  <2> QED BY <2>2 DEF Rescanned
<1> QED BY <1>1, PatternInvariant, PTL DEF Spec, RejectedForGood

\* Only the user's undo ends a dismissal.
THEOREM DismissalHolds == Spec => DismissedUntilUndone
<1>1. ASSUME PatternInv, [Next]_vars
      PROVE  [\A k \in Norms : rows[k].status = "dismissed" =>
                rows'[k].status = "dismissed" \/ Undo(k)]_vars
  <2> SUFFICES ASSUME NEW k \in Norms, rows[k].status = "dismissed", ~Undo(k)
               PROVE  rows'[k].status = "dismissed"
    OBVIOUS
  <2>1. Rescanned(rows[k], rows'[k])
    BY <1>1, PatternsKeep
  <2> QED BY <2>1 DEF Rescanned
<1> QED BY <1>1, PatternInvariant, PTL DEF Spec, DismissedUntilUndone

\* A resolved card returns by undo or by exceeding what it showed.
THEOREM RecurrenceNeedsMore == Spec => ResolvedUntilMore
<1>1. ASSUME PatternInv, [Next]_vars
      PROVE  [\A k \in Norms : rows[k].status = "resolved" =>
                \/ rows'[k].status = "resolved"
                \/ Undo(k)
                \/ rows[k].base # Unset /\ rows'[k].n > accepted[k]]_vars
  <2> SUFFICES ASSUME NEW k \in Norms, rows[k].status = "resolved", ~Undo(k),
                      rows'[k].status # "resolved"
               PROVE  rows[k].base # Unset /\ rows'[k].n > accepted[k]
    OBVIOUS
  <2>1. Rescanned(rows[k], rows'[k])
    BY <1>1, PatternsKeep
  <2>2. rows[k].base # Unset /\ rows'[k].n > rows[k].base
    BY <2>1, AbsentRow DEF Rescanned
  <2> QED BY <1>1, <2>2 DEF PatternInv, BaselineIsAccepted
<1> QED BY <1>1, PatternInvariant, PTL DEF Spec, ResolvedUntilMore

\* What judge and user decided holds: the three above.
THEOREM DecisionsKept == Spec => DecisionsHold
  BY RejectionIsFinal, DismissalHolds, RecurrenceNeedsMore DEF DecisionsHold

-----------------------------------------------------------------------------
(* The pages of the work hub, for any number of pages, spaces and requests. *)

InFlight(c) == req[c].op # "none"

\* q can be linked from p.
Good(p, q) == q # p /\ Exists(q) /\ SpaceOf[q] = SpaceOf[p]

\* Stored links are good, and a page that is not stored links to nothing.
LinksOK ==
  \A p \in Pages :
    /\ Exists(p) => \A q \in {pages[p].parent, pages[p].superseded_by} \ {Root} : Good(p, q)
    /\ ~Exists(p) => pages[p].parent = Root

\* Requests hold rows whose links are good; the other page is, once checked.
ReqLinksOK ==
  \A c \in Clients : InFlight(c) =>
    LET r == req[c]
    IN  /\ r.page \in Pages
        /\ r.row.status # "absent"
        /\ r.row.superseded_by # Root => Good(r.page, r.row.superseded_by)
        /\ r.op # "create_page" /\ r.row.parent # Root => Good(r.page, r.row.parent)
        /\ r.op = "create_page" => r.row.parent = r.other
        /\ r.op = "supersede_page" => r.other \in Pages
        /\ r.other # Root /\ r.op # "create_page" => r.other # r.page
        /\ r.other # Root /\ r.stage # "check" => Good(r.page, r.other)
        /\ r.stage # "save" => r.other # Root

\* A page under creation is not stored, and no other request knows it.
CreatesAlone ==
  \A c \in Clients : InFlight(c) =>
    IF req[c].op = "create_page"
      THEN /\ ~Exists(req[c].page)
           /\ \A d \in Clients \ {c} : InFlight(d) => req[d].page # req[c].page
      ELSE Exists(req[c].page)

Linked == LinksOK /\ ReqLinksOK /\ CreatesAlone

\* A request on a page nobody raced for is alone there, and holds the stored row.
Fresh ==
  \A c \in Clients : InFlight(c) /\ req[c].page \notin raced =>
    /\ \A d \in Clients \ {c} : InFlight(d) => req[d].page # req[c].page
    /\ req[c].op # "create_page" => req[c].row = pages[req[c].page]

OneMove ==
  ~movesRaced =>
    \A c, d \in Clients : req[c].op = "move_page" /\ req[d].op = "move_page" => c = d

\* The pages the cycle check has seen, but for the one that moves, form a
\* chain of parents up to the page it reads next.
Climbing(r) ==
  /\ r.page \in r.seen /\ r.other \in r.seen
  /\ r.stage = "save" => r.up = Root
  /\ r.up # Root => Exists(r.up)
  /\ \A x \in r.seen \ {r.page} :
       Exists(x) /\ pages[x].parent \in (r.seen \ {r.page}) \cup {r.up}

WalkOK ==
  raced = {} /\ ~movesRaced =>
    \A c \in Clients :
      req[c].op = "move_page" /\ req[c].stage # "check" /\ req[c].other # Root
        => Climbing(req[c])

IInv == PagesTypeOK /\ Linked /\ Fresh /\ OneMove /\ WalkOK /\ AcyclicUnlessRaced

-----------------------------------------------------------------------------
(* How a step looks: a request starts, or one in flight goes on.           *)

Ops == {"create_page", "move_page", "edit_page", "archive_page", "quarantine_page",
        "supersede_page"}

Startable(op, p, row, other) ==
  IF op = "create_page"
    THEN /\ ~Exists(p) /\ ~Busy(p)
         /\ row = [NoRow EXCEPT !.status = "active", !.parent = other]
    ELSE /\ Exists(p)
         /\ row = pages[p]
         /\ other # p
         /\ op = "supersede_page" => other \in Pages

Start(c, op, p, row, other) ==
  Begin(c, op, p, row, other) /\ Startable(op, p, row, other)

Goes(c) == CheckOther(c) \/ WalkUp(c) \/ Dropped(c)

\* A step starts a request, moves one on without touching pages, or saves.
LEMMA StepCases ==
  ASSUME PagesTypeOK, PagesNext
  PROVE  \E c \in Clients :
           \/ \E op \in Ops, p \in Pages, row \in PageRow, other \in Pages \cup {Root} :
                Start(c, op, p, row, other)
           \/ Goes(c)
           \/ Save(c)
<1>1. PICK c \in Clients :
        \/ \E p \in Pages :
             \/ \E q \in Pages \cup {Root} : CreatePage(c, p, q) \/ MovePage(c, p, q)
             \/ \E q \in Pages : SupersedePage(c, p, q)
             \/ EditPage(c, p) \/ ArchivePage(c, p) \/ QuarantinePage(c, p)
        \/ CheckOther(c) \/ WalkUp(c) \/ Save(c) \/ Dropped(c)
  BY DEF PagesNext
<1>2. CASE \E p \in Pages, q \in Pages \cup {Root} : CreatePage(c, p, q)
  <2>1. PICK p \in Pages, q \in Pages \cup {Root} : CreatePage(c, p, q)
    BY <1>2
  <2>2. [NoRow EXCEPT !.status = "active", !.parent = q] \in PageRow
    BY DEF NoRow, PageRow, PageStatus
  <2>3. Start(c, "create_page", p, [NoRow EXCEPT !.status = "active", !.parent = q], q)
    BY <2>1 DEF Start, Startable, CreatePage
  <2> QED
    BY <2>2, <2>3 DEF Ops
<1>3. CASE \E p \in Pages, q \in Pages \cup {Root} : MovePage(c, p, q)
  <2>1. PICK p \in Pages, q \in Pages \cup {Root} : MovePage(c, p, q)
    BY <1>3
  <2>2. Start(c, "move_page", p, pages[p], q) /\ pages[p] \in PageRow
    BY <2>1 DEF Start, Startable, MovePage, PagesTypeOK
  <2> QED
    BY <2>2 DEF Ops
<1>4. CASE \E p \in Pages, q \in Pages : SupersedePage(c, p, q)
  <2>1. PICK p \in Pages, q \in Pages : SupersedePage(c, p, q)
    BY <1>4
  <2>2. Start(c, "supersede_page", p, pages[p], q) /\ pages[p] \in PageRow
    BY <2>1 DEF Start, Startable, SupersedePage, PagesTypeOK
  <2> QED
    BY <2>2 DEF Ops
<1>5. CASE \E p \in Pages : EditPage(c, p) \/ ArchivePage(c, p) \/ QuarantinePage(c, p)
  <2>1. PICK p \in Pages : EditPage(c, p) \/ ArchivePage(c, p) \/ QuarantinePage(c, p)
    BY <1>5
  <2>2. Root # p
    BY PagesAssumption
  <2>3. PICK op \in {"edit_page", "archive_page", "quarantine_page"} :
          Start(c, op, p, pages[p], Root)
    BY <2>1, <2>2 DEF Start, Startable, EditPage, ArchivePage, QuarantinePage
  <2>4. pages[p] \in PageRow
    BY DEF PagesTypeOK
  <2> QED
    BY <2>3, <2>4 DEF Ops
<1> QED
  BY <1>1, <1>2, <1>3, <1>4, <1>5 DEF Goes

-----------------------------------------------------------------------------
(* Types.                                                                  *)

LEMMA InitType == PagesInit => PagesTypeOK
<1> SUFFICES ASSUME PagesInit PROVE PagesTypeOK
  OBVIOUS
<1>1. NoRow \in PageRow
  BY DEF NoRow, PageRow, PageStatus
<1>2. Idle \in Request
  BY <1>1 DEF Idle, Request
<1>3. begun \in 0 .. MaxRequests
  BY PagesAssumption DEF PagesInit
<1>4. pages \in [Pages -> PageRow] /\ req \in [Clients -> Request]
  BY <1>1, <1>2 DEF PagesInit
<1>5. raced \subseteq Pages /\ movesRaced \in BOOLEAN
  BY DEF PagesInit
<1> QED
  BY <1>3, <1>4, <1>5 DEF PagesTypeOK

\* What a request saves is a row.
LEMMA ResultType ==
  ASSUME NEW r \in Request, r.op # "none",
         r.op = "supersede_page" => r.other \in Pages
  PROVE  Result(r) \in PageRow
BY DEF Request, PageRow, PageStatus, Result, Edited, Superseded

LEMMA TypeStep ==
  ASSUME PagesTypeOK, ReqLinksOK, [PagesNext]_pageVars
  PROVE  PagesTypeOK'
<1>1. CASE UNCHANGED pageVars
  BY <1>1 DEF pageVars, PagesTypeOK
<1>2. CASE PagesNext
  <2>1. PICK c \in Clients :
           \/ \E op \in Ops, p \in Pages, row \in PageRow, other \in Pages \cup {Root} :
                Start(c, op, p, row, other)
           \/ Goes(c)
           \/ Save(c)
    BY <1>2, StepCases
  <2>2. CASE \E op \in Ops, p \in Pages, row \in PageRow, other \in Pages \cup {Root} :
               Start(c, op, p, row, other)
    <3>1. PICK op \in Ops, p \in Pages, row \in PageRow, other \in Pages \cup {Root} :
            Start(c, op, p, row, other)
      BY <2>2
    <3>2. [op |-> op, stage |-> IF other = Root THEN "save" ELSE "check",
           page |-> p, row |-> row, other |-> other, up |-> Root, seen |-> {}] \in Request
      BY DEF Request, Ops
    <3>3. begun' \in 0 .. MaxRequests
      BY <3>1, PagesAssumption DEF Start, Begin, PagesTypeOK
    <3>4. raced' \subseteq Pages /\ movesRaced' \in BOOLEAN
      BY <3>1 DEF Start, Begin, PagesTypeOK
    <3> QED
      BY <3>1, <3>2, <3>3, <3>4 DEF Start, Begin, PagesTypeOK
  <2>3. CASE Goes(c)
    <3>1. Idle \in Request
      BY DEF Idle, Request, NoRow, PageRow, PageStatus
    <3>2. req[c] \in Request /\ req \in [Clients -> Request]
      BY DEF PagesTypeOK
    <3>3. UNCHANGED <<pages, begun, raced, movesRaced>>
      BY <2>3 DEF Goes, CheckOther, WalkUp, Dropped
    <3>4. CASE CheckOther(c)
      <4>1. req[c].other \in Pages /\ req[c].page \in Pages
        BY <3>2, <3>4 DEF CheckOther, ReqLinksOK, InFlight, Request
      <4>2. pages[req[c].other].parent \in Pages \cup {Root}
        BY <4>1 DEF PagesTypeOK, PageRow
      <4>3. \/ req' = [req EXCEPT ![c] = Idle]
            \/ req' = [req EXCEPT ![c].stage = "save"]
            \/ req' = [req EXCEPT ![c].stage = "walk",
                                  ![c].up = pages[req[c].other].parent,
                                  ![c].seen = {req[c].page, req[c].other}]
        BY <3>4 DEF CheckOther, Rejected
      <4>4. [req[c] EXCEPT !.stage = "save"] \in Request
        BY <3>2 DEF Request
      <4>5. [req[c] EXCEPT !.stage = "walk", !.up = pages[req[c].other].parent,
                           !.seen = {req[c].page, req[c].other}] \in Request
        BY <3>2, <4>1, <4>2 DEF Request
      <4> QED
        BY <3>1, <3>2, <3>3, <4>3, <4>4, <4>5 DEF PagesTypeOK
    <3>5. CASE WalkUp(c)
      <4>1. CASE req[c].up = Root
        <5>1. [req[c] EXCEPT !.stage = "save"] \in Request
          BY <3>2 DEF Request
        <5> QED
          BY <3>2, <3>3, <3>5, <4>1, <5>1 DEF PagesTypeOK, WalkUp
      <4>2. CASE req[c].up # Root /\ req[c].up \in req[c].seen
        BY <3>1, <3>2, <3>3, <3>5, <4>2 DEF PagesTypeOK, WalkUp, Rejected
      <4>3. CASE req[c].up # Root /\ req[c].up \notin req[c].seen
        <5>1. req[c].up \in Pages
          BY <3>2, <4>3 DEF Request
        <5>2. pages[req[c].up].parent \in Pages \cup {Root}
          BY <5>1 DEF PagesTypeOK, PageRow
        <5>3. [req[c] EXCEPT !.up = pages[req[c].up].parent,
                             !.seen = req[c].seen \cup {req[c].up}] \in Request
          BY <3>2, <5>1, <5>2 DEF Request
        <5> QED
          BY <3>2, <3>3, <3>5, <4>3, <5>3 DEF PagesTypeOK, WalkUp
      <4> QED
        BY <4>1, <4>2, <4>3
    <3>6. CASE Dropped(c)
      BY <3>1, <3>2, <3>3, <3>6 DEF PagesTypeOK, Dropped, Rejected
    <3> QED
      BY <2>3, <3>4, <3>5, <3>6 DEF Goes
  <2>4. CASE Save(c)
    <3>1. Result(req[c]) \in PageRow
      BY <2>4, ResultType DEF Save, PagesTypeOK, ReqLinksOK, InFlight
    <3>2. Idle \in Request
      BY DEF Idle, Request, NoRow, PageRow, PageStatus
    <3> QED
      BY <2>4, <3>1, <3>2 DEF Save, PagesTypeOK
  <2> QED
    BY <2>1, <2>2, <2>3, <2>4
<1> QED
  BY <1>1, <1>2

-----------------------------------------------------------------------------
(* Links.                                                                  *)

LEMMA InitLinked == PagesInit => Linked
<1> SUFFICES ASSUME PagesInit PROVE Linked
  OBVIOUS
<1>1. LinksOK
  BY DEF PagesInit, LinksOK, NoRow, Exists
<1>2. \A c \in Clients : ~InFlight(c)
  BY DEF PagesInit, Idle, InFlight
<1> QED
  BY <1>1, <1>2 DEF Linked, ReqLinksOK, CreatesAlone

LEMMA StartLinked ==
  ASSUME PagesTypeOK, Linked,
         NEW c \in Clients, NEW op \in Ops, NEW p \in Pages, NEW row \in PageRow,
         NEW other \in Pages \cup {Root},
         Start(c, op, p, row, other)
  PROVE  Linked'
<1>0. Root \notin Pages
  BY PagesAssumption
<1>1. UNCHANGED pages
  BY DEF Start, Begin
<1>2. LinksOK'
  BY <1>1 DEF Linked, LinksOK, Exists, Good
<1>3. req'[c] = [op |-> op, stage |-> IF other = Root THEN "save" ELSE "check",
                 page |-> p, row |-> row, other |-> other, up |-> Root, seen |-> {}]
  BY DEF Start, Begin, PagesTypeOK
<1>4. \A d \in Clients \ {c} : req'[d] = req[d]
  BY DEF Start, Begin, PagesTypeOK
<1>5. op # "none"
  BY DEF Ops
<1>6. ReqLinksOK'
  <2> SUFFICES ASSUME NEW d \in Clients, InFlight(d)'
               PROVE  (/\ req[d].page \in Pages
                       /\ req[d].row.status # "absent"
                       /\ req[d].row.superseded_by # Root => Good(req[d].page, req[d].row.superseded_by)
                       /\ req[d].op # "create_page" /\ req[d].row.parent # Root
                            => Good(req[d].page, req[d].row.parent)
                       /\ req[d].op = "create_page" => req[d].row.parent = req[d].other
                       /\ req[d].op = "supersede_page" => req[d].other \in Pages
                       /\ req[d].other # Root /\ req[d].op # "create_page" => req[d].other # req[d].page
                       /\ req[d].other # Root /\ req[d].stage # "check" => Good(req[d].page, req[d].other)
                       /\ req[d].stage # "save" => req[d].other # Root)'
    BY DEF ReqLinksOK
  <2>1. CASE d # c
    BY <2>1, <1>1, <1>4 DEF Linked, ReqLinksOK, InFlight, Exists, Good
  <2>2. CASE d = c /\ op = "create_page"
    <3>1. row.status = "active" /\ row.superseded_by = Root /\ row.parent = other
      BY <2>2 DEF Start, Startable, NoRow
    <3>2. /\ req'[d].op = "create_page" /\ req'[d].page = p /\ req'[d].row = row
          /\ req'[d].other = other
          /\ req'[d].stage = IF other = Root THEN "save" ELSE "check"
      BY <2>2, <1>3
    <3> QED
      BY <3>1, <3>2
  <2>3. CASE d = c /\ op # "create_page"
    <3>1. row = pages[p] /\ Exists(p) /\ other # p /\ (op = "supersede_page" => other \in Pages)
      BY <2>3 DEF Start, Startable
    <3>2. \A q \in {pages[p].parent, pages[p].superseded_by} \ {Root} : Good(p, q)
      BY <3>1 DEF Linked, LinksOK
    <3> QED
      BY <2>3, <3>1, <3>2, <1>1, <1>3 DEF Exists, Good
  <2> QED
    BY <2>1, <2>2, <2>3
<1>7. CreatesAlone'
  <2>1. ASSUME op = "create_page"
        PROVE  ~Exists(p) /\ \A d \in Clients : InFlight(d) => req[d].page # p
    BY <2>1 DEF Start, Startable, Busy, InFlight
  <2>2. ASSUME op # "create_page"
        PROVE  Exists(p)
    BY <2>2 DEF Start, Startable
  <2> SUFFICES ASSUME NEW d \in Clients, InFlight(d)'
               PROVE  IF req'[d].op = "create_page"
                        THEN /\ ~Exists(req[d].page)'
                             /\ \A e \in Clients \ {d} : InFlight(e)' => req'[e].page # req'[d].page
                        ELSE Exists(req[d].page)'
    BY DEF CreatesAlone
  <2>3. CASE d = c
    BY <2>1, <2>2, <2>3, <1>1, <1>3, <1>4 DEF InFlight, Exists
  <2>4. CASE d # c
    <3>1. InFlight(d) /\ req'[d] = req[d]
      BY <2>4, <1>4 DEF InFlight
    <3>2. IF req[d].op = "create_page"
            THEN /\ ~Exists(req[d].page)
                 /\ \A e \in Clients \ {d} : InFlight(e) => req[e].page # req[d].page
            ELSE Exists(req[d].page)
      BY <3>1 DEF Linked, CreatesAlone
    <3>3. ASSUME req[d].op = "create_page"
          PROVE  req'[c].page # req[d].page
      <4>1. CASE op = "create_page"
        BY <4>1, <2>1, <3>1, <1>3
      <4>2. CASE op # "create_page"
        BY <4>2, <2>2, <3>2, <3>3, <1>3
      <4> QED
        BY <4>1, <4>2
    <3> QED
      BY <3>1, <3>2, <3>3, <1>1, <1>4 DEF InFlight, Exists
  <2> QED
    BY <2>3, <2>4
<1> QED
  BY <1>2, <1>6, <1>7 DEF Linked

\* What a check, a round of the walk or a drop does to requests: the one at
\* hand ends, or keeps its operation, page, row and other page.
LEMMA GoesShape ==
  ASSUME PagesTypeOK, NEW c \in Clients, Goes(c)
  PROVE  /\ UNCHANGED <<pages, raced, movesRaced>>
         /\ InFlight(c)
         /\ \A d \in Clients \ {c} : req'[d] = req[d]
         /\ \/ req'[c] = Idle
            \/ /\ req'[c].op = req[c].op /\ req'[c].page = req[c].page
               /\ req'[c].row = req[c].row /\ req'[c].other = req[c].other
               /\ req'[c].stage # "check"
               /\ req[c].stage = "check" => Acceptable(c)
               /\ req[c].stage # "save"
               /\ req'[c].stage = "walk" => req[c].op = "move_page"
<1>0. req \in [Clients -> Request] /\ req[c] \in Request
  BY DEF PagesTypeOK
<1>1. CASE CheckOther(c)
  <2>1. req[c].op # "none" /\ req[c].stage = "check"
    BY <1>1 DEF CheckOther
  <2>2. UNCHANGED <<pages, raced, movesRaced>>
    BY <1>1 DEF CheckOther
  <2>3. CASE ~Acceptable(c)
    BY <1>0, <1>1, <2>1, <2>2, <2>3 DEF CheckOther, Rejected, InFlight
  <2>4. CASE Acceptable(c) /\ req[c].op # "move_page"
    <3>1. req' = [req EXCEPT ![c] = [req[c] EXCEPT !.stage = "save"]]
      BY <1>1, <2>4 DEF CheckOther
    <3> QED
      BY <1>0, <2>1, <2>2, <2>4, <3>1 DEF InFlight, Request
  <2>5. CASE Acceptable(c) /\ req[c].op = "move_page"
    <3>1. req' = [req EXCEPT ![c] = [req[c] EXCEPT !.stage = "walk",
                    !.up = pages[req[c].other].parent, !.seen = {req[c].page, req[c].other}]]
      BY <1>1, <2>5 DEF CheckOther
    <3> QED
      BY <1>0, <2>1, <2>2, <2>5, <3>1 DEF InFlight, Request
  <2> QED
    BY <2>3, <2>4, <2>5
<1>2. CASE WalkUp(c)
  <2>1. req[c].op = "move_page" /\ req[c].stage = "walk"
    BY <1>2 DEF WalkUp
  <2>2. UNCHANGED <<pages, raced, movesRaced>>
    BY <1>2 DEF WalkUp
  <2>3. \/ req' = [req EXCEPT ![c] = Idle]
        \/ req' = [req EXCEPT ![c] = [req[c] EXCEPT !.stage = "save"]]
        \/ req' = [req EXCEPT ![c] = [req[c] EXCEPT !.up = pages[req[c].up].parent,
                                                 !.seen = req[c].seen \cup {req[c].up}]]
    BY <1>2 DEF WalkUp, Rejected
  <2> QED
    BY <1>0, <2>1, <2>2, <2>3 DEF InFlight, Request
<1>3. CASE Dropped(c)
  BY <1>3 DEF Dropped, Rejected, PagesTypeOK, InFlight
<1> QED
  BY <1>1, <1>2, <1>3 DEF Goes

LEMMA GoesLinked ==
  ASSUME PagesTypeOK, Linked, NEW c \in Clients, Goes(c)
  PROVE  Linked'
<1>1. /\ UNCHANGED pages
      /\ InFlight(c)
      /\ \A d \in Clients \ {c} : req'[d] = req[d]
      /\ \/ req'[c] = Idle
         \/ /\ req'[c].op = req[c].op /\ req'[c].page = req[c].page
            /\ req'[c].row = req[c].row /\ req'[c].other = req[c].other
            /\ req'[c].stage # "check"
            /\ req[c].stage = "check" => Acceptable(c)
            /\ req[c].stage # "save"
  BY GoesShape
<1>2. LinksOK'
  BY <1>1 DEF Linked, LinksOK, Exists, Good
<1>3. \A d \in Clients : InFlight(d)' =>
        InFlight(d) /\ req'[d].op = req[d].op /\ req'[d].page = req[d].page
  BY <1>1 DEF InFlight, Idle
<1>4. CreatesAlone'
  BY <1>1, <1>3 DEF Linked, CreatesAlone, InFlight, Exists
<1>5. ReqLinksOK'
  <2> SUFFICES ASSUME NEW d \in Clients, InFlight(d)'
               PROVE  (/\ req[d].page \in Pages
                       /\ req[d].row.status # "absent"
                       /\ req[d].row.superseded_by # Root => Good(req[d].page, req[d].row.superseded_by)
                       /\ req[d].op # "create_page" /\ req[d].row.parent # Root
                            => Good(req[d].page, req[d].row.parent)
                       /\ req[d].op = "create_page" => req[d].row.parent = req[d].other
                       /\ req[d].op = "supersede_page" => req[d].other \in Pages
                       /\ req[d].other # Root /\ req[d].op # "create_page" => req[d].other # req[d].page
                       /\ req[d].other # Root /\ req[d].stage # "check" => Good(req[d].page, req[d].other)
                       /\ req[d].stage # "save" => req[d].other # Root)'
    BY DEF ReqLinksOK
  <2>1. CASE d # c
    BY <2>1, <1>1 DEF Linked, ReqLinksOK, InFlight, Exists, Good
  <2>2. CASE d = c
    <3>1. req'[c] # Idle
      BY <2>2 DEF InFlight, Idle
    <3>2. Good(req[c].page, req[c].other)
      <4>1. CASE req[c].stage = "check"
        <5>1. Acceptable(c)
          BY <1>1, <3>1, <4>1
        <5>2. req[c].other # req[c].page
          <6>1. CASE req[c].op = "create_page"
            BY <5>1, <6>1, <1>1 DEF Linked, CreatesAlone, Acceptable
          <6>2. CASE req[c].op # "create_page"
            BY <4>1, <6>2, <1>1 DEF Linked, ReqLinksOK
          <6> QED
            BY <6>1, <6>2
        <5> QED
          BY <5>1, <5>2 DEF Acceptable, Good
      <4>2. CASE req[c].stage # "check"
        BY <4>2, <1>1, <3>1 DEF Linked, ReqLinksOK
      <4> QED
        BY <4>1, <4>2
    <3> QED
      BY <2>2, <3>1, <3>2, <1>1 DEF Linked, ReqLinksOK, Exists, Good
  <2> QED
    BY <2>1, <2>2
<1> QED
  BY <1>2, <1>4, <1>5 DEF Linked

-----------------------------------------------------------------------------
(* Saves.                                                                  *)

\* What a save does, without the CASE of Result.
LEMMA SaveShape ==
  ASSUME PagesTypeOK, Linked, NEW c \in Clients, Save(c)
  PROVE  /\ InFlight(c) /\ req[c].page \in Pages /\ req[c].stage = "save"
         /\ UNCHANGED <<raced, movesRaced>>
         /\ req'[c] = Idle
         /\ \A d \in Clients \ {c} : req'[d] = req[d]
         /\ \A p \in Pages \ {req[c].page} : pages'[p] = pages[p]
         /\ pages'[req[c].page].status # "absent"
         /\ pages'[req[c].page].superseded_by =
              IF req[c].op = "supersede_page" THEN req[c].other ELSE req[c].row.superseded_by
         /\ pages'[req[c].page].parent =
              IF req[c].op \in {"move_page", "create_page"} THEN req[c].other ELSE req[c].row.parent
<1>1. InFlight(c) /\ req[c].page \in Pages /\ req[c].stage = "save"
  BY DEF Save, Linked, ReqLinksOK, InFlight
<1>2. req[c] \in Request /\ req[c].op # "none"
  BY <1>1 DEF PagesTypeOK, InFlight
<1>3. pages'[req[c].page] = Result(req[c])
  BY <1>1 DEF Save, PagesTypeOK
<1>4. req[c].row \in PageRow /\ req[c].row.status # "absent"
  BY <1>1, <1>2 DEF Request, Linked, ReqLinksOK
<1>5. req[c].op = "create_page" => req[c].row.parent = req[c].other
  BY <1>1 DEF Linked, ReqLinksOK
<1>6. /\ Result(req[c]).status # "absent"
      /\ Result(req[c]).superseded_by =
              IF req[c].op = "supersede_page" THEN req[c].other ELSE req[c].row.superseded_by
      /\ Result(req[c]).parent =
              IF req[c].op \in {"move_page", "create_page"} THEN req[c].other ELSE req[c].row.parent
  <2>1. req[c].op \in Ops
    BY <1>2 DEF Request, Ops
  <2> QED
    BY <2>1, <1>4, <1>5 DEF Result, Edited, Superseded, PageRow, Ops
<1> QED
  BY <1>1, <1>3, <1>6 DEF Save, PagesTypeOK

LEMMA SaveLinked ==
  ASSUME PagesTypeOK, Linked, NEW c \in Clients, Save(c)
  PROVE  Linked'
<1> DEFINE r == req[c]
<1>0. Root \notin Pages
  BY PagesAssumption
<1>1. /\ InFlight(c) /\ r.page \in Pages /\ r.stage = "save"
      /\ req'[c] = Idle
      /\ \A d \in Clients \ {c} : req'[d] = req[d]
      /\ \A p \in Pages \ {r.page} : pages'[p] = pages[p]
      /\ pages'[r.page].status # "absent"
      /\ pages'[r.page].superseded_by =
           IF r.op = "supersede_page" THEN r.other ELSE r.row.superseded_by
      /\ pages'[r.page].parent =
           IF r.op \in {"move_page", "create_page"} THEN r.other ELSE r.row.parent
  BY SaveShape
<1>2. \A p \in Pages : Exists(p) => Exists(p)'
  BY <1>1 DEF Exists
<1>3. \A p \in Pages, q \in Pages : Good(p, q) => Good(p, q)'
  BY <1>2 DEF Good
<1>4. r \in Request /\ r.row \in PageRow
  BY <1>1 DEF PagesTypeOK, Request
<1>5. LinksOK'
  <2> SUFFICES ASSUME NEW p \in Pages
               PROVE  (/\ Exists(p) => \A q \in {pages[p].parent, pages[p].superseded_by} \ {Root} : Good(p, q)
                       /\ ~Exists(p) => pages[p].parent = Root)'
    BY DEF LinksOK
  <2>1. CASE p = r.page
    <3>1. r.row.superseded_by # Root => Good(p, r.row.superseded_by)
      BY <2>1, <1>1 DEF Linked, ReqLinksOK
    <3>2. r.op # "create_page" /\ r.row.parent # Root => Good(p, r.row.parent)
      BY <2>1, <1>1 DEF Linked, ReqLinksOK
    <3>3. r.other # Root => Good(p, r.other)
      BY <2>1, <1>1 DEF Linked, ReqLinksOK
    <3>4. r.row.superseded_by \in Pages \cup {Root} /\ r.row.parent \in Pages \cup {Root}
          /\ r.other \in Pages \cup {Root}
      BY <1>4 DEF Request, PageRow
    <3>5. pages'[p].superseded_by # Root => Good(p, pages'[p].superseded_by)
      BY <2>1, <1>1, <3>1, <3>3
    <3>6. pages'[p].parent # Root => Good(p, pages'[p].parent)
      BY <2>1, <1>1, <3>2, <3>3
    <3>7. pages'[p].superseded_by \in Pages \cup {Root} /\ pages'[p].parent \in Pages \cup {Root}
      BY <2>1, <1>1, <3>4
    <3> QED
      BY <2>1, <1>1, <1>3, <3>5, <3>6, <3>7 DEF Exists
  <2>2. CASE p # r.page
    <3>1. pages'[p] = pages[p] /\ pages[p] \in PageRow
      BY <2>2, <1>1 DEF PagesTypeOK
    <3>2. \A q \in {pages[p].parent, pages[p].superseded_by} \ {Root} : q \in Pages
      BY <3>1 DEF PageRow
    <3> QED
      BY <3>1, <3>2, <1>3 DEF Linked, LinksOK, Exists
  <2> QED
    BY <2>1, <2>2
<1>6. \A d \in Clients : InFlight(d)' => d # c /\ InFlight(d) /\ req'[d] = req[d]
  BY <1>1 DEF InFlight, Idle
<1>7. ReqLinksOK'
  <2> SUFFICES ASSUME NEW d \in Clients, InFlight(d)'
               PROVE  (/\ req[d].page \in Pages
                       /\ req[d].row.status # "absent"
                       /\ req[d].row.superseded_by # Root => Good(req[d].page, req[d].row.superseded_by)
                       /\ req[d].op # "create_page" /\ req[d].row.parent # Root
                            => Good(req[d].page, req[d].row.parent)
                       /\ req[d].op = "create_page" => req[d].row.parent = req[d].other
                       /\ req[d].op = "supersede_page" => req[d].other \in Pages
                       /\ req[d].other # Root /\ req[d].op # "create_page" => req[d].other # req[d].page
                       /\ req[d].other # Root /\ req[d].stage # "check" => Good(req[d].page, req[d].other)
                       /\ req[d].stage # "save" => req[d].other # Root)'
    BY DEF ReqLinksOK
  <2>1. InFlight(d) /\ req'[d] = req[d] /\ req[d] \in Request
    BY <1>6 DEF PagesTypeOK
  <2>2. /\ req[d].row.superseded_by \in Pages \cup {Root}
        /\ req[d].row.parent \in Pages \cup {Root}
        /\ req[d].other \in Pages \cup {Root}
    BY <2>1 DEF Request, PageRow
  <2> QED
    BY <2>1, <2>2, <1>3 DEF Linked, ReqLinksOK
<1>8. CreatesAlone'
  <2> SUFFICES ASSUME NEW d \in Clients, InFlight(d)'
               PROVE  IF req'[d].op = "create_page"
                        THEN /\ ~Exists(req[d].page)'
                             /\ \A e \in Clients \ {d} : InFlight(e)' => req'[e].page # req'[d].page
                        ELSE Exists(req[d].page)'
    BY DEF CreatesAlone
  <2>1. d # c /\ InFlight(d) /\ req'[d] = req[d] /\ req[d].page \in Pages
    BY <1>6 DEF Linked, ReqLinksOK
  <2>2. IF req[d].op = "create_page"
          THEN /\ ~Exists(req[d].page)
               /\ \A e \in Clients \ {d} : InFlight(e) => req[e].page # req[d].page
          ELSE Exists(req[d].page)
    BY <2>1 DEF Linked, CreatesAlone
  <2>3. CASE req[d].op = "create_page"
    <3>1. req[d].page # r.page
      BY <2>1, <2>2, <2>3, <1>1
    <3> QED
      BY <3>1, <2>1, <2>2, <2>3, <1>1, <1>6 DEF Exists
  <2>4. CASE req[d].op # "create_page"
    BY <2>1, <2>2, <2>4, <1>2 DEF Exists
  <2> QED
    BY <2>3, <2>4
<1> QED
  BY <1>5, <1>7, <1>8 DEF Linked

LEMMA LinkedStep ==
  ASSUME PagesTypeOK, Linked, [PagesNext]_pageVars
  PROVE  Linked'
<1>1. CASE UNCHANGED pageVars
  BY <1>1 DEF pageVars, Linked, LinksOK, ReqLinksOK, CreatesAlone, Exists, Good, InFlight
<1>2. CASE PagesNext
  BY <1>2, StepCases, StartLinked, GoesLinked, SaveLinked
<1> QED
  BY <1>1, <1>2

-----------------------------------------------------------------------------
(* Requests that are alone on their page.                                  *)

LEMMA FreshStep ==
  ASSUME PagesTypeOK, Linked, Fresh, [PagesNext]_pageVars
  PROVE  Fresh'
<1>1. CASE UNCHANGED pageVars
  BY <1>1 DEF pageVars, Fresh, InFlight
<1>2. CASE PagesNext
  <2> SUFFICES ASSUME NEW d \in Clients, InFlight(d)', req'[d].page \notin raced'
               PROVE  /\ \A e \in Clients \ {d} : InFlight(e)' => req'[e].page # req'[d].page
                      /\ req'[d].op # "create_page" => req'[d].row = pages'[req'[d].page]
    BY DEF Fresh
  <2>1. PICK c \in Clients :
           \/ \E op \in Ops, p \in Pages, row \in PageRow, other \in Pages \cup {Root} :
                Start(c, op, p, row, other)
           \/ Goes(c)
           \/ Save(c)
    BY <1>2, StepCases
  <2>2. CASE \E op \in Ops, p \in Pages, row \in PageRow, other \in Pages \cup {Root} :
               Start(c, op, p, row, other)
    <3>1. PICK op \in Ops, p \in Pages, row \in PageRow, other \in Pages \cup {Root} :
            Start(c, op, p, row, other)
      BY <2>2
    <3>2. /\ UNCHANGED pages
          /\ ~InFlight(c)
          /\ req'[c].page = p /\ req'[c].row = row /\ req'[c].op = op
          /\ \A e \in Clients \ {c} : req'[e] = req[e]
      BY <3>1 DEF Start, Begin, PagesTypeOK, InFlight
    <3>3. raced \subseteq raced' /\ (Busy(p) => p \in raced')
      BY <3>1 DEF Start, Begin
    <3>4. op # "create_page" => row = pages[p]
      BY <3>1 DEF Start, Startable
    <3>5. CASE d = c
      <4>1. ~Busy(p)
        BY <3>2, <3>3, <3>5
      <4> QED
        BY <4>1, <3>2, <3>4, <3>5 DEF Busy, InFlight
    <3>6. CASE d # c
      <4>1. InFlight(d) /\ req'[d] = req[d]
        BY <3>2, <3>6 DEF InFlight
      <4>2. req[d].page # p
        BY <4>1, <3>3 DEF Busy, InFlight
      <4> QED
        BY <4>1, <4>2, <3>2, <3>3 DEF Fresh, InFlight
    <3> QED
      BY <3>5, <3>6
  <2>3. CASE Goes(c)
    <3>1. /\ UNCHANGED <<pages, raced>>
          /\ InFlight(c)
          /\ \A e \in Clients \ {c} : req'[e] = req[e]
          /\ req'[c] = Idle
             \/ (req'[c].op = req[c].op /\ req'[c].page = req[c].page /\ req'[c].row = req[c].row)
      BY <2>3, GoesShape
    <3>2. \A e \in Clients : InFlight(e)' =>
            /\ InFlight(e) /\ req'[e].op = req[e].op
            /\ req'[e].page = req[e].page /\ req'[e].row = req[e].row
      BY <3>1 DEF InFlight, Idle
    <3> QED
      BY <3>1, <3>2 DEF Fresh
  <2>4. CASE Save(c)
    <3>1. /\ UNCHANGED raced
          /\ InFlight(c) /\ req'[c] = Idle
          /\ \A e \in Clients \ {c} : req'[e] = req[e]
          /\ \A p \in Pages \ {req[c].page} : pages'[p] = pages[p]
      BY <2>4, SaveShape
    <3>2. \A e \in Clients : InFlight(e)' => e # c /\ InFlight(e) /\ req'[e] = req[e]
      BY <3>1 DEF InFlight, Idle
    <3>3. req[d].page # req[c].page /\ req[d].page \in Pages
      BY <3>1, <3>2 DEF Fresh, Linked, ReqLinksOK
    <3> QED
      BY <3>1, <3>2, <3>3 DEF Fresh
  <2> QED
    BY <2>1, <2>2, <2>3, <2>4
<1> QED
  BY <1>1, <1>2

LEMMA OneMoveStep ==
  ASSUME PagesTypeOK, Linked, OneMove, [PagesNext]_pageVars
  PROVE  OneMove'
<1>1. CASE UNCHANGED pageVars
  BY <1>1 DEF pageVars, OneMove
<1>2. CASE PagesNext
  <2>1. PICK c \in Clients :
           \/ \E op \in Ops, p \in Pages, row \in PageRow, other \in Pages \cup {Root} :
                Start(c, op, p, row, other)
           \/ Goes(c)
           \/ Save(c)
    BY <1>2, StepCases
  <2>2. CASE \E op \in Ops, p \in Pages, row \in PageRow, other \in Pages \cup {Root} :
               Start(c, op, p, row, other)
    <3>1. PICK op \in Ops, p \in Pages, row \in PageRow, other \in Pages \cup {Root} :
            Start(c, op, p, row, other)
      BY <2>2
    <3>2. req'[c].op = op /\ \A e \in Clients \ {c} : req'[e] = req[e]
      BY <3>1 DEF Start, Begin, PagesTypeOK
    <3>3. ~movesRaced' => ~movesRaced /\ (op = "move_page" => ~Moving)
      BY <3>1 DEF Start, Begin
    <3> QED
      BY <3>2, <3>3 DEF OneMove, Moving
  <2>3. CASE Goes(c) \/ Save(c)
    <3>1. /\ UNCHANGED movesRaced
          /\ \A e \in Clients \ {c} : req'[e] = req[e]
          /\ req'[c] = Idle \/ req'[c].op = req[c].op
      BY <2>3, GoesShape, SaveShape
    <3>2. \A e \in Clients : req'[e].op = "move_page" => req[e].op = "move_page"
      BY <3>1 DEF Idle
    <3> QED
      BY <3>1, <3>2 DEF OneMove
  <2> QED
    BY <2>1, <2>2, <2>3
<1> QED
  BY <1>1, <1>2

-----------------------------------------------------------------------------
(* The walk of the cycle check.                                            *)

Calm == raced = {} /\ ~movesRaced

\* The walk sees a chain of parents: each round adds the page it reads.
LEMMA ClimbStep ==
  ASSUME PagesTypeOK, Linked, WalkOK, Calm,
         NEW c \in Clients, Goes(c),
         req'[c].op = "move_page", req'[c].stage # "check"
  PROVE  Climbing(req[c])'
<1>0. Root \notin Pages /\ req[c] \in Request /\ req \in [Clients -> Request]
  BY PagesAssumption DEF PagesTypeOK
<1>1. UNCHANGED pages /\ req'[c] # Idle /\ req[c].op = "move_page" /\ InFlight(c)
  BY GoesShape DEF Idle
<1>2. ~Dropped(c)
  BY <1>0, <1>1 DEF Dropped, Rejected
<1>3. (req[c].page \in Pages /\ req[c].other # req[c].page) \/ req[c].other = Root
  BY <1>1 DEF Linked, ReqLinksOK
<1>4. CASE CheckOther(c)
  <2>1. Acceptable(c)
    BY <1>0, <1>1, <1>4 DEF CheckOther, Rejected
  <2>2. req[c].stage = "check" /\ req[c].other # Root
    BY <1>1, <1>4 DEF CheckOther, Linked, ReqLinksOK
  <2>3. req[c].other \in Pages /\ Exists(req[c].other) /\ req[c].other # req[c].page
    BY <1>0, <1>3, <2>1, <2>2 DEF Acceptable, Request
  <2>4. req' = [req EXCEPT ![c] = [req[c] EXCEPT !.stage = "walk",
                  !.up = pages[req[c].other].parent, !.seen = {req[c].page, req[c].other}]]
    BY <1>1, <1>4, <2>1 DEF CheckOther
  <2>5. /\ req'[c].stage = "walk" /\ req'[c].up = pages[req[c].other].parent
        /\ req'[c].seen = {req[c].page, req[c].other}
        /\ req'[c].page = req[c].page /\ req'[c].other = req[c].other
    BY <1>0, <2>4 DEF Request
  <2>6. pages[req[c].other].parent # Root => Exists(pages[req[c].other].parent)
    BY <2>3 DEF Linked, LinksOK, Good
  <2> QED
    BY <1>1, <2>3, <2>5, <2>6 DEF Climbing, Exists
<1>5. CASE WalkUp(c)
  <2>1. req[c].stage = "walk" /\ req[c].other # Root
    BY <1>1, <1>5 DEF WalkUp, Linked, ReqLinksOK
  <2>2. Climbing(req[c])
    BY <1>1, <2>1 DEF WalkOK, Calm
  <2>3. CASE req[c].up = Root
    <3>1. req' = [req EXCEPT ![c] = [req[c] EXCEPT !.stage = "save"]]
      BY <1>5, <2>3 DEF WalkUp
    <3>2. /\ req'[c].up = req[c].up /\ req'[c].seen = req[c].seen
          /\ req'[c].page = req[c].page /\ req'[c].other = req[c].other
      BY <1>0, <3>1 DEF Request
    <3> QED
      BY <1>1, <2>2, <2>3, <3>2 DEF Climbing, Exists
  <2>4. CASE req[c].up # Root
    <3>1. req[c].up \notin req[c].seen
      BY <1>0, <1>1, <1>5, <2>4 DEF WalkUp, Rejected
    <3>2. req' = [req EXCEPT ![c] = [req[c] EXCEPT !.up = pages[req[c].up].parent,
                                                  !.seen = req[c].seen \cup {req[c].up}]]
      BY <1>5, <2>4, <3>1 DEF WalkUp
    <3>3. /\ req'[c].up = pages[req[c].up].parent
          /\ req'[c].seen = req[c].seen \cup {req[c].up}
          /\ req'[c].stage = "walk"
          /\ req'[c].page = req[c].page /\ req'[c].other = req[c].other
      BY <1>0, <2>1, <3>2 DEF Request
    <3>4. Exists(req[c].up) /\ req[c].up \in Pages
      BY <1>0, <2>2, <2>4 DEF Climbing, Request
    <3>5. pages[req[c].up].parent # Root => Exists(pages[req[c].up].parent)
      BY <3>4 DEF Linked, LinksOK, Good
    <3>6. req[c].up # req[c].page
      BY <2>2, <3>1 DEF Climbing
    <3>7. ASSUME NEW x \in req'[c].seen \ {req[c].page}
          PROVE  Exists(x) /\ pages[x].parent \in (req'[c].seen \ {req[c].page}) \cup {req'[c].up}
      <4>1. CASE x = req[c].up
        BY <4>1, <3>3, <3>4
      <4>2. CASE x # req[c].up
        <5>1. Exists(x) /\ pages[x].parent \in (req[c].seen \ {req[c].page}) \cup {req[c].up}
          BY <4>2, <3>3, <3>7, <2>2 DEF Climbing
        <5> QED
          BY <5>1, <3>3, <3>6
      <4> QED
        BY <4>1, <4>2
    <3> QED
      BY <1>1, <2>2, <3>3, <3>5, <3>7 DEF Climbing, Exists
  <2> QED
    BY <2>3, <2>4
<1> QED
  BY <1>2, <1>4, <1>5 DEF Goes

LEMMA WalkStep ==
  ASSUME PagesTypeOK, Linked, Fresh, OneMove, WalkOK, [PagesNext]_pageVars
  PROVE  WalkOK'
<1>1. CASE UNCHANGED pageVars
  BY <1>1 DEF pageVars, WalkOK, Climbing, Exists
<1>2. CASE PagesNext
  <2> SUFFICES ASSUME Calm', NEW d \in Clients,
                      req'[d].op = "move_page", req'[d].stage # "check", req'[d].other # Root
               PROVE  Climbing(req[d])'
    BY DEF WalkOK, Calm
  <2>1. PICK c \in Clients :
           \/ \E op \in Ops, p \in Pages, row \in PageRow, other \in Pages \cup {Root} :
                Start(c, op, p, row, other)
           \/ Goes(c)
           \/ Save(c)
    BY <1>2, StepCases
  <2>2. CASE \E op \in Ops, p \in Pages, row \in PageRow, other \in Pages \cup {Root} :
               Start(c, op, p, row, other)
    <3>1. PICK op \in Ops, p \in Pages, row \in PageRow, other \in Pages \cup {Root} :
            Start(c, op, p, row, other)
      BY <2>2
    <3>2. /\ UNCHANGED pages
          /\ req'[c].other = other
          /\ req'[c].stage = IF other = Root THEN "save" ELSE "check"
          /\ \A e \in Clients \ {c} : req'[e] = req[e]
      BY <3>1 DEF Start, Begin, PagesTypeOK
    <3>3. Calm
      BY <3>1 DEF Start, Begin, Calm
    <3>4. d # c
      BY <3>2
    <3>5. Climbing(req[d])
      BY <3>2, <3>3, <3>4 DEF WalkOK, Calm
    <3> QED
      BY <3>2, <3>4, <3>5 DEF Climbing, Exists
  <2>3. CASE Goes(c)
    <3>1. UNCHANGED <<pages, raced, movesRaced>> /\ \A e \in Clients \ {c} : req'[e] = req[e]
      BY <2>3, GoesShape
    <3>2. Calm
      BY <3>1 DEF Calm
    <3>3. CASE d = c
      BY <2>3, <3>2, <3>3, ClimbStep
    <3>4. CASE d # c
      <4>1. Climbing(req[d])
        BY <3>1, <3>2, <3>4 DEF WalkOK, Calm
      <4> QED
        BY <3>1, <3>4, <4>1 DEF Climbing, Exists
    <3> QED
      BY <3>3, <3>4
  <2>4. CASE Save(c)
    <3>1. /\ InFlight(c) /\ req[c].page \in Pages
          /\ UNCHANGED <<raced, movesRaced>>
          /\ req'[c] = Idle
          /\ \A e \in Clients \ {c} : req'[e] = req[e]
          /\ \A p \in Pages \ {req[c].page} : pages'[p] = pages[p]
          /\ pages'[req[c].page].status # "absent"
          /\ pages'[req[c].page].parent =
               IF req[c].op \in {"move_page", "create_page"} THEN req[c].other ELSE req[c].row.parent
      BY <2>4, SaveShape
    <3>2. d # c /\ req'[d] = req[d] /\ req[d] \in Request
      BY <3>1 DEF Idle, PagesTypeOK
    <3>3. Climbing(req[d])
      BY <3>1, <3>2 DEF WalkOK, Calm
    <3>4. req[c].op # "move_page"
      BY <3>1, <3>2 DEF OneMove, Calm
    <3>5. req[c].op # "create_page" => pages'[req[c].page].parent = pages[req[c].page].parent
      BY <3>1, <3>4 DEF Fresh, Calm
    <3>6. req[c].op = "create_page" => ~Exists(req[c].page)
      BY <3>1 DEF Linked, CreatesAlone
    <3>7. \A x \in Pages : Exists(x) => Exists(x)' /\ pages'[x].parent = pages[x].parent
      BY <3>1, <3>5, <3>6 DEF Exists
    <3>8. req[d].up \in Pages \cup {Root} /\ req[d].seen \subseteq Pages
      BY <3>2 DEF Request
    <3> QED
      BY <3>2, <3>3, <3>7, <3>8 DEF Climbing
  <2> QED
    BY <2>1, <2>2, <2>3, <2>4
<1> QED
  BY <1>1, <1>2

-----------------------------------------------------------------------------
(* No cycles.                                                              *)

\* In a tree that only a save of r.page changes, a page of every set keeps its
\* parent outside the set.  A new page has no children; a move has seen every
\* page above the new parent.
LEMMA SaveAcyclic ==
  ASSUME PagesTypeOK, Linked, Fresh, OneMove, WalkOK, Calm, Acyclic, NEW c \in Clients, Save(c)
  PROVE  Acyclic'
<1> DEFINE r == req[c]
<1>0. Root \notin Pages
  BY PagesAssumption
<1>1. /\ InFlight(c) /\ r.page \in Pages /\ r.stage = "save"
      /\ \A p \in Pages \ {r.page} : pages'[p] = pages[p]
      /\ pages'[r.page].parent =
           IF r.op \in {"move_page", "create_page"} THEN r.other ELSE r.row.parent
  BY SaveShape
<1>2. r \in Request
  BY DEF PagesTypeOK
<1>3. r.other # Root => r.other # r.page /\ r.other \in Pages
  BY <1>1, <1>2 DEF Linked, ReqLinksOK, Good, Request
<1> SUFFICES ASSUME NEW S \in SUBSET Pages, S # {}
             PROVE  \E p \in S : pages'[p].parent \notin S
  BY DEF Acyclic
<1>4. CASE r.page \notin S
  BY <1>1, <1>4 DEF Acyclic
<1>5. CASE r.page \in S /\ r.op = "create_page"
  <2>1. ~Exists(r.page)
    BY <1>1, <1>5 DEF Linked, CreatesAlone
  <2>2. CASE S = {r.page}
    BY <2>2, <1>0, <1>1, <1>3, <1>5
  <2>3. CASE S # {r.page}
    <3>1. S \ {r.page} \in SUBSET Pages /\ S \ {r.page} # {}
      BY <2>3, <1>5
    <3>2. PICK x \in S \ {r.page} : pages[x].parent \notin S \ {r.page}
      BY <3>1 DEF Acyclic
    <3>3. pages[x].parent # r.page
      BY <2>1, <1>0, <1>1, <3>2 DEF Linked, LinksOK, Good
    <3> QED
      BY <1>1, <3>2, <3>3
  <2> QED
    BY <2>2, <2>3
<1>6. CASE r.page \in S /\ r.op = "move_page"
  <2>1. CASE r.other \notin S
    BY <1>1, <1>6, <2>1
  <2>2. CASE r.other \in S
    <3>1. Climbing(r) /\ r.up = Root
      BY <1>0, <1>1, <1>6, <2>2 DEF WalkOK, Calm, Climbing
    <3> DEFINE T == S \cap (r.seen \ {r.page})
    <3>2. r.other \in T /\ T \in SUBSET Pages
      BY <1>0, <1>3, <2>2, <3>1 DEF Climbing
    <3>3. PICK x \in T : pages[x].parent \notin T
      BY <3>2 DEF Acyclic
    <3>4. pages[x].parent \in (r.seen \ {r.page}) \cup {Root}
      BY <3>1, <3>3 DEF Climbing
    <3>5. pages[x].parent \notin S
      BY <1>0, <3>3, <3>4
    <3> QED
      BY <1>1, <3>3, <3>5
  <2> QED
    BY <2>1, <2>2
<1>7. CASE r.op \notin {"create_page", "move_page"}
  <2>1. r.row = pages[r.page]
    BY <1>1, <1>7 DEF Fresh, Calm
  <2>2. \A p \in Pages : pages'[p].parent = pages[p].parent
    BY <2>1, <1>1, <1>7
  <2> QED
    BY <2>2 DEF Acyclic
<1> QED
  BY <1>4, <1>5, <1>6, <1>7

LEMMA AcyclicStep ==
  ASSUME PagesTypeOK, Linked, Fresh, OneMove, WalkOK, AcyclicUnlessRaced, [PagesNext]_pageVars
  PROVE  AcyclicUnlessRaced'
<1>1. CASE UNCHANGED pageVars
  BY <1>1 DEF pageVars, AcyclicUnlessRaced, Acyclic
<1>2. CASE PagesNext
  <2>1. PICK c \in Clients :
           \/ \E op \in Ops, p \in Pages, row \in PageRow, other \in Pages \cup {Root} :
                Start(c, op, p, row, other)
           \/ Goes(c)
           \/ Save(c)
    BY <1>2, StepCases
  <2>2. CASE \E op \in Ops, p \in Pages, row \in PageRow, other \in Pages \cup {Root} :
               Start(c, op, p, row, other)
    BY <2>2 DEF Start, Begin, AcyclicUnlessRaced, Acyclic
  <2>3. CASE Goes(c)
    BY <2>3, GoesShape DEF AcyclicUnlessRaced, Acyclic
  <2>4. CASE Save(c)
    <3>1. UNCHANGED <<raced, movesRaced>>
      BY <2>4, SaveShape
    <3> QED
      BY <2>4, <3>1, SaveAcyclic DEF AcyclicUnlessRaced, Calm
  <2> QED
    BY <2>1, <2>2, <2>3, <2>4
<1> QED
  BY <1>1, <1>2

-----------------------------------------------------------------------------
(* The theorems.                                                           *)

LEMMA InitIInv == PagesInit => IInv
<1> SUFFICES ASSUME PagesInit PROVE IInv
  OBVIOUS
<1>1. \A c \in Clients : ~InFlight(c) /\ req[c].op # "move_page"
  BY DEF PagesInit, Idle, InFlight
<1>2. Fresh /\ OneMove /\ WalkOK
  BY <1>1 DEF Fresh, OneMove, WalkOK
<1>3. AcyclicUnlessRaced
  BY PagesAssumption DEF PagesInit, NoRow, AcyclicUnlessRaced, Acyclic
<1> QED
  BY <1>2, <1>3, InitType, InitLinked DEF IInv

LEMMA InductiveIInv == IInv /\ [PagesNext]_pageVars => IInv'
<1> SUFFICES ASSUME IInv, [PagesNext]_pageVars PROVE IInv'
  OBVIOUS
<1>1. PagesTypeOK' /\ Linked'
  BY TypeStep, LinkedStep DEF IInv, Linked
<1>2. Fresh' /\ OneMove'
  BY FreshStep, OneMoveStep DEF IInv
<1>3. WalkOK'
  BY WalkStep DEF IInv
<1>4. AcyclicUnlessRaced'
  BY AcyclicStep DEF IInv
<1> QED
  BY <1>1, <1>2, <1>3, <1>4 DEF IInv

LEMMA AlwaysIInv == PagesSpec => []IInv
  BY InitIInv, InductiveIInv, PTL DEF PagesSpec

\* Requests and stored rows stay well-formed: a save never writes a row the
\* models of the hub (core/models.py) do not allow.
THEOREM PagesTyped == PagesSpec => []PagesTypeOK
<1>1. IInv => PagesTypeOK
  BY DEF IInv
<1> QED
  BY <1>1, AlwaysIInv, PTL

\* Whatever handlers interleave, a page's parent and successor are other stored
\* pages of its space: what a handler checked before its save is never undone,
\* for pages are not deleted and do not change space.
THEOREM LinksHold == PagesSpec => []LinksStayInSpace
<1>1. IInv => LinksStayInSpace
  BY DEF IInv, Linked, LinksOK, Good, LinksStayInSpace
<1> QED
  BY <1>1, AlwaysIInv, PTL

\* The cycle check of move_page is right for any tree: a cycle takes a race.
THEOREM CyclesNeedRaces == PagesSpec => []AcyclicUnlessRaced
<1>1. IInv => AcyclicUnlessRaced
  BY DEF IInv
<1> QED
  BY <1>1, AlwaysIInv, PTL

LEMMA RetirementStep ==
  ASSUME IInv, [PagesNext]_pageVars
  PROVE  [\A p \in Pages \ raced : pages[p].status \notin {"absent", "active"} =>
            pages'[p].status \notin {"absent", "active"}]_pageVars
<1> SUFFICES ASSUME PagesNext, NEW p \in Pages \ raced, pages[p].status \notin {"absent", "active"}
             PROVE  pages'[p].status \notin {"absent", "active"}
  OBVIOUS
<1>1. PICK c \in Clients :
         \/ \E op \in Ops, q \in Pages, row \in PageRow, other \in Pages \cup {Root} :
              Start(c, op, q, row, other)
         \/ Goes(c)
         \/ Save(c)
  BY StepCases DEF IInv
<1>2. CASE \/ \E op \in Ops, q \in Pages, row \in PageRow, other \in Pages \cup {Root} :
                 Start(c, op, q, row, other)
           \/ Goes(c)
  <2>1. UNCHANGED pages
    BY <1>2, GoesShape DEF Start, Begin, IInv
  <2> QED
    BY <2>1
<1>3. CASE Save(c)
  <2>1. CASE req[c].page # p
    BY <1>3, <2>1, SaveShape DEF IInv
  <2>2. CASE req[c].page = p
    <3>1. InFlight(c) /\ req[c] \in Request
      BY <1>3 DEF Save, InFlight, IInv, PagesTypeOK
    <3>2. req[c].op # "create_page"
      BY <2>2, <3>1 DEF IInv, Linked, CreatesAlone, Exists
    <3>3. req[c].row = pages[p] /\ req[c].row \in PageRow
      BY <2>2, <3>1, <3>2 DEF IInv, Fresh, Request
    <3>4. Result(req[c]).status \in
            {req[c].row.status, "archived", "quarantined", "superseded"}
      <4>1. req[c].op \in Ops
        BY <3>1 DEF Request, Ops, InFlight
      <4> QED
        BY <3>3, <4>1 DEF Result, Edited, Superseded, PageRow, Ops
    <3>5. pages'[p] = Result(req[c])
      BY <1>3, <2>2 DEF Save, IInv, PagesTypeOK
    <3> QED
      BY <3>3, <3>4, <3>5
  <2> QED
    BY <2>1, <2>2
<1> QED
  BY <1>1, <1>2, <1>3

\* Archiving, quarantining and superseding are final, whatever else is edited or
\* moved, as long as no two requests are about to save the page at once.
THEOREM RetirementHolds == PagesSpec => RetiredForGood
<1>1. IInv /\ [PagesNext]_pageVars =>
        [\A p \in Pages \ raced : pages[p].status \notin {"absent", "active"} =>
            pages'[p].status \notin {"absent", "active"}]_pageVars
  BY RetirementStep
<1> QED
  BY <1>1, AlwaysIInv, PTL DEF PagesSpec, RetiredForGood

\* The pages of a space form a tree, as far as requests did not race.
THEOREM TreeKept == PagesSpec => []TreeHolds
  BY LinksHold, CyclesNeedRaces, PTL DEF TreeHolds
=============================================================================
