-------------------------------- MODULE Chat --------------------------------
(***************************************************************************)
(* The chat with the mascot (a-mate/crates/core/src/chat.rs, memory.rs;    *)
(* chat_send and memory_* of commands.rs; ChatTab.svelte).  The tab keeps  *)
(* the history; a command routes the last question, reads the context      *)
(* under the store's lock and talks to the engine without it, saving what  *)
(* the owner wants remembered between one call of the engine and the next. *)
(* Two commands may be under way: the history outlives the tab, the tab's  *)
(* "sending" does not.                                                     *)
(***************************************************************************)
EXTENDS SequencesExt

CONSTANTS
  Questions,   \* what the owner may ask: sequences of characters
  Letters, Digits,     \* the ASCII letters and digits among these
  Coaching, Quantity,  \* COACHING_MARKERS and QUANT_MARKERS
  CallLists,   \* what tool calls an answer may hold: sequences of arguments
  SizeOf,      \* the length of the texts, by text
  Blank, Broken,  \* an argument of blanks only, one that is not what was asked for
  Nameless,       \* a call without an id or a name
  MaxMemories, MaxMemoryChars, MaxHistory, MaxRounds,
  MaxSends, MaxFailures, MaxEdits, MaxLeaves  \* bounds

VARIABLES
  history,   \* chatState.messages
  tab,       \* the mounted tab: its number and whether it is sending
  command,   \* the chat_send commands
  memories,  \* the texts of the memories, oldest first
  sends, failures, edits

chatVars == <<history, tab, command, memories, sends, failures, edits>>

Slots == 1 .. 2
Texts == DOMAIN SizeOf
Characters == UNION {Range(t) : t \in Questions \cup Coaching \cup Quantity}

ChatAssumption ==
  /\ SizeOf \in [Texts -> Nat] /\ {Blank, Broken, Nameless} \cap Texts = {}
  /\ {MaxMemories, MaxMemoryChars, MaxHistory, MaxRounds} \subseteq Nat \ {0}
  /\ Questions \cup Coaching \cup Quantity \subseteq Seq(Characters)
  /\ <<>> \notin Coaching \cup Quantity
  /\ CallLists \subseteq Seq(Texts \cup {Blank, Broken, Nameless})

Free == [pc |-> "free"]
User(n) == [role |-> "user", of |-> n]
Mascot(n) == [role |-> "assistant", of |-> n]

-----------------------------------------------------------------------------
Alphanumeric == Letters \cup Digits

\* contains_keyword: a keyword of letters needs neither letter nor digit around it; any
\* other only has to occur.
OccursAt(k, q, i) == i + Len(k) - 1 <= Len(q) /\ SubSeq(q, i, i + Len(k) - 1) = k
ContainsKeyword(q, k) ==
  \E i \in DOMAIN q :
    /\ OccursAt(k, q, i)
    /\ Range(k) \subseteq Letters =>
         /\ i = 1 \/ q[i - 1] \notin Alphanumeric
         /\ i + Len(k) > Len(q) \/ q[i + Len(k)] \notin Alphanumeric

\* classify_intent
Intent(q) ==
  CASE \E k \in Coaching : ContainsKeyword(q, k) -> "coaching"
    [] ~(\E k \in Coaching : ContainsKeyword(q, k)) /\ (\E k \in Quantity : ContainsKeyword(q, k)) -> "quant"
    [] OTHER -> "narrative"

NothingTaken == [full |-> FALSE, chars |-> 0, kept |-> <<>>]
Take(line, acc) ==
  IF acc.full \/ Len(acc.kept) >= MaxMemories
     \/ (acc.kept # <<>> /\ acc.chars + SizeOf[line] + 2 > MaxMemoryChars)
  THEN [acc EXCEPT !.full = TRUE]
  ELSE [full |-> FALSE, chars |-> acc.chars + SizeOf[line] + 2, kept |-> <<line>> \o acc.kept]

\* Faulty: the oldest come first when there are too many.
MemoryBlockOldest(lines) == Reverse(FoldRight(Take, Reverse(lines), NothingTaken).kept)
\* memory_block: from the newest back to the first that does not fit.
MemoryBlock(lines) == FoldRight(Take, lines, NothingTaken).kept

\* assemble_coaching_brief, build_coaching_system_prompt: the week, the ladder and the
\* findings, whose figures and wording are left out, and what is remembered.
CoachingPrompt == [about |-> "week", block |-> MemoryBlock(memories), listed |-> memories]

\* build_chat_system_prompt: the day, and what is remembered.
ChatPrompt == [about |-> "today", block |-> MemoryBlock(memories), listed |-> memories]

Parsed(calls, c) == IF c = Nameless THEN calls ELSE Append(calls, c)

\* parse_tool_turn: calls without an id or a name are passed over.
ParsedCalls(calls) == FoldLeft(Parsed, <<>>, calls)

\* The turn that made the calls, as it is sent back (chat_message_to_json).
CallsTurn(round, calls) == [role |-> "calls", round |-> round, calls |-> Len(calls)]

Newest(s, n) == SubSeq(s, IF Len(s) > n THEN Len(s) - n + 1 ELSE 1, Len(s))

-----------------------------------------------------------------------------
\* send(): the question joins the history, and the command gets a copy of it.
Send(s, q) ==
  /\ ~tab.sending /\ command[s] = Free /\ sends < MaxSends
  /\ \A t \in 1 .. s - 1 : command[t] # Free
  /\ sends' = sends + 1
  /\ history' = Append(history, User(sends + 1))
  /\ tab' = [tab EXCEPT !.sending = TRUE]
  /\ command' = [command EXCEPT ![s] =
       [pc |-> "read", of |-> sends + 1, mount |-> tab.mount, question |-> q,
        messages |-> history']]
  /\ UNCHANGED <<memories, failures, edits>>

\* The tab is left for another and opened again, with fresh state.
Reopen ==
  /\ tab.mount < MaxLeaves
  /\ tab' = [mount |-> tab.mount + 1, sending |-> FALSE]
  /\ UNCHANGED <<history, command, memories, sends, failures, edits>>

Step(s, from, next) ==
  /\ command[s].pc = from
  /\ command' = [command EXCEPT ![s] = next]

\* One lock section; without an engine, or when the store cannot be read, the command
\* ends here.
ReadContext(s) ==
  /\ UNCHANGED <<history, tab, memories, sends, edits>>
  /\ \/ /\ Step(s, "read",
                [pc |-> "tools", of |-> command[s].of, mount |-> command[s].mount,
                 question |-> command[s].question, intent |-> Intent(command[s].question),
                 system |-> IF Intent(command[s].question) = "coaching"
                            THEN CoachingPrompt ELSE ChatPrompt,
                 convo |-> Newest(command[s].messages, MaxHistory),
                 round |-> 0, todo |-> <<>>])
        /\ UNCHANGED failures
     \/ /\ failures < MaxFailures /\ failures' = failures + 1
        /\ Step(s, "read", [command[s] EXCEPT !.pc = "failed"])

\* chat_with_tools: text, tool calls, or an error, after which chat is called instead.
ToolsTurn(s) ==
  /\ UNCHANGED <<history, tab, memories, sends, edits>>
  /\ \/ Step(s, "tools", [command[s] EXCEPT !.pc = "done"]) /\ UNCHANGED failures
     \/ \E calls \in {ParsedCalls(list) : list \in CallLists} :
          /\ calls # <<>>
          /\ Step(s, "tools",
                  [command[s] EXCEPT !.pc = "calls", !.todo = calls,
                                     !.convo = Append(@, CallsTurn(command[s].round, calls))])
          /\ UNCHANGED failures
     \/ /\ failures < MaxFailures /\ failures' = failures + 1
        /\ Step(s, "tools", [command[s] EXCEPT !.pc = "plain"])

\* The next call of the turn: save_memory's text is saved if there is one, and whatever
\* became of it the conversation goes on with "saved".
HandleCall(s) ==
  /\ command[s].pc = "calls"
  /\ LET text == Head(command[s].todo)
         rest == Tail(command[s].todo)
         round == command[s].round
         answer == [role |-> "tool", round |-> round]
     IN /\ command' = [command EXCEPT ![s] =
             [command[s] EXCEPT
                !.todo = rest, !.convo = Append(@, answer),
                !.round = IF rest = <<>> THEN round + 1 ELSE round,
                !.pc = IF rest # <<>> THEN "calls"
                       ELSE IF round + 1 = MaxRounds THEN "plain" ELSE "tools"]]
        /\ \/ /\ memories' = IF text \in Texts THEN Append(memories, text) ELSE memories
              /\ UNCHANGED failures
           \/ /\ text \in Texts /\ failures < MaxFailures  \* add_memory fails: only logged
              /\ failures' = failures + 1 /\ UNCHANGED memories
  /\ UNCHANGED <<history, tab, sends, edits>>

\* chat sends of each message its role and text: turns lose the calls they made, and
\* answers what they answer.
Plain(convo) ==
  [i \in DOMAIN convo |-> [role |-> IF convo[i].role = "calls" THEN "assistant" ELSE convo[i].role]]

PlainTurn(s) ==
  /\ UNCHANGED <<history, tab, memories, sends, edits>>
  /\ LET asked == [command[s] EXCEPT !.convo = Plain(@)]
     IN \/ Step(s, "plain", [asked EXCEPT !.pc = "done"]) /\ UNCHANGED failures
        \/ /\ failures < MaxFailures /\ failures' = failures + 1
           /\ Step(s, "plain", [asked EXCEPT !.pc = "failed"])

\* `finally` ends the sending of the tab that sent.
Settled(s) == IF command[s].mount = tab.mount THEN [tab EXCEPT !.sending = FALSE] ELSE tab

Replied(s) ==
  /\ Step(s, "done", Free)
  /\ history' = Append(history, Mascot(command[s].of))
  /\ tab' = Settled(s)
  /\ UNCHANGED <<memories, sends, failures, edits>>

\* The last message is taken back.
GaveUp(s) ==
  /\ Step(s, "failed", Free)
  /\ history' = IF history = <<>> THEN history ELSE Front(history)
  /\ tab' = Settled(s)
  /\ UNCHANGED <<memories, sends, failures, edits>>

\* memory_add, memory_update, memory_delete of the settings.
EditMemories ==
  /\ edits < MaxEdits /\ edits' = edits + 1
  /\ \/ \E t \in Texts : memories' = Append(memories, t)
     \/ \E i \in DOMAIN memories, t \in Texts : memories' = [memories EXCEPT ![i] = t]
     \/ \E i \in DOMAIN memories : memories' = RemoveAt(memories, i)
  /\ UNCHANGED <<history, tab, command, sends, failures>>

ChatInit ==
  /\ history = <<>> /\ tab = [mount |-> 0, sending |-> FALSE]
  /\ command = [s \in Slots |-> Free]
  /\ memories = <<>>
  /\ sends = 0 /\ failures = 0 /\ edits = 0

CommandSteps(s) ==
  ReadContext(s) \/ ToolsTurn(s) \/ HandleCall(s) \/ PlainTurn(s) \/ Replied(s) \/ GaveUp(s)

ChatNext ==
  \/ \E s \in Slots : CommandSteps(s) \/ \E q \in Questions : Send(s, q)
  \/ Reopen \/ EditMemories

ChatSpec == ChatInit /\ [][ChatNext]_chatVars

-----------------------------------------------------------------------------
\* Commands whose prompt was just put together; they keep it.
Prepared == {s \in Slots : command[s].pc = "tools" /\ command[s].round = 0}

Total(lines) == FoldLeft(LAMBDA n, line : n + SizeOf[line] + 2, 0, lines)
Fits(lines) == Len(lines) <= MaxMemories /\ (Len(lines) <= 1 \/ Total(lines) <= MaxMemoryChars)

\* A prompt holds the newest memories of the moment it was put together, in their order,
\* as many as fit and one at least when there are any (memory_block).
PromptsHoldNewest ==
  \A s \in Prepared :
    LET block == command[s].system.block
        listed == command[s].system.listed
    IN /\ IsSuffix(block, listed) /\ Fits(block)
       /\ block # listed => ~Fits(Newest(listed, Len(block) + 1))

\* The words of a question: its longest runs of letters and digits.
WordsOf(q) ==
  LET word(i, j) == /\ i <= j /\ \A n \in i .. j : q[n] \in Alphanumeric
                    /\ i = 1 \/ q[i - 1] \notin Alphanumeric
                    /\ j = Len(q) \/ q[j + 1] \notin Alphanumeric
  IN {SubSeq(q, w[1], w[2]) : w \in {v \in (DOMAIN q) \X (DOMAIN q) : word(v[1], v[2])}}

\* A marker of letters counts when it is a word of the question and not a part of one,
\* and coaching comes first (contains_keyword, classify_intent).
RoutedByWords ==
  \A s \in Prepared :
    LET q == command[s].question
        Marked(ks) == \E k \in ks : Range(k) \subseteq Letters /\ k \in WordsOf(q)
        Said(ks) == \E k \in ks : ~(Range(k) \subseteq Letters) /\ \E i \in DOMAIN q : OccursAt(k, q, i)
        intent == command[s].intent
    IN /\ command[s].system.about = (IF intent = "coaching" THEN "week" ELSE "today")
       /\ intent = (IF Marked(Coaching) \/ Said(Coaching) THEN "coaching"
                    ELSE IF Marked(Quantity) \/ Said(Quantity) THEN "quant"
                    ELSE "narrative")

\* Whenever the engine is offered tools, every call it made has its answer right after the
\* turn that made it, as the protocol of tool calls wants (run_memory_chat).  The closing
\* request without tools names no calls (see Plain), and is not spoken of.
CallsAnswered ==
  \A s \in Slots : command[s].pc = "tools" =>
    LET convo == command[s].convo
        Turn(r) == {i \in DOMAIN convo : convo[i].role = "calls" /\ convo[i].round = r}
    IN /\ \A i \in DOMAIN convo : convo[i].role = "calls" =>
            /\ i + convo[i].calls <= Len(convo)
            /\ \A n \in 1 .. convo[i].calls :
                 convo[i + n] = [role |-> "tool", round |-> convo[i].round]
       /\ \A i \in DOMAIN convo : convo[i].role = "tool" =>
            \E t \in Turn(convo[i].round) : t < i /\ i <= t + convo[t].calls

\* As long as the tab stays open the history is questions and their answers in turn,
\* with one question more while it waits, whatever failed (send of ChatTab.svelte).
HistoryAlternates ==
  tab.mount = 0 =>
    /\ Len(history) % 2 = (IF tab.sending THEN 1 ELSE 0)
    /\ \A i \in DOMAIN history :
         history[i].role = (IF i % 2 = 1 THEN "user" ELSE "assistant")
    /\ \A i \in DOMAIN history : i % 2 = 0 => history[i].of = history[i - 1].of

ChatHolds == PromptsHoldNewest /\ RoutedByWords /\ CallsAnswered /\ HistoryAlternates

\* "the last is always this message, by the sending guard": what a failed exchange takes
\* back is its own question (comment in send of ChatTab.svelte).
TakesBackItsOwn ==
  \A s \in Slots : command[s].pc = "failed" => history # <<>> /\ Last(history) = User(command[s].of)
=============================================================================
