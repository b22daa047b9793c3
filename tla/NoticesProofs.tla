---------------------------- MODULE NoticesProofs ----------------------------
(***************************************************************************)
(* Theorems about what reaches the window of notices (Guestbook and        *)
(* ContentCards, put together by MCNotices): an entry of the guestbook is   *)
(* shown and answered once, a card's translation is one of its text, an    *)
(* announcement is made once, the cards of a source that was asked lately  *)
(* stay, and only the user takes a dismissal back.                         *)
(***************************************************************************)
EXTENDS MCNotices, FiniteSetTheorems, WellFoundedInduction, TLAPS

Bit(b) == IF b THEN 1 ELSE 0

LEMMA Bits == \A b \in BOOLEAN : Bit(b) \in {0, 1} /\ (b => Bit(b) = 1) /\ (~b => Bit(b) = 0)
BY DEF Bit

-----------------------------------------------------------------------------
(* The guestbook: its entries and the threads.                             *)

LEMMA SmallestExists ==
  ASSUME NEW S, S \subseteq Nat, S # {}
  PROVE  \E i \in S : \A j \in S : i <= j
<1>1. PICK i \in S : \A j \in S : <<j, i>> \notin OpToRel(<, Nat)
  BY NatLessThanWellFounded, WFMin, Zenon
<1>2. \A j \in S : ~(j < i)
  BY <1>1 DEF OpToRel
<1> QED
  BY <1>2

LEMMA LeastIs ==
  ASSUME NEW S, S \subseteq Nat, S # {}
  PROVE  Least(S) \in S /\ \A j \in S : Least(S) <= j
BY SmallestExists DEF Least

LEMMA LatestIs ==
  ASSUME NEW n \in Nat, NEW S, S \subseteq 0 .. n, S # {}
  PROVE  Latest(S) \in S /\ \A j \in S : j <= Latest(S)
<1> DEFINE T == {n - i : i \in S}
<1>1. T \subseteq Nat
  OBVIOUS
<1>2. T # {}
  OBVIOUS
<1>3. \A j \in S : n - j \in T
  OBVIOUS
<1>4. PICK k \in T : \A j \in T : k <= j
  <2> HIDE DEF T
  <2> QED
    BY <1>1, <1>2, SmallestExists
<1>5. PICK i \in S : k = n - i
  BY <1>4
<1> HIDE DEF T
<1>6. ASSUME NEW j \in S PROVE j <= i
  <2>1. n - i <= n - j
    BY <1>3, <1>4, <1>5
  <2>2. i \in Int /\ j \in Int
    OBVIOUS
  <2> QED
    BY <2>1, <2>2
<1> QED
  BY <1>6 DEF Latest

\* Ids are given in order; people write the first MaxPosts entries only, and the bot
\* answers entries.
BookFits ==
  /\ written \in Nat
  /\ book \subseteq Entry
  /\ \A e \in book :
       /\ e.id <= written
       /\ e.by # "owner" => e.id \in 1 .. MaxPosts
       /\ e.bot => e.parent # 0

\* A thread polls only while the window listens; it has something to answer while it is
\* answering, and the cursors it holds are ids.
ThreadFits(t) ==
  /\ thread[t].stage \in {"reply", "post"} => thread[t].targets # {}
  /\ 0 \notin thread[t].targets
  /\ Polling(t) => ready
  /\ thread[t].cursor <= written /\ thread[t].next <= written
  /\ thread[t].stage = "save" => thread[t].cursor <= thread[t].next

BookTypeOK ==
  /\ BookFits
  /\ late \subseteq Nat \ {0} /\ ready \in BOOLEAN
  /\ cursor \in Nat /\ cursor <= written
  /\ thread \in [Threads -> Thread]
  /\ shown \in [1 .. MaxPosts -> Nat]
  /\ faults \in Nat
  /\ old \subseteq Nat /\ crossed \subseteq Nat /\ overlapped \in BOOLEAN
  /\ \A t \in Threads : ThreadFits(t)

\* Everything up to id n was shown, or was there before there was a cursor.
SeenUpTo(n) == \A i \in ByOthers : i <= n => shown[i] > 0 \/ i \in old

\* What the cursor, or a cursor that a thread holds, has passed.
Seen ==
  /\ SeenUpTo(cursor)
  /\ \A t \in Threads : Polling(t) => SeenUpTo(thread[t].cursor)
  /\ \A t \in Threads : thread[t].stage = "save" => SeenUpTo(thread[t].next)

\* The cursor has passed i, or is about to.
Passed(i) == i <= cursor \/ \E t \in Threads : thread[t].stage = "save" /\ i <= thread[t].next

\* As long as polls do not overlap they work with the stored cursor.
Alone ==
  /\ \A t, u \in Threads : Polling(t) /\ Polling(u) => t = u
  /\ \A t \in Threads : Polling(t) => thread[t].cursor = cursor

CountsFit == ~overlapped => Alone /\ \A i \in 1 .. MaxPosts : shown[i] <= faults + Bit(Passed(i))

\* An entry that the bot is about to answer, or may still answer, has no answer yet unless
\* answers crossed.
Crossings ==
  /\ AnsweredOnce
  /\ late \subseteq crossed
  /\ thread["scan"].stage = "post" =>
       \A r \in book : r.by = "owner" /\ r.parent = Target => Target \in crossed

BookInv == BookTypeOK /\ Seen /\ CountsFit /\ Crossings

LEMMA BookInit == Init => BookInv
<1> SUFFICES ASSUME Init PROVE BookInv
  OBVIOUS
<1>1. /\ book = {} /\ written = 0 /\ late = {} /\ ready = FALSE /\ cursor = 0 /\ faults = 0
      /\ thread = [t \in Threads |-> Idle] /\ shown = [i \in 1 .. MaxPosts |-> 0]
      /\ old = {} /\ crossed = {} /\ overlapped = FALSE
  BY DEF Init
<1>2. \A t \in Threads : /\ thread[t].stage = "idle" /\ thread[t].targets = {}
                         /\ thread[t].cursor = 0 /\ thread[t].next = 0
  BY <1>1 DEF Idle
<1>3. thread \in [Threads -> Thread]
  BY <1>1 DEF Idle, Thread
<1>4. BookTypeOK
  <2>1. \A t \in Threads : ThreadFits(t)
    BY <1>1, <1>2 DEF ThreadFits, Polling
  <2>2. BookFits
    BY <1>1 DEF BookFits
  <2>3. shown \in [1 .. MaxPosts -> Nat]
    BY <1>1
  <2>4. cursor \in Nat /\ cursor <= written /\ faults \in Nat
    BY <1>1
  <2>5. ready \in BOOLEAN /\ overlapped \in BOOLEAN
    BY <1>1, Zenon
  <2>6. late \subseteq Nat \ {0} /\ old \subseteq Nat /\ crossed \subseteq Nat
    BY <1>1, Zenon
  <2> QED
    BY <1>3, <2>1, <2>2, <2>3, <2>4, <2>5, <2>6 DEF BookTypeOK
<1>5. Seen
  BY <1>1, <1>2 DEF Seen, SeenUpTo, ByOthers, Polling
<1>6. CountsFit
  <2>1. \A i \in 1 .. MaxPosts : Bit(Passed(i)) \in {0, 1}
    <3>1. \A i : Passed(i) \in BOOLEAN
      BY DEF Passed
    <3> QED
      BY <3>1, Bits
  <2>2. \A i \in 1 .. MaxPosts : shown[i] = 0
    BY <1>1
  <2>3. Alone
    BY <1>2 DEF Alone, Polling
  <2> QED
    BY <1>1, <2>1, <2>2, <2>3 DEF CountsFit
<1>7. Crossings
  BY <1>1, <1>2 DEF Crossings, AnsweredOnce, Threads
<1> QED
  BY <1>4, <1>5, <1>6, <1>7 DEF BookInv

-----------------------------------------------------------------------------
(* What the steps leave as it is.                                          *)

PollsStay ==
  \A t \in Threads :
    /\ Polling(t)' <=> Polling(t)
    /\ thread'[t].stage = "save" <=> thread[t].stage = "save"
    /\ Polling(t) => thread'[t].cursor = thread[t].cursor /\ thread'[t].next = thread[t].next

OnlyNewer == \A i \in ByOthers' : i \in Nat /\ (i \in ByOthers \/ i > written)

\* A step that neither polls nor shows anything.
LEMMA NoPoll ==
  ASSUME BookInv, PollsStay, UNCHANGED <<cursor, shown, old, overlapped>>, OnlyNewer,
         faults' \in Nat, faults <= faults'
  PROVE  Seen' /\ CountsFit'
<1>1. /\ written \in Nat /\ cursor \in Nat /\ cursor <= written /\ faults \in Nat
      /\ thread \in [Threads -> Thread] /\ shown \in [1 .. MaxPosts -> Nat]
      /\ \A t \in Threads : thread[t].cursor <= written /\ thread[t].next <= written
  BY DEF BookInv, BookTypeOK, BookFits, ThreadFits
<1>2. \A t \in Threads : thread[t].cursor \in Nat /\ thread[t].next \in Nat
  BY <1>1 DEF Thread
<1>3. ASSUME NEW n \in Nat, n <= written, SeenUpTo(n) PROVE SeenUpTo(n)'
  BY <1>1, <1>3 DEF SeenUpTo, OnlyNewer
<1>4. Seen'
  <2>1. SeenUpTo(cursor)'
    BY <1>1, <1>3 DEF BookInv, Seen, SeenUpTo
  <2>2. ASSUME NEW t \in Threads, Polling(t)' PROVE SeenUpTo(thread[t].cursor)'
    <3>1. SeenUpTo(thread[t].cursor) /\ thread'[t].cursor = thread[t].cursor
      BY <2>2 DEF BookInv, Seen, PollsStay
    <3>2. \A i \in ByOthers' : i <= thread[t].cursor => shown'[i] > 0 \/ i \in old'
      BY <1>1, <1>2, <3>1 DEF SeenUpTo, OnlyNewer
    <3> QED
      BY <3>1, <3>2 DEF SeenUpTo
  <2>3. ASSUME NEW t \in Threads, thread'[t].stage = "save" PROVE SeenUpTo(thread[t].next)'
    <3>1. SeenUpTo(thread[t].next) /\ thread'[t].next = thread[t].next
      BY <2>3 DEF BookInv, Seen, PollsStay, Polling
    <3>2. \A i \in ByOthers' : i <= thread[t].next => shown'[i] > 0 \/ i \in old'
      BY <1>1, <1>2, <3>1 DEF SeenUpTo, OnlyNewer
    <3> QED
      BY <3>1, <3>2 DEF SeenUpTo
  <2> QED
    BY <2>1, <2>2, <2>3 DEF Seen
<1>5. CountsFit'
  <2> SUFFICES ASSUME ~overlapped' PROVE Alone' /\ \A i \in 1 .. MaxPosts :
                                            shown'[i] <= faults' + Bit(Passed(i)')
    BY DEF CountsFit
  <2>1. Alone /\ \A i \in 1 .. MaxPosts : shown[i] <= faults + Bit(Passed(i))
    BY DEF BookInv, CountsFit
  <2>2. Alone'
    BY <2>1 DEF Alone, PollsStay
  <2>3. ASSUME NEW i \in 1 .. MaxPosts PROVE shown'[i] <= faults' + Bit(Passed(i)')
    <3>1. Passed(i)' <=> Passed(i)
      BY DEF Passed, PollsStay, Polling
    <3>2. Passed(i) \in BOOLEAN /\ Passed(i)' \in BOOLEAN
      BY DEF Passed
    <3>3. Bit(Passed(i)') = Bit(Passed(i)) /\ Bit(Passed(i)) \in {0, 1}
      BY <3>1, <3>2, Bits
    <3> QED
      BY <1>1, <2>1, <3>3
  <2> QED
    BY <2>2, <2>3
<1> QED
  BY <1>4, <1>5

\* A step that writes no entry and does not come to answer one.
LEMMA NoReply ==
  ASSUME BookInv, UNCHANGED crossed, late' \subseteq late, book' \subseteq book,
         thread'["scan"].stage = "post" =>
           thread["scan"].stage = "post" /\ thread'["scan"].targets = thread["scan"].targets
  PROVE  Crossings'
BY DEF BookInv, Crossings, AnsweredOnce, Target

LEMMA TargetIs ==
  ASSUME BookInv, thread["scan"].stage \in {"reply", "post"}
  PROVE  /\ Target \in thread["scan"].targets /\ Target \in Nat \ {0}
         /\ thread["scan"].targets \subseteq Nat
<1>1. thread["scan"] \in Thread /\ ThreadFits("scan")
  BY DEF BookInv, BookTypeOK, Threads
<1> QED
  BY <1>1, LeastIs DEF Thread, ThreadFits, Target

\* An entry is written.
LEMMA Written ==
  ASSUME BookInv, NEW by \in {"visitor", "owner"}, NEW bot \in BOOLEAN, NEW parent \in Nat,
         Write(by, bot, parent), by # "owner" => written < MaxPosts, bot => parent # 0
  PROVE  /\ BookFits' /\ written' = written + 1 /\ OnlyNewer
         /\ \A e \in book' : e \in book \/ (e.by = by /\ e.bot = bot /\ e.parent = parent)
         /\ /\ bot => \A r \in book : r.by = "owner" /\ r.parent = parent => parent \in crossed'
            /\ crossed \subseteq crossed'
            => AnsweredOnce'
<1> DEFINE e1 == [id |-> written + 1, by |-> by, bot |-> bot, parent |-> parent]
<1>1. /\ written \in Nat /\ book \subseteq Entry /\ book' = book \cup {e1}
      /\ written' = written + 1
      /\ \A e \in book : /\ e.id <= written
                         /\ e.by # "owner" => e.id \in 1 .. MaxPosts
                         /\ e.bot => e.parent # 0
  BY DEF BookInv, BookTypeOK, BookFits, Write
<1>2. /\ e1 \in Entry /\ e1.id = written + 1 /\ e1.by = by /\ e1.bot = bot /\ e1.parent = parent
  BY <1>1 DEF Entry
<1> HIDE DEF e1
<1>3. MaxPosts \in Nat
  BY GuestbookAssumption
<1>4. BookFits'
  <2>1. ASSUME NEW e \in book'
        PROVE  /\ e.id <= written'
               /\ e.by # "owner" => e.id \in 1 .. MaxPosts
               /\ e.bot => e.parent # 0
    <3>1. CASE e \in book
      <4>1. e.id \in Nat
        BY <1>1, <3>1 DEF Entry
      <4> QED
        BY <1>1, <3>1, <4>1
    <3>2. CASE e = e1
      BY <1>1, <1>2, <1>3, <3>2
    <3> QED
      BY <1>1, <3>1, <3>2
  <2>2. book' \subseteq Entry /\ written' \in Nat
    BY <1>1, <1>2
  <2> QED
    BY <2>1, <2>2 DEF BookFits
<1>5. OnlyNewer
  BY <1>1, <1>2 DEF OnlyNewer, ByOthers
<1>6. \A e \in book' : e \in book \/ (e.by = by /\ e.bot = bot /\ e.parent = parent)
  BY <1>1, <1>2
<1>7. ASSUME bot => \A r \in book : r.by = "owner" /\ r.parent = parent => parent \in crossed',
             crossed \subseteq crossed'
      PROVE  AnsweredOnce'
  <2> SUFFICES ASSUME NEW r \in book', NEW b \in book', b.bot, r.by = "owner",
                      r.parent = b.parent, r.id < b.id
               PROVE  b.parent \in crossed'
    BY DEF AnsweredOnce
  <2>1. CASE r \in book /\ b \in book
    BY <1>7, <2>1 DEF BookInv, Crossings, AnsweredOnce
  <2>2. CASE r \in book /\ b = e1
    BY <1>2, <1>7, <2>2
  <2>3. CASE r = e1
    <3>1. b.id \in Nat /\ b.id <= written + 1
      BY <1>1, <1>2 DEF Entry
    <3> QED
      BY <1>1, <1>2, <2>3, <3>1
  <2> QED
    BY <1>1, <2>1, <2>2, <2>3
<1> QED
  BY <1>1, <1>4, <1>5, <1>6, <1>7

-----------------------------------------------------------------------------
(* The steps of the server and of the answers.                             *)

\* The scan thread goes on within its answers; whom it still answers gets fewer.
Answering ==
  /\ thread' \in [Threads -> Thread] /\ thread'["catch_up"] = thread["catch_up"]
  /\ ~Polling("scan") /\ ~Polling("scan")'
  /\ thread'["scan"].cursor = thread["scan"].cursor /\ thread'["scan"].next = thread["scan"].next
  /\ thread'["scan"].stage \in {"reply", "post"} => thread'["scan"].targets # {}
  /\ 0 \notin thread'["scan"].targets

LEMMA AnsweringFits ==
  ASSUME BookInv, Answering \/ UNCHANGED thread, BookFits', written <= written',
         OnlyNewer, UNCHANGED <<ready, cursor, shown, old, overlapped>>,
         faults' \in Nat, faults <= faults', late' \subseteq Nat \ {0}, crossed' \subseteq Nat
  PROVE  BookTypeOK' /\ Seen' /\ CountsFit'
<1>1. PollsStay
  BY DEF Answering, PollsStay, Polling, Threads
<1>2. Seen' /\ CountsFit'
  BY <1>1, NoPoll
<1>3. /\ BookTypeOK /\ written \in Nat /\ written' \in Nat
      /\ thread \in [Threads -> Thread] /\ thread' \in [Threads -> Thread]
  BY DEF BookInv, BookTypeOK, BookFits, Answering
<1>4. ASSUME NEW t \in Threads PROVE ThreadFits(t)'
  <2>1. ThreadFits(t) /\ thread[t].cursor \in Nat /\ thread[t].next \in Nat
    BY <1>3 DEF BookTypeOK, Thread
  <2>2. thread'[t].cursor = thread[t].cursor /\ thread'[t].next = thread[t].next
    BY DEF Answering, Threads
  <2>3. thread[t].cursor <= written' /\ thread[t].next <= written'
    BY <1>3, <2>1 DEF ThreadFits
  <2>4. CASE thread'[t] = thread[t]
    BY <2>1, <2>3, <2>4 DEF ThreadFits, Polling
  <2>5. CASE Answering /\ t = "scan"
    BY <2>2, <2>3, <2>5 DEF ThreadFits, Answering, Polling
  <2> QED
    BY <2>4, <2>5 DEF Answering, Threads
<1>5. cursor' \in Nat /\ cursor' <= written'
  BY <1>3 DEF BookTypeOK
<1> QED
  BY <1>2, <1>3, <1>4, <1>5 DEF BookTypeOK

LEMMA SignStep ==
  ASSUME BookInv, NEW by \in {"visitor", "owner"}, Sign(by)
  PROVE  BookInv'
<1>1. /\ written < MaxPosts /\ Write(by, FALSE, 0)
      /\ UNCHANGED <<late, ready, cursor, thread, shown, faults, old, crossed, overlapped>>
  BY DEF Sign, history
<1>2. /\ BookFits' /\ written' = written + 1 /\ OnlyNewer /\ AnsweredOnce'
      /\ \A e \in book' : e \in book \/ (e.by = by /\ e.bot = FALSE /\ e.parent = 0)
  BY <1>1, Written
<1>3. /\ written \in Nat /\ faults \in Nat /\ late \subseteq Nat \ {0} /\ crossed \subseteq Nat
  BY DEF BookInv, BookTypeOK, BookFits
<1>4. BookTypeOK' /\ Seen' /\ CountsFit'
  BY <1>1, <1>2, <1>3, AnsweringFits
<1>5. Crossings'
  <2>1. thread["scan"].stage = "post" => Target # 0
    BY TargetIs
  <2> QED
    BY <1>1, <1>2, <2>1 DEF BookInv, Crossings, Target
<1> QED
  BY <1>4, <1>5 DEF BookInv

LEMMA OwnerStep ==
  ASSUME BookInv, NEW parent \in Ids, OwnerReplies(parent)
  PROVE  BookInv'
<1>1. /\ Write("owner", FALSE, parent)
      /\ crossed' = IF Posting(parent) THEN crossed \cup {parent} ELSE crossed
      /\ UNCHANGED <<late, ready, cursor, thread, shown, faults, old, overlapped>>
  BY DEF OwnerReplies
<1>2. parent \in Nat
  BY DEF BookInv, BookTypeOK, BookFits, Ids, Entry
<1>3. /\ BookFits' /\ written' = written + 1 /\ OnlyNewer /\ AnsweredOnce'
      /\ \A e \in book' : e \in book \/ (e.by = "owner" /\ e.bot = FALSE /\ e.parent = parent)
  BY <1>1, <1>2, Written
<1>4. /\ written \in Nat /\ faults \in Nat /\ late \subseteq Nat \ {0} /\ crossed' \subseteq Nat
  BY <1>1, <1>2 DEF BookInv, BookTypeOK, BookFits
<1>5. BookTypeOK' /\ Seen' /\ CountsFit'
  BY <1>1, <1>3, <1>4, AnsweringFits
<1>6. Crossings'
  BY <1>1, <1>3 DEF BookInv, Crossings, Target, Posting
<1> QED
  BY <1>5, <1>6 DEF BookInv

LEMMA LateStep ==
  ASSUME BookInv, NEW parent \in late, ServeLate(parent)
  PROVE  BookInv'
<1>1. /\ Write("owner", TRUE, parent) \/ UNCHANGED <<book, written>>
      /\ late' = late \ {parent}
      /\ UNCHANGED <<ready, cursor, thread, shown, faults, old, crossed, overlapped>>
  BY DEF ServeLate, history
<1>2. /\ parent \in Nat \ {0} /\ parent \in crossed /\ written \in Nat /\ faults \in Nat
      /\ late' \subseteq Nat \ {0} /\ crossed \subseteq Nat /\ BookFits
  BY <1>1 DEF BookInv, BookTypeOK, BookFits, Crossings
<1>3. CASE Write("owner", TRUE, parent)
  <2>1. /\ BookFits' /\ written' = written + 1 /\ OnlyNewer /\ AnsweredOnce'
        /\ \A e \in book' : e \in book \/ (e.by = "owner" /\ e.bot = TRUE /\ e.parent = parent)
    BY <1>1, <1>2, <1>3, Written
  <2>2. BookTypeOK' /\ Seen' /\ CountsFit'
    BY <1>1, <1>2, <2>1, AnsweringFits
  <2>3. Crossings'
    BY <1>1, <1>2, <2>1 DEF BookInv, Crossings, Target
  <2> QED
    BY <2>2, <2>3 DEF BookInv
<1>4. CASE UNCHANGED <<book, written>>
  <2>1. BookFits' /\ OnlyNewer /\ written <= written'
    BY <1>2, <1>4 DEF BookFits, OnlyNewer, ByOthers, Entry
  <2>2. BookTypeOK' /\ Seen' /\ CountsFit'
    BY <1>1, <1>2, <2>1, AnsweringFits
  <2>3. Crossings'
    BY <1>1, <1>4, NoReply
  <2> QED
    BY <2>2, <2>3 DEF BookInv
<1> QED
  BY <1>1, <1>3, <1>4

\* A step that leaves the entries, or takes some away.
LEMMA NothingWritten ==
  ASSUME BookInv, book' \subseteq book, UNCHANGED written
  PROVE  BookFits' /\ OnlyNewer /\ written \in Nat /\ written <= written'
BY DEF BookInv, BookTypeOK, BookFits, OnlyNewer, ByOthers, Entry

LEMMA DeleteStep ==
  ASSUME BookInv, NEW i \in Ids, DeleteGuestbook(i)
  PROVE  BookInv'
<1>1. /\ book' \subseteq book
      /\ UNCHANGED <<written, late, ready, cursor, thread, shown, faults, old, crossed, overlapped>>
  BY DEF DeleteGuestbook, history
<1>2. faults \in Nat /\ late \subseteq Nat \ {0} /\ crossed \subseteq Nat
  BY DEF BookInv, BookTypeOK
<1>3. BookFits' /\ OnlyNewer /\ written \in Nat /\ written <= written'
  BY <1>1, NothingWritten
<1>4. BookTypeOK' /\ Seen' /\ CountsFit'
  BY <1>1, <1>2, <1>3, AnsweringFits
<1>5. Crossings'
  BY <1>1, NoReply
<1> QED
  BY <1>4, <1>5 DEF BookInv

\* Where the scan goes after an entry.
LEMMA NextTargetIs ==
  ASSUME BookInv, thread["scan"].stage \in {"reply", "post"}, NextTarget
  PROVE  Answering /\ thread'["scan"].stage # "post"
<1>1. Target \in thread["scan"].targets /\ thread["scan"].targets \subseteq Nat
  BY TargetIs
<1>2. /\ thread \in [Threads -> Thread] /\ thread["scan"] \in Thread
      /\ 0 \notin thread["scan"].targets
  BY DEF BookInv, BookTypeOK, ThreadFits, Threads
<1> DEFINE rest == thread["scan"].targets \ {Target}
<1>3. /\ thread' = [thread EXCEPT !["scan"].targets = rest,
                                  !["scan"].stage = IF rest = {} THEN "poll" ELSE "reply"]
      /\ rest \subseteq Nat /\ 0 \notin rest
  BY <1>1, <1>2 DEF NextTarget
<1> HIDE DEF rest
<1>4. /\ thread' \in [Threads -> Thread] /\ thread'["catch_up"] = thread["catch_up"]
      /\ thread'["scan"].targets = rest
      /\ thread'["scan"].stage = IF rest = {} THEN "poll" ELSE "reply"
      /\ thread'["scan"].cursor = thread["scan"].cursor /\ thread'["scan"].next = thread["scan"].next
  BY <1>2, <1>3 DEF Thread, Threads
<1> QED
  BY <1>3, <1>4 DEF Answering, Polling

\* Where the scan goes otherwise, within its answers.
LEMMA GoesIs ==
  ASSUME BookInv, NEW stage \in {"post", "poll"}, Goes("scan", stage),
         thread["scan"].stage \in {"idle", "reply"},
         stage = "post" => thread["scan"].stage = "reply"
  PROVE  /\ Answering /\ thread'["scan"].stage = stage
         /\ thread'["scan"].targets = thread["scan"].targets
<1>1. /\ thread \in [Threads -> Thread] /\ thread["scan"] \in Thread
      /\ ThreadFits("scan")
  BY DEF BookInv, BookTypeOK, Threads
<1>2. /\ thread' \in [Threads -> Thread] /\ thread'["catch_up"] = thread["catch_up"]
      /\ thread'["scan"].targets = thread["scan"].targets /\ thread'["scan"].stage = stage
      /\ thread'["scan"].cursor = thread["scan"].cursor /\ thread'["scan"].next = thread["scan"].next
  BY <1>1 DEF Goes, Thread, Threads
<1> QED
  BY <1>1, <1>2 DEF Answering, ThreadFits, Polling

LEMMA UnansweredFit == BookInv => Unanswered \subseteq Nat \ {0}
BY DEF BookInv, BookTypeOK, BookFits, Unanswered, Entry

LEMMA ListStep ==
  ASSUME BookInv, ListTargets
  PROVE  BookInv'
<1> DEFINE targets == Targets(ReplyCap)
<1>1. targets \subseteq Nat \ {0}
  BY UnansweredFit DEF Targets
<1>2. /\ thread["scan"].stage = "idle"
      /\ thread' = [thread EXCEPT !["scan"].targets = targets,
                                  !["scan"].stage = IF targets = {} THEN "poll" ELSE "reply"]
      /\ UNCHANGED <<server, ready, cursor, shown, faults, history>>
  BY DEF ListTargets
<1> HIDE DEF targets
<1>3. /\ thread \in [Threads -> Thread] /\ thread["scan"] \in Thread
      /\ faults \in Nat /\ late \subseteq Nat \ {0} /\ crossed \subseteq Nat
  BY DEF BookInv, BookTypeOK, Threads
<1>4. /\ thread' \in [Threads -> Thread] /\ thread'["catch_up"] = thread["catch_up"]
      /\ thread'["scan"].targets = targets
      /\ thread'["scan"].stage = IF targets = {} THEN "poll" ELSE "reply"
      /\ thread'["scan"].cursor = thread["scan"].cursor /\ thread'["scan"].next = thread["scan"].next
  BY <1>1, <1>2, <1>3 DEF Thread, Threads
<1>5. Answering
  BY <1>1, <1>2, <1>4 DEF Answering, Polling
<1>6. UNCHANGED <<book, written, late, ready, cursor, shown, faults, old, crossed, overlapped>>
  BY <1>2 DEF server, history
<1>7. BookFits' /\ OnlyNewer /\ written \in Nat /\ written <= written'
  BY <1>6, NothingWritten
<1>8. BookTypeOK' /\ Seen' /\ CountsFit'
  BY <1>3, <1>5, <1>6, <1>7, AnsweringFits
<1>9. Crossings'
  BY <1>4, <1>6, NoReply
<1> QED
  BY <1>8, <1>9 DEF BookInv

LEMMA LookStep ==
  ASSUME BookInv, WriteReply
  PROVE  BookInv'
<1>1. /\ thread["scan"].stage = "reply"
      /\ IF Target \in Unanswered THEN Goes("scan", "post") ELSE NextTarget
      /\ UNCHANGED <<book, written, late, ready, cursor, shown, faults, old, crossed, overlapped>>
  BY DEF WriteReply, server, history
<1>2. /\ Answering
      /\ thread'["scan"].stage = "post" =>
           Target \in Unanswered /\ thread'["scan"].targets = thread["scan"].targets
  BY <1>1, GoesIs, NextTargetIs
<1>3. /\ faults \in Nat /\ late \subseteq Nat \ {0} /\ crossed \subseteq Nat
  BY DEF BookInv, BookTypeOK
<1>4. BookFits' /\ OnlyNewer /\ written \in Nat /\ written <= written'
  BY <1>1, NothingWritten
<1>5. BookTypeOK' /\ Seen' /\ CountsFit'
  BY <1>1, <1>2, <1>3, <1>4, AnsweringFits
<1>6. Crossings'
  <2>1. \A i \in Unanswered, r \in book : ~(r.by = "owner" /\ r.parent = i)
    BY DEF Unanswered
  <2> QED
    BY <1>1, <1>2, <2>1 DEF BookInv, Crossings, AnsweredOnce, Target
<1> QED
  BY <1>5, <1>6 DEF BookInv

\* The reply is posted, or not, and the scan goes on.
LEMMA PostFits ==
  ASSUME BookInv, thread["scan"].stage = "post", NextTarget,
         Write("owner", TRUE, Target) \/ UNCHANGED <<book, written>>,
         UNCHANGED <<ready, cursor, shown, old, crossed, overlapped, late>>,
         faults' \in Nat, faults <= faults'
  PROVE  BookInv'
<1>1. Answering /\ thread'["scan"].stage # "post"
  BY NextTargetIs
<1>2. Target \in Nat \ {0}
  BY TargetIs
<1>3. late \subseteq Nat \ {0} /\ crossed \subseteq Nat /\ written \in Nat
  BY DEF BookInv, BookTypeOK, BookFits
<1>4. CASE Write("owner", TRUE, Target)
  <2>1. \A r \in book : r.by = "owner" /\ r.parent = Target => Target \in crossed'
    BY DEF BookInv, Crossings
  <2> DEFINE parent == Target
  <2>2. parent \in Nat /\ parent # 0 /\ Write("owner", TRUE, parent)
    BY <1>2, <1>4
  <2>3. \A r \in book : r.by = "owner" /\ r.parent = parent => parent \in crossed'
    BY <2>1
  <2> HIDE DEF parent
  <2>4. BookFits' /\ written' = written + 1 /\ OnlyNewer /\ AnsweredOnce'
    BY <2>2, <2>3, Written
  <2>5. BookTypeOK' /\ Seen' /\ CountsFit'
    BY <1>1, <1>3, <2>4, AnsweringFits
  <2>6. Crossings'
    BY <1>1, <2>4 DEF BookInv, Crossings
  <2> QED
    BY <2>5, <2>6 DEF BookInv
<1>5. CASE UNCHANGED <<book, written>>
  <2>1. BookFits' /\ OnlyNewer /\ written <= written'
    BY <1>5, NothingWritten
  <2>2. BookTypeOK' /\ Seen' /\ CountsFit'
    BY <1>1, <1>3, <2>1, AnsweringFits
  <2>3. Crossings'
    BY <1>1, <1>5, NoReply
  <2> QED
    BY <2>2, <2>3 DEF BookInv
<1> QED
  BY <1>4, <1>5

LEMMA ReplyFailStep ==
  ASSUME BookInv, ReplyFails
  PROVE  BookInv'
<1>1. /\ faults \in Nat /\ faults' = faults + 1
      /\ UNCHANGED <<ready, cursor, shown, old, overlapped>>
  BY DEF BookInv, BookTypeOK, ReplyFails, Fault
<1>2. /\ faults' \in Nat /\ faults <= faults' /\ late \subseteq Nat \ {0} /\ crossed \subseteq Nat
  BY <1>1 DEF BookInv, BookTypeOK
<1>3. ASSUME Answering, UNCHANGED <<book, written, late, crossed>>,
             thread'["scan"].stage # "post"
      PROVE  BookInv'
  <2>1. BookFits' /\ OnlyNewer /\ written \in Nat /\ written <= written'
    BY <1>3, NothingWritten
  <2>2. BookTypeOK' /\ Seen' /\ CountsFit'
    BY <1>1, <1>2, <1>3, <2>1, AnsweringFits
  <2>3. Crossings'
    BY <1>3, NoReply
  <2> QED
    BY <2>2, <2>3 DEF BookInv
<1>4. CASE thread["scan"].stage = "idle" /\ Goes("scan", "poll") /\ UNCHANGED <<server, crossed>>
  BY <1>3, <1>4, GoesIs DEF server
<1>5. CASE /\ thread["scan"].stage \in {"reply", "post"} /\ NextTarget
           /\ UNCHANGED <<server, crossed>>
  BY <1>3, <1>5, NextTargetIs DEF server
<1>6. CASE /\ thread["scan"].stage = "post" /\ Write("owner", TRUE, Target) /\ NextTarget
           /\ UNCHANGED <<late, crossed>>
  BY <1>1, <1>2, <1>6, PostFits
<1>7. CASE /\ thread["scan"].stage = "post"
           /\ late' = late \cup {Target} /\ crossed' = crossed \cup {Target}
           /\ NextTarget /\ UNCHANGED <<book, written>>
  <2>1. Answering /\ thread'["scan"].stage # "post" /\ Target \in Nat \ {0}
    BY <1>7, NextTargetIs, TargetIs
  <2>2. late' \subseteq Nat \ {0} /\ crossed' \subseteq Nat
    BY <1>2, <1>7, <2>1
  <2>3. BookFits' /\ OnlyNewer /\ written \in Nat /\ written <= written'
    BY <1>7, NothingWritten
  <2>4. BookTypeOK' /\ Seen' /\ CountsFit'
    BY <1>1, <1>2, <2>1, <2>2, <2>3, AnsweringFits
  <2>5. Crossings'
    BY <1>7, <2>1 DEF BookInv, Crossings, AnsweredOnce
  <2> QED
    BY <2>4, <2>5 DEF BookInv
<1> QED
  BY <1>4, <1>5, <1>6, <1>7 DEF ReplyFails

-----------------------------------------------------------------------------
(* The steps of the polls.                                                 *)

\* Entries and answers are left alone by a step after which a thread rests or polls.
LEMMA BookRests ==
  ASSUME BookInv, UNCHANGED <<book, written, crossed>>, late' = late,
         thread'["scan"].stage = "post" =>
           thread["scan"].stage = "post" /\ thread'["scan"].targets = thread["scan"].targets
  PROVE  BookFits' /\ OnlyNewer /\ Crossings' /\ ByOthers' = ByOthers
<1>1. Crossings'
  BY NoReply
<1>2. BookFits' /\ OnlyNewer
  BY NothingWritten
<1> QED
  BY <1>1, <1>2 DEF ByOthers

LEMMA ReadyStep ==
  ASSUME BookInv, NoticesReady
  PROVE  BookInv'
<1>1. /\ ready = FALSE /\ ready' = TRUE /\ Goes("catch_up", "poll")
      /\ UNCHANGED <<book, written, late, cursor, shown, faults, old, crossed, overlapped>>
  BY DEF NoticesReady, server, history, BookInv, BookTypeOK
<1>2. /\ thread \in [Threads -> Thread] /\ thread["catch_up"] \in Thread
      /\ \A t \in Threads : ThreadFits(t) /\ ~Polling(t)
  BY <1>1 DEF BookInv, BookTypeOK, Threads, ThreadFits
<1>3. /\ thread' \in [Threads -> Thread] /\ thread'["scan"] = thread["scan"]
      /\ thread'["catch_up"].stage = "poll"
      /\ thread'["catch_up"].targets = thread["catch_up"].targets
      /\ thread'["catch_up"].cursor = thread["catch_up"].cursor
      /\ thread'["catch_up"].next = thread["catch_up"].next
  BY <1>1, <1>2 DEF Goes, Thread, Threads
<1>4. BookFits' /\ OnlyNewer /\ Crossings'
  BY <1>1, <1>3, BookRests
<1>5. PollsStay
  BY <1>2, <1>3 DEF PollsStay, Polling, Threads
<1>6. faults \in Nat /\ faults' \in Nat /\ faults <= faults'
  BY <1>1 DEF BookInv, BookTypeOK
<1>7. Seen' /\ CountsFit'
  BY <1>1, <1>4, <1>5, <1>6, NoPoll
<1>8. \A t \in Threads : ThreadFits(t)'
  BY <1>1, <1>2, <1>3 DEF ThreadFits, Polling, Threads
<1>9. BookTypeOK'
  BY <1>1, <1>3, <1>4, <1>8 DEF BookInv, BookTypeOK
<1> QED
  BY <1>4, <1>7, <1>9 DEF BookInv

\* A thread other than t is left as it is.
OthersRest(t) == \A u \in Threads \ {t} : thread'[u] = thread[u]

LEMMA BeginStep ==
  ASSUME BookInv, NEW t \in Threads, BeginPoll(t)
  PROVE  BookInv'
<1>1. /\ thread[t].stage = "poll" /\ thread \in [Threads -> Thread]
      /\ UNCHANGED <<book, written, late, ready, cursor, shown, faults, old, crossed>>
      /\ overlapped' = (overlapped \/ \E u \in Threads \ {t} : ready /\ Polling(u))
  BY DEF BeginPoll, server, BookInv, BookTypeOK
<1>2. /\ cursor \in Nat /\ cursor <= written /\ faults \in Nat /\ written \in Nat
      /\ ready \in BOOLEAN /\ overlapped \in BOOLEAN /\ \A u \in Threads : ThreadFits(u)
      /\ shown \in [1 .. MaxPosts -> Nat]
  BY DEF BookInv, BookTypeOK, BookFits
<1>3. /\ thread' \in [Threads -> Thread] /\ OthersRest(t)
      /\ ready => /\ thread'[t].stage = "fetch" /\ thread'[t].cursor = cursor
      /\ ~ready => thread'[t].stage = "idle" /\ thread'[t].cursor = 0
      /\ thread'[t].targets = {} /\ thread'[t].next = 0
  <2>1. CASE ready
    <3>1. thread' = [thread EXCEPT ![t] = [Idle EXCEPT !.stage = "fetch", !.cursor = cursor]]
      BY <2>1 DEF BeginPoll
    <3> QED
      BY <1>1, <1>2, <2>1, <3>1 DEF Idle, Thread, OthersRest
  <2>2. CASE ~ready
    <3>1. thread' = [thread EXCEPT ![t] = Idle]
      BY <2>2 DEF BeginPoll
    <3> QED
      BY <1>1, <1>2, <2>2, <3>1 DEF Idle, Thread, OthersRest
  <2> QED
    BY <2>1, <2>2
<1>4. BookFits' /\ Crossings' /\ ByOthers' = ByOthers
  <2>1. thread'["scan"].stage = "post" => t # "scan" /\ thread'["scan"] = thread["scan"]
    BY <1>2, <1>3 DEF OthersRest, Threads
  <2> QED
    BY <1>1, <2>1, BookRests
<1>5. BookTypeOK'
  <2>1. ASSUME NEW u \in Threads PROVE ThreadFits(u)'
    <3>1. CASE u = t
      BY <1>1, <1>2, <1>3, <3>1 DEF ThreadFits, Polling
    <3>2. CASE u # t
      BY <1>1, <1>2, <1>3, <3>2 DEF ThreadFits, Polling, OthersRest
    <3> QED
      BY <3>1, <3>2
  <2>2. overlapped' \in BOOLEAN
    BY <1>1, <1>2
  <2> QED
    BY <1>1, <1>3, <1>4, <2>1, <2>2 DEF BookInv, BookTypeOK
<1>6. Seen'
  BY <1>1, <1>3, <1>4 DEF BookInv, Seen, SeenUpTo, Polling, OthersRest
<1>7. CountsFit'
  <2> SUFFICES ASSUME ~overlapped' PROVE Alone' /\ \A i \in 1 .. MaxPosts :
                                            shown'[i] <= faults' + Bit(Passed(i)')
    BY DEF CountsFit
  <2>1. /\ Alone /\ \A i \in 1 .. MaxPosts : shown[i] <= faults + Bit(Passed(i))
        /\ ready => \A u \in Threads \ {t} : ~Polling(u)
    BY <1>1 DEF BookInv, CountsFit
  <2>2. Alone'
    BY <1>1, <1>2, <1>3, <2>1 DEF Alone, Polling, OthersRest
  <2>3. ASSUME NEW i \in 1 .. MaxPosts PROVE Passed(i)' <=> Passed(i)
    BY <1>1, <1>3 DEF Passed, OthersRest
  <2>4. \A i \in 1 .. MaxPosts : Bit(Passed(i)') = Bit(Passed(i))
    BY <2>3 DEF Bit
  <2> QED
    BY <1>1, <2>1, <2>2, <2>4
<1> QED
  BY <1>4, <1>5, <1>6, <1>7 DEF BookInv

\* The thread gives up, or comes to rest: it polls no more.
LEMMA RestFits ==
  ASSUME BookInv, NEW t \in Threads, Polling(t), thread' = [thread EXCEPT ![t] = Idle],
         UNCHANGED <<book, written, late, ready, old, crossed, overlapped>>
  PROVE  /\ BookFits' /\ Crossings' /\ ByOthers' = ByOthers
         /\ thread' \in [Threads -> Thread] /\ OthersRest(t)
         /\ thread'[t].stage = "idle" /\ ~Polling(t)'
         /\ \A u \in Threads : ThreadFits(u)'
<1>1. thread \in [Threads -> Thread] /\ written \in Nat /\ \A u \in Threads : ThreadFits(u)
  BY DEF BookInv, BookTypeOK, BookFits
<1>2. /\ thread' \in [Threads -> Thread] /\ OthersRest(t)
      /\ thread'[t].stage = "idle" /\ thread'[t].targets = {}
      /\ thread'[t].cursor = 0 /\ thread'[t].next = 0
  BY <1>1 DEF Idle, Thread, OthersRest
<1>3. BookFits' /\ Crossings' /\ ByOthers' = ByOthers
  <2>1. thread'["scan"].stage = "post" => thread'["scan"] = thread["scan"]
    BY <1>2 DEF OthersRest, Threads
  <2> QED
    BY <2>1, BookRests
<1>4. ASSUME NEW u \in Threads PROVE ThreadFits(u)'
  <2>1. CASE u = t
    BY <1>1, <1>2, <2>1 DEF ThreadFits, Polling
  <2>2. CASE u # t
    BY <1>1, <1>2, <2>2 DEF ThreadFits, Polling, OthersRest
  <2> QED
    BY <2>1, <2>2
<1> QED
  BY <1>2, <1>3, <1>4 DEF Polling

LEMMA PollFailStep ==
  ASSUME BookInv, NEW t \in Threads, PollFails(t)
  PROVE  BookInv'
<1>1. /\ Polling(t) /\ thread' = [thread EXCEPT ![t] = Idle] /\ faults' = faults + 1
      /\ UNCHANGED <<book, written, late, ready, cursor, shown, old, crossed, overlapped>>
  BY DEF PollFails, Fault, server, history
<1>2. /\ BookFits' /\ Crossings' /\ ByOthers' = ByOthers
      /\ thread' \in [Threads -> Thread] /\ OthersRest(t)
      /\ thread'[t].stage = "idle" /\ ~Polling(t)'
      /\ \A u \in Threads : ThreadFits(u)'
  BY <1>1, RestFits
<1>3. BookTypeOK' /\ faults \in Nat
  BY <1>1, <1>2 DEF BookInv, BookTypeOK
<1>4. Seen'
  BY <1>1, <1>2 DEF BookInv, Seen, SeenUpTo, Polling, OthersRest
<1>5. CountsFit'
  <2> SUFFICES ASSUME ~overlapped' PROVE Alone' /\ \A i \in 1 .. MaxPosts :
                                            shown'[i] <= faults' + Bit(Passed(i)')
    BY DEF CountsFit
  <2>1. Alone /\ \A i \in 1 .. MaxPosts : shown[i] <= faults + Bit(Passed(i))
    BY <1>1 DEF BookInv, CountsFit
  <2>2. Alone'
    BY <1>1, <1>2, <2>1 DEF Alone, Polling, OthersRest
  <2>3. ASSUME NEW i \in 1 .. MaxPosts PROVE shown'[i] <= faults' + Bit(Passed(i)')
    <3>1. Bit(Passed(i)) \in {0, 1} /\ Bit(Passed(i)') \in {0, 1}
      BY DEF Bit
    <3>2. shown[i] <= faults + Bit(Passed(i)) /\ shown[i] \in Nat
      BY <2>1 DEF BookInv, BookTypeOK
    <3> QED
      BY <1>1, <1>3, <3>1, <3>2
  <2> QED
    BY <2>2, <2>3
<1> QED
  BY <1>2, <1>3, <1>4, <1>5 DEF BookInv

LEMMA SaveStep ==
  ASSUME BookInv, NEW t \in Threads, SaveCursor(t)
  PROVE  BookInv'
<1>1. /\ thread[t].stage = "save" /\ thread' = [thread EXCEPT ![t] = Idle]
      /\ cursor' = IF thread[t].next = 0 THEN cursor ELSE thread[t].next
      /\ UNCHANGED <<book, written, late, ready, shown, faults, old, crossed, overlapped>>
  BY DEF SaveCursor, server, history
<1>2. Polling(t) /\ thread[t].next \in Nat /\ thread[t].cursor \in Nat
  BY <1>1 DEF BookInv, BookTypeOK, Thread, Polling
<1>3. /\ BookFits' /\ Crossings' /\ ByOthers' = ByOthers
      /\ thread' \in [Threads -> Thread] /\ OthersRest(t)
      /\ thread'[t].stage = "idle" /\ ~Polling(t)'
      /\ \A u \in Threads : ThreadFits(u)'
  BY <1>1, <1>2, RestFits
<1>4. /\ cursor \in Nat /\ cursor <= written /\ ThreadFits(t) /\ faults \in Nat
      /\ shown \in [1 .. MaxPosts -> Nat] /\ written \in Nat
  BY DEF BookInv, BookTypeOK, BookFits
<1>5. BookTypeOK'
  <2>1. cursor' \in Nat /\ cursor' <= written'
    BY <1>1, <1>2, <1>4 DEF ThreadFits
  <2> QED
    BY <1>1, <1>3, <2>1 DEF BookInv, BookTypeOK
<1>6. Seen'
  <2>1. SeenUpTo(cursor')
    BY <1>1 DEF BookInv, Seen
  <2>2. SeenUpTo(cursor)'
    BY <1>1, <1>3, <2>1 DEF SeenUpTo
  <2>3. ASSUME NEW u \in Threads
        PROVE  /\ Polling(u)' => SeenUpTo(thread[u].cursor)'
               /\ thread'[u].stage = "save" => SeenUpTo(thread[u].next)'
    BY <1>1, <1>3 DEF BookInv, Seen, SeenUpTo, Polling, OthersRest
  <2> QED
    BY <2>2, <2>3 DEF Seen
<1>7. CountsFit'
  <2> SUFFICES ASSUME ~overlapped' PROVE Alone' /\ \A i \in 1 .. MaxPosts :
                                            shown'[i] <= faults' + Bit(Passed(i)')
    BY DEF CountsFit
  <2>1. Alone /\ \A i \in 1 .. MaxPosts : shown[i] <= faults + Bit(Passed(i))
    BY <1>1 DEF BookInv, CountsFit
  <2>2. /\ \A u \in Threads : u # t => ~Polling(u)
        /\ \A u \in Threads : ~Polling(u)'
    BY <1>2, <1>3, <2>1 DEF Alone, Polling, OthersRest
  <2>3. Alone'
    BY <2>2 DEF Alone
  <2>4. thread[t].cursor = cursor /\ cursor <= thread[t].next
    BY <1>1, <1>2, <1>4, <2>1 DEF Alone, ThreadFits
  <2>5. cursor' = thread[t].next
    BY <1>1, <1>2, <1>4, <2>4
  <2>6. ASSUME NEW i \in 1 .. MaxPosts PROVE Passed(i) <=> Passed(i)'
    <3>1. Passed(i) <=> i <= cursor \/ i <= thread[t].next
      BY <1>1, <2>2 DEF Passed, Polling
    <3>2. Passed(i)' <=> i <= cursor'
      BY <2>2 DEF Passed, Polling
    <3>3. i <= cursor => i <= thread[t].next
      BY <1>2, <1>4, <2>4
    <3> QED
      BY <2>5, <3>1, <3>2, <3>3
  <2>7. \A i \in 1 .. MaxPosts : Bit(Passed(i)') = Bit(Passed(i))
    BY <2>6 DEF Bit
  <2> QED
    BY <1>1, <2>1, <2>3, <2>7
<1> QED
  BY <1>3, <1>5, <1>6, <1>7 DEF BookInv

LEMMA FetchStep ==
  ASSUME BookInv, NEW t \in Threads, FetchAndEmit(t)
  PROVE  BookInv'
<1> DEFINE at == thread[t].cursor
           next == NextCursor(thread[t].cursor)
<1>1. /\ thread[t].stage = "fetch" /\ thread \in [Threads -> Thread]
      /\ thread' = [thread EXCEPT ![t].next = next, ![t].stage = "save"]
      /\ shown' = [i \in DOMAIN shown |-> IF ready /\ i \in New(at) THEN shown[i] + 1 ELSE shown[i]]
      /\ old' = IF at = 0 THEN old \cup ByOthers ELSE old
      /\ UNCHANGED <<book, written, late, ready, cursor, faults, crossed, overlapped>>
  BY DEF FetchAndEmit, server, BookInv, BookTypeOK
<1>2. /\ cursor \in Nat /\ cursor <= written /\ faults \in Nat /\ written \in Nat
      /\ shown \in [1 .. MaxPosts -> Nat] /\ \A u \in Threads : ThreadFits(u)
      /\ BookFits /\ old \subseteq Nat /\ MaxPosts \in Nat
  BY GuestbookAssumption DEF BookInv, BookTypeOK, BookFits
<1>3. ByOthers \subseteq 0 .. written /\ ByOthers \subseteq 1 .. MaxPosts
  BY DEF BookInv, BookTypeOK, BookFits, ByOthers, Entry
<1>4. /\ at \in Nat /\ at <= written /\ ready = TRUE /\ Polling(t)
  <2>1. Polling(t) /\ ThreadFits(t) /\ thread[t] \in Thread
    BY <1>1, <1>2 DEF Polling
  <2>2. ready \in BOOLEAN
    BY DEF BookInv, BookTypeOK
  <2> QED
    BY <2>1, <2>2 DEF ThreadFits, Thread
<1>5. next \in Nat /\ next <= written /\ at <= next /\ \A i \in ByOthers : i <= next
  <2> DEFINE S == ByOthers \cup {at}
  <2>1. next = Latest(S)
    BY DEF NextCursor
  <2> HIDE DEF at, next
  <2>2. at \in 0 .. written
    BY <1>2, <1>4
  <2>3. S \subseteq 0 .. written /\ S # {} /\ at \in S /\ ByOthers \subseteq S
    BY <1>3, <2>2
  <2> HIDE DEF S
  <2>4. Latest(S) \in S /\ \A j \in S : j <= Latest(S)
    BY <1>2, <2>3, LatestIs
  <2>5. Latest(S) \in 0 .. written
    BY <2>3, <2>4
  <2> QED
    BY <1>2, <2>1, <2>3, <2>4, <2>5
<1> HIDE DEF at, next
<1>6. /\ thread' \in [Threads -> Thread] /\ OthersRest(t)
      /\ thread'[t].stage = "save" /\ thread'[t].next = next
      /\ thread'[t].cursor = at /\ thread'[t].targets = thread[t].targets
  BY <1>1, <1>5 DEF Thread, OthersRest, at
<1>7. BookFits' /\ Crossings' /\ ByOthers' = ByOthers
  <2>1. thread'["scan"].stage = "post" => thread'["scan"] = thread["scan"]
    BY <1>6 DEF OthersRest, Threads
  <2> QED
    BY <1>1, <2>1, BookRests
<1>8. /\ shown' \in [1 .. MaxPosts -> Nat]
      /\ \A i \in 1 .. MaxPosts : shown'[i] = IF i \in New(at) THEN shown[i] + 1 ELSE shown[i]
  BY <1>1, <1>2, <1>4
<1>9. BookTypeOK'
  <2>1. ASSUME NEW u \in Threads PROVE ThreadFits(u)'
    <3>1. CASE u = t
      BY <1>1, <1>2, <1>4, <1>5, <1>6, <3>1 DEF ThreadFits, Polling
    <3>2. CASE u # t
      BY <1>1, <1>2, <1>6, <3>2 DEF ThreadFits, Polling, OthersRest
    <3> QED
      BY <3>1, <3>2
  <2>2. old' \subseteq Nat
    BY <1>1, <1>2, <1>3
  <2>3. BookTypeOK
    BY DEF BookInv
  <2> QED
    BY <1>1, <1>6, <1>7, <1>8, <2>1, <2>2, <2>3 DEF BookTypeOK
<1>10. Seen'
  <2>1. SeenUpTo(at)
    BY <1>4 DEF BookInv, Seen, at
  <2>2. \A i \in ByOthers : shown'[i] > 0 \/ i \in old'
    <3> SUFFICES ASSUME NEW i \in ByOthers PROVE shown'[i] > 0 \/ i \in old'
      OBVIOUS
    <3>1. i \in Nat /\ i \in 1 .. MaxPosts /\ shown[i] \in Nat
      BY <1>2, <1>3
    <3>2. CASE at = 0
      BY <1>1, <3>2
    <3>3. CASE at # 0 /\ i > at
      BY <1>8, <3>1, <3>3 DEF New
    <3>4. CASE at # 0 /\ i <= at
      BY <1>1, <1>8, <2>1, <3>1, <3>4 DEF New, SeenUpTo
    <3> QED
      BY <1>4, <3>1, <3>2, <3>3, <3>4
  <2>3. SeenUpTo(cursor)'
    BY <1>7, <2>2 DEF SeenUpTo
  <2>4. ASSUME NEW u \in Threads
        PROVE  SeenUpTo(thread[u].cursor)' /\ SeenUpTo(thread[u].next)'
    BY <1>7, <2>2 DEF SeenUpTo
  <2> QED
    BY <2>3, <2>4 DEF Seen
<1>11. CountsFit'
  <2> SUFFICES ASSUME ~overlapped' PROVE Alone' /\ \A i \in 1 .. MaxPosts :
                                            shown'[i] <= faults' + Bit(Passed(i)')
    BY DEF CountsFit
  <2>1. Alone /\ \A i \in 1 .. MaxPosts : shown[i] <= faults + Bit(Passed(i))
    BY <1>1 DEF BookInv, CountsFit
  <2>2. at = cursor /\ \A u \in Threads : u # t => ~Polling(u)
    BY <1>4, <2>1 DEF Alone, at
  <2>3. Alone'
    BY <1>1, <1>6, <2>2 DEF Alone, Polling, OthersRest
  <2>4. ASSUME NEW i \in 1 .. MaxPosts PROVE shown'[i] <= faults' + Bit(Passed(i)')
    <3>1. Passed(i) <=> i <= cursor
      BY <1>1, <2>2 DEF Passed, Polling
    <3>2. Passed(i)' <=> i <= cursor \/ i <= next
      BY <1>1, <1>6, <2>2 DEF Passed, OthersRest, Polling
    <3>3. shown[i] <= faults + Bit(Passed(i)) /\ shown[i] \in Nat
      BY <1>2, <2>1
    <3>4. CASE i \in New(at)
      <4>1. i \in ByOthers /\ i > at
        BY <3>4 DEF New
      <4>2. Passed(i)' /\ ~Passed(i)
        BY <1>2, <1>5, <2>2, <3>1, <3>2, <4>1
      <4>3. Bit(Passed(i)') = 1 /\ Bit(Passed(i)) = 0
        BY <4>2 DEF Bit
      <4> QED
        BY <1>1, <1>2, <1>8, <3>3, <3>4, <4>3
    <3>5. CASE i \notin New(at)
      <4>1. Passed(i) => Passed(i)'
        BY <3>1, <3>2
      <4>2. Bit(Passed(i)) <= Bit(Passed(i)') /\ Bit(Passed(i)) \in {0, 1} /\ Bit(Passed(i)') \in {0, 1}
        BY <4>1 DEF Bit
      <4> QED
        BY <1>1, <1>2, <1>8, <3>3, <3>5, <4>2
    <3> QED
      BY <3>4, <3>5
  <2> QED
    BY <2>3, <2>4
<1> QED
  BY <1>7, <1>9, <1>10, <1>11 DEF BookInv

LEMMA QuitStep ==
  ASSUME BookInv, Quit
  PROVE  BookInv'
<1> DEFINE sent == IF thread["scan"].stage = "post" THEN {Target} ELSE {}
<1>1. /\ faults' = faults + 1 /\ ready' = FALSE
      /\ late' = late \cup sent /\ crossed' = crossed \cup sent
      /\ thread' = [t \in Threads |-> Idle]
      /\ UNCHANGED <<book, written, cursor, shown, old, overlapped>>
  BY DEF Quit, Fault
<1>2. sent \subseteq Nat \ {0}
  BY TargetIs
<1> HIDE DEF sent
<1>3. /\ cursor \in Nat /\ cursor <= written /\ faults \in Nat /\ written \in Nat
      /\ shown \in [1 .. MaxPosts -> Nat] /\ BookFits /\ old \subseteq Nat
      /\ late \subseteq Nat \ {0} /\ crossed \subseteq Nat /\ overlapped \in BOOLEAN
  BY DEF BookInv, BookTypeOK, BookFits
<1>4. /\ thread' \in [Threads -> Thread]
      /\ \A t \in Threads : /\ thread'[t].stage = "idle" /\ thread'[t].targets = {}
                            /\ thread'[t].cursor = 0 /\ thread'[t].next = 0
  BY <1>1 DEF Idle, Thread
<1>5. BookFits' /\ ByOthers' = ByOthers
  BY <1>1, <1>3 DEF BookFits, ByOthers
<1>6. \A t \in Threads : ThreadFits(t)' /\ ~Polling(t)'
  BY <1>1, <1>3, <1>4 DEF ThreadFits, Polling
<1>7. BookTypeOK'
  <2>1. late' \subseteq Nat \ {0} /\ crossed' \subseteq Nat
    BY <1>1, <1>2, <1>3
  <2>2. ready' \in BOOLEAN
    BY <1>1, Zenon
  <2>3. faults' \in Nat /\ cursor' \in Nat /\ cursor' <= written' /\ old' \subseteq Nat
        /\ overlapped' \in BOOLEAN /\ shown' \in [1 .. MaxPosts -> Nat]
    BY <1>1, <1>3
  <2> QED
    BY <1>4, <1>5, <1>6, <2>1, <2>2, <2>3 DEF BookTypeOK
<1>8. Seen'
  <2>1. SeenUpTo(cursor)'
    BY <1>1, <1>5 DEF BookInv, Seen, SeenUpTo
  <2> QED
    BY <1>4, <1>6, <2>1 DEF Seen
<1>9. CountsFit'
  <2> SUFFICES ASSUME ~overlapped' PROVE Alone' /\ \A i \in 1 .. MaxPosts :
                                            shown'[i] <= faults' + Bit(Passed(i)')
    BY DEF CountsFit
  <2>1. \A i \in 1 .. MaxPosts : shown[i] <= faults + Bit(Passed(i))
    BY <1>1 DEF BookInv, CountsFit
  <2>2. Alone'
    BY <1>6 DEF Alone
  <2>3. ASSUME NEW i \in 1 .. MaxPosts PROVE shown'[i] <= faults' + Bit(Passed(i)')
    <3>1. Bit(Passed(i)) \in {0, 1} /\ Bit(Passed(i)') \in {0, 1}
      BY DEF Bit
    <3>2. shown[i] <= faults + Bit(Passed(i)) /\ shown[i] \in Nat
      BY <1>3, <2>1
    <3> QED
      BY <1>1, <1>3, <3>1, <3>2
  <2> QED
    BY <2>2, <2>3
<1>10. Crossings'
  <2>1. thread'["scan"].stage # "post"
    BY <1>4 DEF Threads
  <2>2. AnsweredOnce' /\ late' \subseteq crossed'
    BY <1>1 DEF BookInv, Crossings, AnsweredOnce
  <2> QED
    BY <2>1, <2>2 DEF Crossings
<1> QED
  BY <1>7, <1>8, <1>9, <1>10 DEF BookInv

LEMMA PostStep ==
  ASSUME BookInv, PostReply
  PROVE  BookInv'
<1>1. /\ thread["scan"].stage = "post" /\ NextTarget
      /\ Write("owner", TRUE, Target) \/ UNCHANGED <<book, written>>
      /\ UNCHANGED <<late, ready, cursor, shown, faults, old, crossed, overlapped>>
  BY DEF PostReply, history
<1>2. faults \in Nat /\ faults' = faults /\ faults <= faults
  BY <1>1 DEF BookInv, BookTypeOK
<1> QED
  BY <1>1, <1>2, PostFits

LEMMA BookNext == BookInv /\ [Next]_vars => BookInv'
<1>1. ASSUME BookInv, UNCHANGED vars PROVE BookInv'
  BY <1>1 DEF BookInv, BookTypeOK, BookFits, ThreadFits, Polling, Seen, SeenUpTo, ByOthers,
     CountsFit, Alone, Passed, Crossings, AnsweredOnce, Target, vars, server, history
<1>2. ASSUME BookInv, Next PROVE BookInv'
  <2>1. CASE \/ \E by \in {"visitor", "owner"} : Sign(by)
             \/ \E i \in Ids : OwnerReplies(i) \/ DeleteGuestbook(i)
             \/ \E i \in late : ServeLate(i)
    BY <1>2, <2>1, SignStep, OwnerStep, DeleteStep, LateStep
  <2>2. CASE ListTargets \/ WriteReply \/ PostReply \/ ReplyFails \/ NoticesReady \/ Quit
    BY <1>2, <2>2, ListStep, LookStep, PostStep, ReplyFailStep, ReadyStep, QuitStep
  <2>3. CASE \E t \in Threads : Poll(t) \/ PollFails(t)
    BY <1>2, <2>3, BeginStep, FetchStep, SaveStep, PollFailStep DEF Poll
  <2> QED
    BY <1>2, <2>1, <2>2, <2>3 DEF Next, Scan, Threads
<1> QED
  BY <1>1, <1>2

LEMMA BookEnough == BookInv => EachOnce
<1> SUFFICES ASSUME BookInv PROVE EachOnce
  OBVIOUS
<1>1. NothingSkipped
  BY DEF BookInv, Seen, SeenUpTo, NothingSkipped
<1>2. OneNotice
  <2>1. shown \in [1 .. MaxPosts -> Nat] /\ faults \in Nat
    BY DEF BookInv, BookTypeOK
  <2>2. \A i : Bit(Passed(i)) \in {0, 1}
    BY DEF Bit
  <2> QED
    BY <2>1, <2>2 DEF BookInv, CountsFit, OneNotice
<1> QED
  BY <1>1, <1>2 DEF BookInv, Crossings, EachOnce, NoticedOnce

\* An entry of the guestbook has one notice and one answer of the bot: no notice is lost or
\* repeated, and no answered entry is answered again, in whatever order the scan, the
\* thread that catches up, the owner and other people, failing calls, late replies and
\* quits come, apart from what EachOnce excepts.
THEOREM EntriesServedOnce == MCSpec => []EachOnce
<1>1. MCInit => BookInv
  BY BookInit DEF MCInit
<1>2. BookInv /\ [MCNext]_<<vars, cardVars, part>> => BookInv'
  <2>1. [MCNext]_<<vars, cardVars, part>> => [Next]_vars
    BY DEF MCNext
  <2> QED
    BY <2>1, BookNext
<1> QED
  BY <1>1, <1>2, BookEnough, PTL DEF MCSpec

-----------------------------------------------------------------------------
(* The cards: translations and announcements.                              *)

Texts == [{"news", "boris", "page", "notice", "tip"} -> Nat]

CardTypeOK ==
  /\ mix \in Mixes /\ offer \in Texts
  /\ rows \in [Cards!Items -> Cards!Row]
  /\ \A i \in DOMAIN got.text : got.text[i] \in Nat

\* What the engine translates is the text of the card, if that is still there: only a
\* curation changes it, and that is a step of the same thread.
Translating ==
  scan = "translating" =>
    \A i \in DOMAIN got.text : i \in Cards!Items /\ (Cards!Stored(i) => rows[i].text = got.text[i])

\* The threads that have a notice to emit.
InFlight == Bit(scan = "emit") + Bit(window = "emit")

\* Who has recorded the notice emits it, to a window that listens.
Announcing ==
  /\ listening \in BOOLEAN /\ heard \in Nat
  /\ scan = "emit" \/ window = "emit" => listening
  /\ lost => told
  /\ ~told => heard = 0 /\ InFlight = 0
  /\ told /\ ~lost => heard + InFlight = 1
  /\ told => InFlight <= 1

LEMMA TextNat == CardTypeOK => \A i : Cards!Text(i) \in Nat
<1> SUFFICES ASSUME CardTypeOK, NEW i PROVE Cards!Text(i) \in Nat
  OBVIOUS
<1>1. CASE i \in Cards!Feeds \/ i \in {"cache", "praise"} \/ i \notin DOMAIN mix
  BY <1>1 DEF Cards!Text, Cards!Feeds, CardTypeOK
<1>2. CASE i \notin Cards!Feeds \cup {"cache", "praise"} /\ i \in DOMAIN mix
  <2>1. Cards!Text(i) = offer[i]
    BY <1>2 DEF Cards!Text
  <2>2. i \in {"notice", "tip"}
    BY <1>2, CardsAssumption
       DEF CardTypeOK, Cards!ContentAssumption, Cards!Items, Cards!Feeds
  <2> QED
    BY <2>1, <2>2 DEF CardTypeOK, Texts
<1> QED
  BY <1>1, <1>2

CardTexts == CardTypeOK /\ Cards!TranslationFits /\ Translating

\* A step that leaves the cards as they are, and takes nothing up to translate.
LEMMA CardsRest ==
  ASSUME CardTexts, mix' = mix, offer' \in Texts, rows' = rows,
         \A i \in DOMAIN got'.text : got'.text[i] \in Nat,
         scan' = "translating" => scan = "translating" /\ got' = got
  PROVE  CardTexts'
BY DEF CardTexts, CardTypeOK, Cards!TranslationFits, Translating, Cards!Stored

\* One that changes neither texts nor translations.
LEMMA CardsDisposed ==
  ASSUME CardTexts, UNCHANGED <<mix, offer, got, scan>>, rows' \in [Cards!Items -> Cards!Row],
         \A i \in Cards!Items :
           /\ rows'[i].text = rows[i].text /\ rows'[i].ko = rows[i].ko
           /\ Cards!Stored(i)' => Cards!Stored(i)
  PROVE  CardTexts'
BY DEF CardTexts, CardTypeOK, Cards!TranslationFits, Translating

LEMMA CurateStep ==
  ASSUME CardTexts, Cards!Curate
  PROVE  CardTexts'
<1>1. /\ rows' = [i \in Cards!Items |->
                    IF Cards!Text(i) > 0 THEN Cards!Upserted(i, rows[i])
                    ELSE IF Cards!Stale(i) THEN Cards!NoRow ELSE rows[i]]
      /\ scan' = "curated" /\ got' = Cards!Nothing /\ UNCHANGED <<mix, offer>>
  BY DEF Cards!Curate, Cards!world
<1>2. ASSUME NEW i \in Cards!Items
      PROVE  rows'[i] \in Cards!Row /\ rows'[i].ko \in {0, rows'[i].text}
  <2>1. Cards!Text(i) \in Nat /\ Cards!Good(i) \in BOOLEAN
    BY TextNat DEF CardTexts, Cards!Good
  <2>2. rows[i] \in Cards!Row /\ rows[i].ko \in {0, rows[i].text}
    BY DEF CardTexts, CardTypeOK, Cards!TranslationFits
  <2> DEFINE text == Cards!Text(i)
             good == Cards!Good(i)
             status == IF rows[i].status = "none" THEN "new" ELSE rows[i].status
             ko == IF rows[i].text = text THEN rows[i].ko ELSE 0
  <2>3. Cards!Upserted(i, rows[i]) =
          [rows[i] EXCEPT !.status = status, !.text = text, !.good = good, !.ko = ko]
    BY DEF Cards!Upserted
  <2>4. text \in Nat /\ good \in BOOLEAN /\ ko \in {0, text} /\ ko \in Nat
        /\ status \in Cards!Status
    BY <2>1, <2>2 DEF Cards!Row, Cards!Status
  <2> HIDE DEF text, good, status, ko
  <2>5. /\ Cards!Upserted(i, rows[i]) \in Cards!Row
        /\ Cards!Upserted(i, rows[i]).ko \in {0, Cards!Upserted(i, rows[i]).text}
    BY <2>2, <2>3, <2>4 DEF Cards!Row
  <2>6. Cards!NoRow \in Cards!Row /\ Cards!NoRow.ko = 0
    BY DEF Cards!NoRow, Cards!Row, Cards!Status
  <2> QED
    BY <1>1, <2>2, <2>5, <2>6
<1>3. rows' \in [Cards!Items -> Cards!Row] /\ DOMAIN got'.text = {}
  BY <1>1, <1>2 DEF Cards!Nothing
<1> QED
  BY <1>1, <1>2, <1>3 DEF CardTexts, CardTypeOK, Cards!TranslationFits, Translating

LEMMA TakeStep ==
  ASSUME CardTexts, Cards!TakeUntranslated
  PROVE  CardTexts'
<1>1. /\ scan = "curated" /\ UNCHANGED <<mix, offer, rows>>
      /\ \/ scan' = "translated" /\ got' = got
         \/ got' = [Cards!Nothing EXCEPT !.text = [i \in Cards!Picked |-> rows[i].text]]
  BY DEF Cards!TakeUntranslated, Cards!world
<1>2. Cards!Picked \subseteq Cards!Items
  BY DEF Cards!Picked, Cards!Untranslated, Cards!Foreign, Cards!Items
<1>3. CASE scan' = "translated" /\ got' = got
  BY <1>1, <1>3, CardsRest DEF CardTexts, CardTypeOK
<1>4. CASE got' = [Cards!Nothing EXCEPT !.text = [i \in Cards!Picked |-> rows[i].text]]
  <2>1. got'.text = [i \in Cards!Picked |-> rows[i].text]
    BY <1>4 DEF Cards!Nothing
  <2>2. \A i \in Cards!Items : rows[i].text \in Nat
    BY DEF CardTexts, CardTypeOK, Cards!Row
  <2>3. \A i \in DOMAIN got'.text : i \in Cards!Items /\ got'.text[i] = rows[i].text
    BY <1>2, <2>1
  <2> QED
    BY <1>1, <2>2, <2>3 DEF CardTexts, CardTypeOK, Cards!TranslationFits, Translating
<1> QED
  BY <1>1, <1>3, <1>4

LEMMA StoreStep ==
  ASSUME CardTexts, Cards!StoreTranslations
  PROVE  CardTexts'
<1>1. PICK failing \in SUBSET DOMAIN got.text :
        rows' = [i \in Cards!Items |->
                   IF i \in DOMAIN got.text \ failing /\ Cards!Stored(i)
                   THEN [rows[i] EXCEPT !.ko = got.text[i]] ELSE rows[i]]
  BY DEF Cards!StoreTranslations
<1>2. /\ scan = "translating" /\ scan' = "translated" /\ got' = Cards!Nothing
      /\ UNCHANGED <<mix, offer>>
  BY DEF Cards!StoreTranslations, Cards!world
<1>3. ASSUME NEW i \in Cards!Items
      PROVE  rows'[i] \in Cards!Row /\ rows'[i].ko \in {0, rows'[i].text}
  <2>1. rows[i] \in Cards!Row /\ rows[i].ko \in {0, rows[i].text}
    BY DEF CardTexts, CardTypeOK, Cards!TranslationFits
  <2>2. CASE i \in DOMAIN got.text \ failing /\ Cards!Stored(i)
    <3>1. rows'[i] = [rows[i] EXCEPT !.ko = got.text[i]]
      BY <1>1, <2>2
    <3>2. got.text[i] = rows[i].text
      BY <1>2, <2>2 DEF CardTexts, Translating
    <3> QED
      BY <2>1, <3>1, <3>2 DEF Cards!Row
  <2>3. CASE ~(i \in DOMAIN got.text \ failing /\ Cards!Stored(i))
    BY <1>1, <2>1, <2>3
  <2> QED
    BY <2>2, <2>3
<1>4. rows' \in [Cards!Items -> Cards!Row] /\ DOMAIN got'.text = {}
  BY <1>1, <1>2, <1>3 DEF Cards!Nothing
<1> QED
  BY <1>2, <1>3, <1>4 DEF CardTexts, CardTypeOK, Cards!TranslationFits, Translating

\* The user disposes of a card; a cooldown ends.
LEMMA DisposeStep ==
  ASSUME CardTexts,
         NEW i \in Cards!Items,
         \/ \E s \in Cards!Status \ {"none"} : Cards!SetStatus(i, s)
         \/ Cards!CoolDown(i)
  PROVE  CardTexts'
<1>1. UNCHANGED <<mix, offer, got, scan>> /\ rows \in [Cards!Items -> Cards!Row]
  BY DEF Cards!SetStatus, Cards!CoolDown, Cards!world, CardTexts, CardTypeOK
<1>2. CASE \E s \in Cards!Status \ {"none"} : Cards!SetStatus(i, s)
  <2>1. PICK s \in Cards!Status \ {"none"} : Cards!SetStatus(i, s)
    BY <1>2
  <2> DEFINE recent == s = "dismissed" /\ i \in Cards!SameAxis
  <2>2. recent \in BOOLEAN /\ Cards!Stored(i)
    BY <2>1 DEF Cards!SetStatus
  <2>3. rows' = [rows EXCEPT ![i].status = s, ![i].recent = recent]
    BY <2>1 DEF Cards!SetStatus
  <2> HIDE DEF recent
  <2>4. /\ rows' \in [Cards!Items -> Cards!Row]
        /\ \A j \in Cards!Items :
             /\ rows'[j].text = rows[j].text /\ rows'[j].ko = rows[j].ko
             /\ rows'[j].status # "none" => rows[j].status # "none"
    BY <1>1, <2>1, <2>2, <2>3 DEF Cards!Row, Cards!Stored
  <2> QED
    BY <1>1, <2>4, CardsDisposed DEF Cards!Stored
<1>3. CASE Cards!CoolDown(i)
  <2>1. rows' = [rows EXCEPT ![i].recent = FALSE]
    BY <1>3 DEF Cards!CoolDown
  <2>2. /\ rows' \in [Cards!Items -> Cards!Row]
        /\ \A j \in Cards!Items :
             /\ rows'[j].text = rows[j].text /\ rows'[j].ko = rows[j].ko
             /\ rows'[j].status = rows[j].status
    BY <1>1, <2>1 DEF Cards!Row
  <2> QED
    BY <1>1, <2>2, CardsDisposed DEF Cards!Stored
<1> QED
  BY <1>2, <1>3

\* Every step of the cards.
LEMMA CardTextsNext == CardTexts /\ [Cards!Next]_cardVars => CardTexts'
<1> SUFFICES ASSUME CardTexts, [Cards!Next]_cardVars PROVE CardTexts'
  OBVIOUS
<1>1. /\ mix \in Mixes /\ offer \in Texts /\ \A i \in DOMAIN got.text : got.text[i] \in Nat
  BY DEF CardTexts, CardTypeOK
<1>2. ASSUME UNCHANGED <<mix, offer, rows, got>>, scan' # "translating" \/ scan' = scan
      PROVE  CardTexts'
  BY <1>1, <1>2, CardsRest
<1>3. ASSUME UNCHANGED <<mix, offer, rows>>, got' = Cards!Nothing, scan' # "translating"
      PROVE  CardTexts'
  <2>1. DOMAIN got'.text = {}
    BY <1>3 DEF Cards!Nothing
  <2> QED
    BY <1>1, <1>3, <2>1, CardsRest
<1>4. CASE UNCHANGED cardVars
  BY <1>2, <1>4 DEF cardVars
<1>5. CASE Cards!Fetch
  <2>1. PICK failing \in SUBSET Cards!Asked, partial \in SUBSET {"page"} :
          /\ partial \subseteq failing
          /\ got' = [due |-> Cards!Due,
                     text |-> [f \in (Cards!Asked \ failing) \cup partial |-> offer[f]],
                     complete |-> Cards!Asked \ failing]
    BY <1>5 DEF Cards!Fetch
  <2>2. Cards!Asked \subseteq {"news", "boris", "page"}
    BY DEF Cards!Asked, Cards!Feeds
  <2>3. \A f \in DOMAIN got'.text : got'.text[f] \in Nat
    BY <1>1, <2>1, <2>2 DEF Texts
  <2>4. UNCHANGED <<mix, offer, rows>> /\ scan' = "fetched"
    BY <1>5 DEF Cards!Fetch, Cards!world
  <2> QED
    BY <1>1, <2>3, <2>4, CardsRest
<1>6. CASE Cards!Curate \/ Cards!TakeUntranslated \/ Cards!StoreTranslations
  BY <1>6, CurateStep, TakeStep, StoreStep
<1>7. CASE Cards!CurateFails \/ Cards!Quit
  BY <1>3, <1>7 DEF Cards!CurateFails, Cards!Quit, Cards!world
<1>8. CASE Cards!Announce \/ Cards!EmitFromScan \/ Cards!Window
  BY <1>2, <1>8 DEF Cards!Announce, Cards!EmitFromScan, Cards!Window,
     Cards!AnnounceFromWindow, Cards!EmitFromWindow, Cards!world
<1>9. CASE \E i \in DOMAIN mix \cap (Cards!Feeds \cup {"notice"}) :
             \E t \in 0 .. mix[i] : Cards!Publish(i, t)
  <2>1. PICK i \in DOMAIN mix \cap (Cards!Feeds \cup {"notice"}) :
          \E t \in 0 .. mix[i] : Cards!Publish(i, t)
    BY <1>9
  <2>2. PICK t \in 0 .. mix[i] : Cards!Publish(i, t)
    BY <2>1
  <2>3. t \in Nat
    BY <1>1, <2>1, <2>2, CardsAssumption DEF Cards!ContentAssumption
  <2>4. offer' = [offer EXCEPT ![i] = t] /\ UNCHANGED <<mix, rows, got, scan>>
    BY <2>2 DEF Cards!Publish
  <2>5. offer' \in Texts
    BY <1>1, <2>3, <2>4 DEF Texts
  <2> QED
    BY <1>1, <2>4, <2>5, CardsRest
<1>10. CASE \/ \E i \in Cards!Items : Cards!CoolDown(i)
            \/ \E i \in Cards!Items, s \in Cards!Status \ {"none"} : Cards!SetStatus(i, s)
  BY <1>10, DisposeStep
<1>11. CASE \/ \E f \in Cards!Feeds : Cards!Expire(f)
            \/ Cards!Learn \/ (\E n \in Levels : Cards!Midnight(n))
            \/ Cards!SwitchHub \/ Cards!NoticesReady
  BY <1>2, <1>11 DEF Cards!Expire, Cards!Learn, Cards!Midnight, Cards!SwitchHub,
     Cards!NoticesReady, Cards!world
<1> QED
  BY <1>4, <1>5, <1>6, <1>7, <1>8, <1>9, <1>10, <1>11
     DEF Cards!Next, Cards!Scan, Cards!World, Cards!User

\* A thread that takes the notice up, and one that emits it.
LEMMA AnnouncingNext == Announcing /\ [Cards!Next]_cardVars => Announcing'
<1> SUFFICES ASSUME Announcing, [Cards!Next]_cardVars PROVE Announcing'
  OBVIOUS
<1>1. /\ Bit(scan = "emit") \in {0, 1} /\ Bit(window = "emit") \in {0, 1} /\ heard \in Nat
      /\ InFlight = Bit(scan = "emit") + Bit(window = "emit")
  BY DEF Bit, Announcing, InFlight
<1>2. /\ scan = "emit" => Bit(scan = "emit") = 1
      /\ scan # "emit" => Bit(scan = "emit") = 0
      /\ window = "emit" => Bit(window = "emit") = 1
      /\ window # "emit" => Bit(window = "emit") = 0
      /\ scan' = "emit" => Bit(scan' = "emit") = 1
      /\ scan' # "emit" => Bit(scan' = "emit") = 0
      /\ window' = "emit" => Bit(window' = "emit") = 1
      /\ window' # "emit" => Bit(window' = "emit") = 0
      /\ InFlight' = Bit(scan' = "emit") + Bit(window' = "emit")
  BY DEF Bit, InFlight
<1>3. ASSUME UNCHANGED <<window, listening, told, heard, lost>>,
             scan' = scan \/ (scan # "emit" /\ scan' # "emit")
      PROVE  Announcing'
  <2>1. InFlight' = InFlight
    BY <1>3 DEF InFlight, Bit
  <2> QED
    BY <1>3, <2>1 DEF Announcing
<1>4. CASE Cards!Announce
  <2>1. /\ scan = "translated" /\ UNCHANGED <<window, listening, heard, lost>>
        /\ told' = (told \/ Cards!FreshNotice)
        /\ scan' = IF Cards!FreshNotice THEN "emit" ELSE "idle"
    BY <1>4 DEF Cards!Announce
  <2>2. CASE Cards!FreshNotice
    <3>1. ~told /\ listening
      BY <2>2, Zenon DEF Cards!FreshNotice
    <3>2. told' /\ ~lost /\ heard = 0 /\ InFlight = 0
      BY <2>1, <2>2, <3>1, Zenon DEF Announcing
    <3>3. window # "emit"
      BY <1>1, <1>2, <3>2
    <3>4. InFlight' = 1
      BY <1>2, <2>1, <2>2, <3>3
    <3>5. heard' + InFlight' = 1 /\ InFlight' <= 1
      BY <2>1, <3>2, <3>4
    <3> QED
      BY <2>1, <3>1, <3>2, <3>5, Zenon DEF Announcing
  <2>3. CASE ~Cards!FreshNotice
    <3>1. InFlight' = InFlight /\ told' = (told \/ FALSE)
      BY <2>1, <2>3 DEF InFlight, Bit
    <3> QED
      BY <2>1, <2>3, <3>1 DEF Announcing
  <2> QED
    BY <2>2, <2>3
<1>5. CASE Cards!AnnounceFromWindow
  <2>1. /\ window = "look" /\ UNCHANGED <<scan, listening, heard, lost>>
        /\ told' = (told \/ Cards!FreshNotice)
        /\ window' = IF Cards!FreshNotice THEN "emit" ELSE "idle"
    BY <1>5 DEF Cards!AnnounceFromWindow
  <2>2. CASE Cards!FreshNotice
    <3>1. ~told /\ listening
      BY <2>2, Zenon DEF Cards!FreshNotice
    <3>2. told' /\ ~lost /\ heard = 0 /\ InFlight = 0
      BY <2>1, <2>2, <3>1, Zenon DEF Announcing
    <3>3. scan # "emit"
      BY <1>1, <1>2, <3>2
    <3>4. InFlight' = 1
      BY <1>2, <2>1, <2>2, <3>3
    <3>5. heard' + InFlight' = 1 /\ InFlight' <= 1
      BY <2>1, <3>2, <3>4
    <3> QED
      BY <2>1, <3>1, <3>2, <3>5, Zenon DEF Announcing
  <2>3. CASE ~Cards!FreshNotice
    <3>1. InFlight' = InFlight
      BY <2>1, <2>3 DEF InFlight, Bit
    <3> QED
      BY <2>1, <2>3, <3>1 DEF Announcing
  <2> QED
    BY <2>2, <2>3
<1>6. ASSUME scan = "emit" \/ window = "emit", UNCHANGED <<listening, told, lost>>,
             heard' = IF listening /\ heard < 2 THEN heard + 1 ELSE heard,
             NEW n \in Nat, InFlight = n + 1, InFlight' = n,
             scan' = "emit" \/ window' = "emit" => scan = "emit" \/ window = "emit"
      PROVE  Announcing'
  <2>1. InFlight = n + 1 /\ InFlight' = n
    BY <1>6, Zenon
  <2>2. InFlight # 0
    BY <2>1
  <2>3. listening /\ told /\ InFlight <= 1 /\ (~lost => heard + InFlight = 1)
    BY <1>6, <2>2, Zenon DEF Announcing
  <2>4. InFlight' = 0 /\ InFlight = 1
    BY <2>1, <2>3
  <2>5. heard' = IF heard < 2 THEN heard + 1 ELSE heard
    BY <1>6, <2>3
  <2>6. heard' \in Nat /\ (~lost => heard' + 0 = 1) /\ 0 <= 1
    BY <1>1, <2>3, <2>4, <2>5
  <2>7. heard' + 0 = heard' + InFlight'
    BY <2>4
  <2> QED
    BY <1>6, <2>3, <2>4, <2>6, <2>7, Zenon DEF Announcing
<1>7. CASE Cards!EmitFromScan \/ Cards!EmitFromWindow
  <2>1. /\ UNCHANGED <<listening, told, lost>>
        /\ heard' = IF listening /\ heard < 2 THEN heard + 1 ELSE heard
        /\ \/ scan = "emit" /\ scan' = "idle" /\ window' = window
           \/ window = "emit" /\ window' = "idle" /\ scan' = scan
    BY <1>7 DEF Cards!EmitFromScan, Cards!EmitFromWindow, Cards!Emit
  <2>2. InFlight' \in Nat /\ InFlight = InFlight' + 1
    BY <2>1 DEF InFlight, Bit
  <2>3. \E n \in Nat : InFlight = n + 1 /\ InFlight' = n
    BY <2>2, Zenon
  <2> QED
    BY <1>6, <2>1, <2>3
<1>8. CASE Cards!NoticesReady
  <2>1. listening' = TRUE /\ window = "idle" /\ window' = "look" /\ UNCHANGED <<scan, told, heard, lost>>
    BY <1>8 DEF Cards!NoticesReady
  <2>2. InFlight' = InFlight
    BY <2>1 DEF InFlight, Bit
  <2>3. listening' \in BOOLEAN
    BY <2>1, Zenon
  <2> QED
    BY <2>1, <2>2, <2>3 DEF Announcing
<1>9. CASE Cards!Quit
  <2>1. /\ scan' = "idle" /\ window' = "idle" /\ listening' = FALSE /\ UNCHANGED <<told, heard>>
        /\ lost' = (lost \/ scan = "emit" \/ window = "emit")
    BY <1>9 DEF Cards!Quit
  <2>2. InFlight' = 0
    BY <1>2, <2>1
  <2>3. listening' \in BOOLEAN
    BY <2>1, Zenon
  <2>4. /\ ~lost' => ~lost /\ scan # "emit" /\ window # "emit"
        /\ lost' => lost \/ scan = "emit" \/ window = "emit"
    BY <2>1, Zenon
  <2>5. scan # "emit" /\ window # "emit" => InFlight = 0
    BY <1>2 DEF InFlight
  <2>6. scan = "emit" \/ window = "emit" => InFlight # 0
    BY <1>1, <1>2
  <2>7. lost' => told'
    BY <2>1, <2>4, <2>6, Zenon DEF Announcing
  <2>8. told' /\ ~lost' => heard' + InFlight' = 1
    <3> SUFFICES ASSUME told', ~lost' PROVE heard' + InFlight' = 1
      OBVIOUS
    <3>1. heard + InFlight = 1 /\ InFlight = 0 /\ heard' = heard
      BY <2>1, <2>4, <2>5, Zenon DEF Announcing
    <3> QED
      BY <2>2, <3>1
  <2>9. ~told' => heard' = 0
    BY <2>1, Zenon DEF Announcing
  <2>10. InFlight' <= 1 /\ heard' \in Nat
    BY <1>1, <2>1, <2>2
  <2> QED
    BY <2>1, <2>2, <2>3, <2>7, <2>8, <2>9, <2>10 DEF Announcing
<1>10. CASE UNCHANGED cardVars
  BY <1>3, <1>10 DEF cardVars
<1>11. CASE \/ Cards!Fetch \/ Cards!Curate \/ Cards!CurateFails \/ Cards!TakeUntranslated
            \/ Cards!StoreTranslations
  BY <1>3, <1>11 DEF Cards!Fetch, Cards!Curate, Cards!CurateFails, Cards!TakeUntranslated,
     Cards!StoreTranslations, Cards!notices
<1>12. CASE Cards!World
  BY <1>3, <1>12 DEF Cards!World, Cards!Publish, Cards!Expire, Cards!CoolDown, Cards!Learn,
     Cards!Midnight, Cards!notices
<1>13. CASE \/ \E i \in Cards!Items, s \in Cards!Status \ {"none"} : Cards!SetStatus(i, s)
            \/ Cards!SwitchHub
  BY <1>3, <1>13 DEF Cards!SetStatus, Cards!SwitchHub, Cards!notices
<1> QED
  BY <1>4, <1>5, <1>7, <1>8, <1>9, <1>10, <1>11, <1>12, <1>13
     DEF Cards!Next, Cards!Scan, Cards!Window, Cards!User

LEMMA EmittersCounted ==
  Cards!Cardinality({t \in {<<"scan", scan>>, <<"window", window>>} : t[2] = "emit"}) = InFlight
<1> DEFINE S == {t \in {<<"scan", scan>>, <<"window", window>>} : t[2] = "emit"}
           a == <<"scan", scan>>
           b == <<"window", window>>
<1>1. Cards!Cardinality(S) = Cardinality(S)
  BY DEF Cardinality, Cards!Cardinality, IsFiniteSet, Cards!IsFiniteSet
<1>2. a # b
  BY Zenon
<1>3. CASE scan = "emit" /\ window = "emit"
  <2>1. S = {a} \cup {b}
    BY <1>3
  <2>2. IsFiniteSet({a}) /\ Cardinality({a}) = 1
    BY FS_Singleton
  <2>3. Cardinality({a} \cup {b}) = Cardinality({a}) + 1
    BY <1>2, <2>2, FS_AddElement
  <2>4. InFlight = 2
    BY <1>3 DEF InFlight, Bit
  <2> QED
    BY <1>1, <2>1, <2>2, <2>3, <2>4
<1>4. CASE scan = "emit" /\ window # "emit"
  <2>1. S = {a}
    BY <1>4
  <2>2. Cardinality({a}) = 1
    BY FS_Singleton
  <2> QED
    BY <1>1, <1>4, <2>1, <2>2 DEF InFlight, Bit
<1>5. CASE scan # "emit" /\ window = "emit"
  <2>1. S = {b}
    BY <1>5
  <2>2. Cardinality({b}) = 1
    BY FS_Singleton
  <2> QED
    BY <1>1, <1>5, <2>1, <2>2 DEF InFlight, Bit
<1>6. CASE scan # "emit" /\ window # "emit"
  <2>1. S = {}
    BY <1>6
  <2> QED
    BY <1>1, <1>6, <2>1, FS_EmptySet DEF InFlight, Bit
<1> QED
  BY <1>3, <1>4, <1>5, <1>6

LEMMA CardInit == Cards!Init => CardTexts /\ Announcing
<1> SUFFICES ASSUME Cards!Init PROVE CardTexts /\ Announcing
  OBVIOUS
<1>1. /\ mix \in Mixes /\ rows = [i \in Cards!Items |-> Cards!NoRow] /\ got = Cards!Nothing
      /\ offer = [i \in Cards!Feeds \cup {"notice", "tip"} |-> IF i = "tip" THEN 1 ELSE 0]
      /\ scan = "idle" /\ window = "idle" /\ heard = 0
  BY DEF Cards!Init
<1>2. listening = FALSE /\ told = FALSE /\ lost = FALSE
  BY DEF Cards!Init
<1>3. offer \in Texts
  BY <1>1 DEF Texts, Cards!Feeds
<1>4. Cards!NoRow \in Cards!Row /\ Cards!NoRow.ko = 0
  BY DEF Cards!NoRow, Cards!Row, Cards!Status
<1>5. CardTexts
  <2>1. rows \in [Cards!Items -> Cards!Row] /\ \A i \in Cards!Items : rows[i].ko = 0
    BY <1>1, <1>4
  <2>2. DOMAIN got.text = {}
    BY <1>1 DEF Cards!Nothing
  <2> QED
    BY <1>1, <1>3, <2>1, <2>2 DEF CardTexts, CardTypeOK, Cards!TranslationFits, Translating
<1>6. Announcing
  <2>1. InFlight = 0
    BY <1>1 DEF InFlight, Bit
  <2>2. listening \in BOOLEAN
    BY <1>2, Zenon
  <2> QED
    BY <1>1, <1>2, <2>1, <2>2 DEF Announcing
<1> QED
  BY <1>5, <1>6

LEMMA AnnouncingEnough == Announcing => Cards!AnnouncedOnce
BY EmittersCounted DEF Announcing, Cards!AnnouncedOnce

\* What a card tells is of now: its translation is one of the text it stands next to,
\* although the engine translates outside the store's lock and sources change texts; and
\* an announcement is emitted once, although two threads look for it, unless the app is
\* quit between recording and emitting it.
THEOREM CardsTellOfNow == MCSpec => []CardsTell
<1>1. MCInit => CardTexts /\ Announcing
  BY CardInit DEF MCInit
<1>2. CardTexts /\ Announcing /\ [MCNext]_<<vars, cardVars, part>>
        => CardTexts' /\ Announcing'
  <2>1. [MCNext]_<<vars, cardVars, part>> => [Cards!Next]_cardVars
    BY DEF MCNext
  <2> QED
    BY <2>1, CardTextsNext, AnnouncingNext
<1>3. CardTexts /\ Announcing => CardsTell
  BY AnnouncingEnough DEF CardTexts, CardsTell
<1> QED
  BY <1>1, <1>2, <1>3, PTL DEF MCSpec

-----------------------------------------------------------------------------
(* The cards: what may make one go, and bring one back.                    *)

\* A fetch asks for what is not fresh, or for a hub that is switched off; stamps are
\* set by the curation alone, and with that what was fetched is used up.
AskedApart == scan = "fetched" => \A f \in got.due : f \in fresh => f = "page"

\* What a step does to the cards: one of the user's, a curation, or no change of
\* status.
LEMMA StatusChanges ==
  ASSUME CardTypeOK, [Cards!Next]_cardVars
  PROVE  \/ Cards!Curate
         \/ /\ UNCHANGED <<scan, kept, fresh>>
            /\ \A i \in Cards!Items : rows'[i].status = "none" => rows[i].status = "none"
         \/ \A i \in Cards!Items : rows'[i].status = rows[i].status
<1> USE DEF CardTypeOK
<1>1. CASE Cards!StoreTranslations
  <2>1. PICK failing \in SUBSET DOMAIN got.text :
          rows' = [i \in Cards!Items |->
                     IF i \in DOMAIN got.text \ failing /\ Cards!Stored(i)
                     THEN [rows[i] EXCEPT !.ko = got.text[i]] ELSE rows[i]]
    BY <1>1 DEF Cards!StoreTranslations
  <2>2. ASSUME NEW i \in Cards!Items PROVE rows'[i].status = rows[i].status
    BY <2>1 DEF Cards!Row
  <2> QED
    BY <2>2
<1>2. CASE \E i \in Cards!Items : Cards!CoolDown(i)
  <2>1. PICK i \in Cards!Items : rows' = [rows EXCEPT ![i].recent = FALSE]
    BY <1>2 DEF Cards!CoolDown
  <2> QED
    BY <2>1 DEF Cards!Row
<1>3. CASE \E i \in Cards!Items, s \in Cards!Status \ {"none"} : Cards!SetStatus(i, s)
  <2>1. PICK i \in Cards!Items, s \in Cards!Status \ {"none"} : Cards!SetStatus(i, s)
    BY <1>3
  <2> DEFINE recent == s = "dismissed" /\ i \in Cards!SameAxis
  <2>2. rows' = [rows EXCEPT ![i].status = s, ![i].recent = recent]
    BY <2>1 DEF Cards!SetStatus
  <2>3. UNCHANGED <<scan, kept, fresh>>
    BY <2>1 DEF Cards!SetStatus
  <2> HIDE DEF recent
  <2>4. \A j \in Cards!Items : rows'[j].status = "none" => rows[j].status = "none"
    BY <2>1, <2>2 DEF Cards!Row
  <2> QED
    BY <2>3, <2>4
<1>4. CASE UNCHANGED rows
  BY <1>4
<1>5. CASE \/ UNCHANGED cardVars \/ Cards!Fetch \/ Cards!CurateFails \/ Cards!TakeUntranslated
           \/ Cards!Announce \/ Cards!EmitFromScan \/ Cards!Window \/ Cards!Quit
           \/ (\E i \in DOMAIN mix \cap (Cards!Feeds \cup {"notice"}) :
                 \E t \in 0 .. mix[i] : Cards!Publish(i, t))
           \/ (\E f \in Cards!Feeds : Cards!Expire(f))
           \/ Cards!Learn \/ (\E n \in Levels : Cards!Midnight(n))
           \/ Cards!SwitchHub \/ Cards!NoticesReady
  BY <1>4, <1>5 DEF cardVars, Cards!Fetch, Cards!CurateFails, Cards!TakeUntranslated,
     Cards!Announce, Cards!EmitFromScan, Cards!Window, Cards!AnnounceFromWindow,
     Cards!EmitFromWindow, Cards!Quit, Cards!Publish, Cards!Expire, Cards!Learn,
     Cards!Midnight, Cards!SwitchHub, Cards!NoticesReady
<1> QED
  BY <1>1, <1>2, <1>3, <1>5 DEF Cards!Next, Cards!Scan, Cards!World, Cards!User

\* Curation forgets a card only if its source took part, and never a dismissed one.
LEMMA CurationKeeps ==
  ASSUME CardTypeOK, Cards!Curate, NEW i \in Cards!Items, rows[i].status # "none",
         rows'[i].status # rows[i].status
  PROVE  i \notin Cards!Skipped /\ rows[i].status # "dismissed"
<1>1. rows'[i] = IF Cards!Text(i) > 0 THEN Cards!Upserted(i, rows[i])
                 ELSE IF Cards!Stale(i) THEN Cards!NoRow ELSE rows[i]
  BY DEF Cards!Curate
<1>2. ASSUME Cards!Text(i) > 0 PROVE FALSE
  <2> DEFINE text == Cards!Text(i)
             good == Cards!Good(i)
             status == IF rows[i].status = "none" THEN "new" ELSE rows[i].status
             ko == IF rows[i].text = text THEN rows[i].ko ELSE 0
  <2>1. rows'[i] = [rows[i] EXCEPT !.status = status, !.text = text, !.good = good, !.ko = ko]
    BY <1>1, <1>2 DEF Cards!Upserted
  <2>2. status = rows[i].status
    OBVIOUS
  <2> HIDE DEF text, good, status, ko
  <2> QED
    BY <2>1, <2>2 DEF CardTypeOK, Cards!Row
<1>3. Cards!Stale(i)
  BY <1>1, <1>2
<1> QED
  BY <1>3 DEF Cards!Stale

LEMMA AskedApartNext == AskedApart /\ [Cards!Next]_cardVars => AskedApart'
<1> SUFFICES ASSUME AskedApart, [Cards!Next]_cardVars PROVE AskedApart'
  OBVIOUS
<1> USE DEF AskedApart
<1>1. CASE Cards!Fetch
  <2>1. got'.due = Cards!Due /\ fresh' = fresh
    BY <1>1 DEF Cards!Fetch
  <2> QED
    BY <2>1 DEF Cards!Due, Cards!Asked
<1>2. CASE \E f \in Cards!Feeds : Cards!Expire(f)
  BY <1>2 DEF Cards!Expire
<1>3. ASSUME scan' # "fetched" \/ UNCHANGED <<scan, got, fresh>> PROVE AskedApart'
  BY <1>3
<1>4. CASE \/ UNCHANGED cardVars \/ Cards!Curate \/ Cards!CurateFails
           \/ Cards!TakeUntranslated \/ Cards!StoreTranslations
           \/ Cards!Announce \/ Cards!EmitFromScan \/ Cards!Window \/ Cards!Quit
           \/ (\E i \in Cards!Items : Cards!CoolDown(i))
           \/ (\E i \in Cards!Items, s \in Cards!Status \ {"none"} : Cards!SetStatus(i, s))
           \/ (\E i \in DOMAIN mix \cap (Cards!Feeds \cup {"notice"}) :
                 \E t \in 0 .. mix[i] : Cards!Publish(i, t))
           \/ Cards!Learn \/ (\E n \in Levels : Cards!Midnight(n))
           \/ Cards!SwitchHub \/ Cards!NoticesReady
  BY <1>3, <1>4 DEF cardVars, Cards!Curate, Cards!CurateFails, Cards!TakeUntranslated,
     Cards!StoreTranslations, Cards!Announce, Cards!EmitFromScan, Cards!Window,
     Cards!AnnounceFromWindow, Cards!EmitFromWindow, Cards!Quit, Cards!CoolDown,
     Cards!SetStatus, Cards!Publish, Cards!Learn, Cards!Midnight, Cards!SwitchHub,
     Cards!NoticesReady
<1> QED
  BY <1>1, <1>2, <1>4 DEF Cards!Next, Cards!Scan, Cards!World, Cards!User

LEMMA KeepsFresh ==
  ASSUME CardTypeOK, AskedApart, [Cards!Next]_cardVars,
         NEW f \in Cards!Feeds, f \in fresh \cap fresh', Cards!Stored(f),
         rows'[f] = Cards!NoRow
  PROVE  f = "page" /\ "page" \in got.due
<1>1. f \in Cards!Items /\ rows[f].status # "none" /\ rows'[f].status = "none"
  BY DEF Cards!Feeds, Cards!Items, Cards!Stored, Cards!NoRow
<1>2. Cards!Curate
  BY <1>1, StatusChanges
<1>3. f \in got.due
  BY <1>1, <1>2, CurationKeeps DEF Cards!Skipped
<1> QED
  BY <1>2, <1>3 DEF AskedApart, Cards!Curate

LEMMA KeepsDismissed ==
  ASSUME CardTypeOK, [Cards!Next]_cardVars,
         NEW i \in Cards!Items, rows[i].status = "dismissed", rows'[i].status # "dismissed"
  PROVE  UNCHANGED <<scan, kept, fresh>>
<1>1. ~Cards!Curate
  BY CurationKeeps
<1> QED
  BY <1>1, StatusChanges

\* The part of CardsHold that speaks of sources which are asked rarely: while the stamp
\* of one is fresh its cards stay, although every scan replaces the table; only switching
\* the hub off takes one away (skipped_item_tags, replace_content_items).
THEOREM FreshCardsStay == MCSpec => Cards!KeptWhileFresh
<1> DEFINE Kept == \A f \in Cards!Feeds : f \in fresh \cap fresh' /\ Cards!Stored(f)
                                          /\ rows'[f] = Cards!NoRow
                                            => f = "page" /\ "page" \in got.due
<1>1. MCInit => CardTexts /\ AskedApart
  BY CardInit DEF MCInit, Cards!Init, AskedApart
<1>2. [MCNext]_<<vars, cardVars, part>> => [Cards!Next]_cardVars
  BY DEF MCNext
<1>3. CardTexts /\ AskedApart /\ [MCNext]_<<vars, cardVars, part>>
        => CardTexts' /\ AskedApart'
  BY <1>2, CardTextsNext, AskedApartNext
<1>4. CardTexts /\ AskedApart /\ [MCNext]_<<vars, cardVars, part>> => [Kept]_Cards!vars
  BY <1>2, KeepsFresh DEF CardTexts
<1> QED
  BY <1>1, <1>3, <1>4, PTL DEF MCSpec, Cards!KeptWhileFresh

\* The part of CardsHold that speaks of dismissals: only the user takes one back,
\* whatever the sources send again or send no more.
THEOREM DismissalsStay == MCSpec => Cards!DismissedForGood
<1> DEFINE Kept == \A i \in Cards!Items :
                     rows[i].status = "dismissed" /\ rows'[i].status # "dismissed"
                       => UNCHANGED <<scan, kept, fresh>>
<1>1. MCInit => CardTexts
  BY CardInit DEF MCInit
<1>2. [MCNext]_<<vars, cardVars, part>> => [Cards!Next]_cardVars
  BY DEF MCNext
<1>3. CardTexts /\ [MCNext]_<<vars, cardVars, part>> => CardTexts'
  BY <1>2, CardTextsNext
<1>4. CardTexts /\ [MCNext]_<<vars, cardVars, part>> => [Kept]_Cards!vars
  BY <1>2, KeepsDismissed DEF CardTexts
<1> QED
  BY <1>1, <1>3, <1>4, PTL DEF MCSpec, Cards!DismissedForGood
=============================================================================
