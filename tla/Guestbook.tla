------------------------------ MODULE Guestbook ------------------------------
(***************************************************************************)
(* The guestbook of one room, and what the owner's mate does with it:       *)
(* showing new entries as notices and answering them                        *)
(* (a-mate/src-tauri/src/pipeline.rs: maybe_poll_inbound,                   *)
(* maybe_reply_guestbook; a-mate/crates/core/src/{inbound,mascot}.rs;       *)
(* a-hub/life/life_server/life.py: guestbook, add_guestbook,                *)
(* delete_guestbook).                                                       *)
(*                                                                         *)
(* Two threads of the app work on it: the scan thread, which first answers  *)
(* and then polls, and a thread that polls once when the window of notices  *)
(* reports that it listens.  They share a stored cursor, which each reads,  *)
(* and writes back after the network.  The server's handlers are atomic.    *)
(***************************************************************************)
EXTENDS Integers, FiniteSets

CONSTANTS
  ReplyCap,    \* GUESTBOOK_REPLY_MAX_PER_SCAN
  MaxPosts,    \* people write entries while fewer than this were written
  MaxDeletes,  \* bound on deletions
  MaxFaults    \* bound on failing calls and quits

ASSUME GuestbookAssumption ==
  /\ ReplyCap \in Nat \ {0}
  /\ MaxPosts \in Nat /\ MaxDeletes \in Nat /\ MaxFaults \in Nat

\* An entry, or a reply to entry `parent`.  Ids count up, like created_at.  The
\* owner and the owner's bot are one agent.
Entry == [id : Nat \ {0}, by : {"visitor", "owner"}, bot : BOOLEAN, parent : Nat]

\* A thread between two steps: the entries it still has to answer; the cursor
\* it read, what it has to show, and the cursor to save.
Thread ==
  [stage : {"idle", "reply", "post", "poll", "fetch", "save"},
   targets : SUBSET Nat, cursor : Nat, next : Nat]

Idle == [stage |-> "idle", targets |-> {}, cursor |-> 0, next |-> 0]

VARIABLES
  book,     \* server: the entries of the room
  written,  \* server: the number of entries ever written
  late,     \* parents of replies given up that the server may still write
  ready,    \* the window listens (AppState.notices_ready)
  cursor,   \* inbound_guestbook_cursor; 0 is None
  thread,   \* the scan thread and the thread of poll_inbound_now
  shown,    \* how often each entry was shown as a notice
  deletes,  \* deletions so far
  faults,   \* failing calls and quits so far
  old,      \* history: entries seen by polls that found no cursor
  crossed,  \* history: entries answered, or an answer given up, under way
  overlapped  \* history: whether two polls were under way at once

server == <<book, written, late>>
history == <<old, crossed, overlapped>>
vars == <<server, ready, cursor, thread, shown, deletes, faults, history>>

Threads == {"scan", "catch_up"}

Least(S) == CHOOSE i \in S : \A j \in S : i <= j

Latest(S) == CHOOSE i \in S : \A j \in S : j <= i

Ids == {e.id : e \in book}

Posting(i) == thread["scan"].stage = "post" /\ Least(thread["scan"].targets) = i

Polling(t) == thread[t].stage \in {"fetch", "save"}

Fault == faults < MaxFaults /\ faults' = faults + 1

-----------------------------------------------------------------------------
(* The server.                                                             *)

Write(by, bot, parent) ==
  /\ book' = book \cup {[id |-> written + 1, by |-> by, bot |-> bot, parent |-> parent]}
  /\ written' = written + 1

\* add_guestbook without a parent.
Sign(by) ==
  /\ written < MaxPosts
  /\ Write(by, FALSE, 0)
  /\ UNCHANGED <<late, ready, cursor, thread, shown, deletes, faults, history>>

\* add_guestbook with one: the parent is an entry, not a reply.
CanReply(parent) == \E e \in book : e.id = parent /\ e.parent = 0

\* The owner answers by hand.
OwnerReplies(parent) ==
  /\ written < MaxPosts
  /\ CanReply(parent)
  /\ Write("owner", FALSE, parent)
  /\ crossed' = IF Posting(parent) THEN crossed \cup {parent} ELSE crossed
  /\ UNCHANGED <<late, ready, cursor, thread, shown, deletes, faults, old, overlapped>>

\* The bot's reply arrives after its sender gave up.
ServeLate(parent) ==
  /\ parent \in late
  /\ late' = late \ {parent}
  /\ IF CanReply(parent) THEN Write("owner", TRUE, parent) ELSE UNCHANGED <<book, written>>
  /\ UNCHANGED <<ready, cursor, thread, shown, deletes, faults, history>>

\* delete_guestbook: an entry goes with its replies.
DeleteGuestbook(i) ==
  /\ i \in Ids
  /\ deletes < MaxDeletes /\ deletes' = deletes + 1
  /\ book' = {e \in book : e.id # i /\ e.parent # i}
  /\ UNCHANGED <<written, late, ready, cursor, thread, shown, faults, history>>

-----------------------------------------------------------------------------
(* The bot's answers: maybe_reply_guestbook.                               *)

\* Faulty: the cap is applied before answered entries are sorted out.
TargetsCappedFirst(cap) ==
  LET others == {e.id : e \in {f \in book : f.parent = 0 /\ f.by # "owner"}}
      first == {i \in others : Cardinality({j \in others : j < i}) < cap}
  IN  {i \in first : ~\E r \in book : r.by = "owner" /\ r.parent = i}

Unanswered ==
  {e.id : e \in {f \in book : f.parent = 0 /\ f.by # "owner"
                              /\ ~\E r \in book : r.by = "owner" /\ r.parent = f.id}}

\* select_reply_targets: others' entries without an answer, the oldest first.
Targets(cap) == {i \in Unanswered : Cardinality({j \in Unanswered : j < i}) < cap}

Goes(t, stage) == thread' = [thread EXCEPT ![t].stage = stage]

Target == Least(thread["scan"].targets)

\* On to the next entry, or to the poll.
NextTarget ==
  LET rest == thread["scan"].targets \ {Target}
  IN  thread' = [thread EXCEPT !["scan"].targets = rest,
                               !["scan"].stage = IF rest = {} THEN "poll" ELSE "reply"]

\* A scan comes to the guestbook, and lists it.
ListTargets ==
  /\ thread["scan"].stage = "idle"
  /\ LET targets == Targets(ReplyCap)
     IN  thread' = [thread EXCEPT !["scan"].targets = targets,
                                  !["scan"].stage = IF targets = {} THEN "poll" ELSE "reply"]
  /\ UNCHANGED <<server, ready, cursor, shown, deletes, faults, history>>

\* compute_guestbook_reply takes a while; then the second look before posting.
WriteReply ==
  /\ thread["scan"].stage = "reply"
  /\ IF Target \in Unanswered THEN Goes("scan", "post") ELSE NextTarget
  /\ UNCHANGED <<server, ready, cursor, shown, deletes, faults, history>>

PostReply ==
  /\ thread["scan"].stage = "post"
  /\ IF CanReply(Target) THEN Write("owner", TRUE, Target) ELSE UNCHANGED <<book, written>>
  /\ NextTarget
  /\ UNCHANGED <<late, ready, cursor, shown, deletes, faults, history>>

\* A call or the engine fails.  A reply that is given up may have been written,
\* and may still be.
ReplyFails ==
  /\ Fault
  /\ \/ /\ thread["scan"].stage = "idle"
        /\ Goes("scan", "poll")
        /\ UNCHANGED <<server, crossed>>
     \/ /\ thread["scan"].stage \in {"reply", "post"}
        /\ NextTarget
        /\ UNCHANGED <<server, crossed>>
     \/ /\ thread["scan"].stage = "post"
        /\ CanReply(Target) /\ Write("owner", TRUE, Target)
        /\ NextTarget
        /\ UNCHANGED <<late, crossed>>
     \/ /\ thread["scan"].stage = "post"
        /\ late' = late \cup {Target} /\ crossed' = crossed \cup {Target}
        /\ NextTarget
        /\ UNCHANGED <<book, written>>
  /\ UNCHANGED <<ready, cursor, shown, deletes, old, overlapped>>

-----------------------------------------------------------------------------
(* The notices: maybe_poll_inbound.                                        *)

\* Faulty: does not wait for the window.
BeginPollUngated(t) ==
  /\ thread[t].stage = "poll"
  /\ thread' = [thread EXCEPT ![t] = [Idle EXCEPT !.stage = "fetch", !.cursor = cursor]]
  /\ overlapped' = (overlapped \/ \E u \in Threads \ {t} : Polling(u))
  /\ UNCHANGED <<server, ready, cursor, shown, deletes, faults, old, crossed>>

\* Nothing happens until the window listens; then the cursor is read.
BeginPoll(t) ==
  /\ thread[t].stage = "poll"
  /\ thread' = [thread EXCEPT ![t] = IF ready
                                       THEN [Idle EXCEPT !.stage = "fetch", !.cursor = cursor]
                                       ELSE Idle]
  /\ overlapped' = (overlapped \/ \E u \in Threads \ {t} : ready /\ Polling(u))
  /\ UNCHANGED <<server, ready, cursor, shown, deletes, faults, old, crossed>>

ByOthers == {e.id : e \in {f \in book : f.by # "owner"}}

\* select_new_guestbook: what others wrote past the cursor, if there is one.
New(at) == IF at = 0 THEN {} ELSE {i \in ByOthers : i > at}

\* The latest seen, or the cursor itself.
NextCursor(at) == Latest(ByOthers \cup {at})

\* The guestbook is fetched and what is new emitted; an event nobody listens to
\* is emitted all the same.
FetchAndEmit(t) ==
  /\ thread[t].stage = "fetch"
  /\ LET at == thread[t].cursor
     IN  /\ thread' = [thread EXCEPT ![t].next = NextCursor(at), ![t].stage = "save"]
         /\ shown' = [i \in DOMAIN shown |->
                        IF ready /\ i \in New(at) THEN shown[i] + 1 ELSE shown[i]]
         /\ old' = IF at = 0 THEN old \cup ByOthers ELSE old
  /\ UNCHANGED <<server, ready, cursor, deletes, faults, crossed, overlapped>>

\* The cursor is written whatever it is by now; None is not.
SaveCursor(t) ==
  /\ thread[t].stage = "save"
  /\ cursor' = IF thread[t].next = 0 THEN cursor ELSE thread[t].next
  /\ thread' = [thread EXCEPT ![t] = Idle]
  /\ UNCHANGED <<server, ready, shown, deletes, faults, history>>

\* The fetch, the emit or the save fails.
PollFails(t) ==
  /\ Polling(t)
  /\ Fault
  /\ thread' = [thread EXCEPT ![t] = Idle]
  /\ UNCHANGED <<server, ready, cursor, shown, deletes, history>>

\* The command notices_ready.
NoticesReady ==
  /\ ~ready
  /\ ready' = TRUE
  /\ Goes("catch_up", "poll")
  /\ UNCHANGED <<server, cursor, shown, deletes, faults, history>>

\* The app quits, and starts again.  A reply on its way may still be written.
Quit ==
  /\ Fault
  /\ ready' = FALSE
  /\ LET sent == IF thread["scan"].stage = "post" THEN {Target} ELSE {}
     IN  late' = late \cup sent /\ crossed' = crossed \cup sent
  /\ thread' = [t \in Threads |-> Idle]
  /\ UNCHANGED <<book, written, cursor, shown, deletes, old, overlapped>>

-----------------------------------------------------------------------------
Init ==
  /\ book = {} /\ written = 0 /\ late = {}
  /\ ready = FALSE
  /\ cursor = 0
  /\ thread = [t \in Threads |-> Idle]
  /\ shown = [i \in 1 .. MaxPosts |-> 0]
  /\ deletes = 0 /\ faults = 0
  /\ old = {} /\ crossed = {} /\ overlapped = FALSE

Poll(t) == BeginPoll(t) \/ FetchAndEmit(t) \/ SaveCursor(t)

Scan ==
  \/ ListTargets \/ WriteReply \/ PostReply
  \/ Poll("scan")

Next ==
  \/ \E by \in {"visitor", "owner"} : Sign(by)
  \/ \E i \in Ids : OwnerReplies(i) \/ DeleteGuestbook(i)
  \/ \E i \in late : ServeLate(i)
  \/ Scan \/ ReplyFails
  \/ Poll("catch_up") \/ NoticesReady
  \/ (\E t \in Threads : PollFails(t))
  \/ Quit

\* Scans begin and go on, the window opens, a thread once started runs.
FairSpec ==
  /\ Init /\ [][Next]_vars
  /\ WF_vars(Scan) /\ WF_vars(Poll("catch_up")) /\ WF_vars(NoticesReady)

-----------------------------------------------------------------------------
(* Properties.                                                             *)

TypeOK ==
  /\ book \subseteq Entry
  /\ written \in Nat
  /\ late \subseteq Nat
  /\ ready \in BOOLEAN
  /\ cursor \in 0 .. written
  /\ thread \in [Threads -> Thread]
  /\ shown \in [1 .. MaxPosts -> Nat]
  /\ deletes \in 0 .. MaxDeletes /\ faults \in 0 .. MaxFaults
  /\ old \subseteq Nat /\ crossed \subseteq Nat /\ overlapped \in BOOLEAN

\* The cursor never passes an entry the user was not shown, except those that
\* were there when a poll found no cursor: neither quits, nor failing emits,
\* nor a window that does not listen yet, nor two polls at once lose a notice.
NothingSkipped == \A i \in ByOthers : i <= cursor => shown[i] > 0 \/ i \in old

\* One notice for an entry, unless two polls overlapped, or a poll failed or
\* the app quit after showing it.
OneNotice == ~overlapped => \A i \in 1 .. MaxPosts : shown[i] <= 1 + faults

\* No notice is lost, and none repeats without a reason.
NoticedOnce == NothingSkipped /\ OneNotice

\* "Once for an entry": the bot adds no answer to an answered entry, unless the
\* answers crossed: the other one came after the second look, or an answer
\* that had been given up arrived after all.
AnsweredOnce ==
  \A r, b \in book :
    b.bot /\ r.by = "owner" /\ r.parent = b.parent /\ r.id < b.id => b.parent \in crossed

\* An entry has one notice and one answer of the bot.
EachOnce == NoticedOnce /\ AnsweredOnce

\* Every entry by somebody else is shown, unless it was there when a poll found
\* no cursor, or it is deleted before.
EventuallyShown ==
  \A i \in 1 .. MaxPosts : []<>(i \notin ByOthers \/ shown[i] > 0 \/ i \in old)

\* Every entry by somebody else is answered, or deleted.
EventuallyAnswered == \A i \in 1 .. MaxPosts : []<>(i \notin Unanswered)

\* Through quits and failing calls every entry is noticed and answered.
EventuallyServed == EventuallyShown /\ EventuallyAnswered
=============================================================================
