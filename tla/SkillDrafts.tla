----------------------------- MODULE SkillDrafts -----------------------------
(***************************************************************************)
(* A card of repeated prompts becomes a skill: a draft of SKILL.md is made *)
(* of the sessions behind the card, shown in a panel, and saved into the   *)
(* user's skills (a-mate/crates/core/src/skill_draft.rs,                   *)
(* a-mate/src-tauri/src/commands.rs, CoachTab.svelte).  Drafts are made    *)
(* by a language model with the store unlocked, or from a skeleton; saving *)
(* looks for a free directory and then writes there, and two calls may do  *)
(* so at the same time.                                                    *)
(*                                                                         *)
(* A name is a sequence of letters; "-" joins words in slugs and " "       *)
(* stands for whatever a slug has no letter for.                           *)
(***************************************************************************)
EXTENDS Naturals, SequencesExt

CONSTANTS
  Cards,      \* cards of R6
  NormsOf,    \* the prompts (norm60) that each of them joins
  Title,      \* their representative prompt
  Suggested,  \* the names that the judge suggests, <<>> for none
  Answers,    \* names a model may write into the front matter
  Sessions,
  SlugLimit,  \* 40 in the code
  MaxPrompts, \* bound on prompts
  MaxDrafts,  \* bound on drafts
  MaxSaves    \* bound on saves and on skills the user makes by hand

DraftAssumption ==
  /\ \A c \in Cards : NormsOf[c] # {} /\ Title[c] # <<>>
  /\ \A a \in Answers : a \in Seq(Range(a))
  /\ {SlugLimit, MaxPrompts, MaxDrafts, MaxSaves} \subseteq Nat \ {0}

VARIABLES
  prompts,  \* prompt_events: which session has which prompt
  counted,  \* the sessions that a card was mined from
  calls,    \* drafts asked for, in order, with what they were made of
  panel,    \* the panel: the draft it shows, and the path where that was saved
  disk,     \* what the directories of the skills hold
  saves,    \* calls of save_skill_draft
  raced,    \* history: directories looked at while another save was about to make them
  moved,    \* history: the panel changed while one of its saves was under way
  mine      \* history: the skills made by hand

draftVars == <<prompts, counted, calls, panel, disk, saves, raced, moved, mine>>

-----------------------------------------------------------------------------
(* Names.                                                                  *)

Letter(ch) == ch \notin {"-", " "}

Joined(out, ch) ==
  IF Letter(ch) THEN Append(out, ch)
  ELSE IF out # <<>> /\ Last(out) # "-" THEN Append(out, "-") ELSE out

\* Letters, with a "-" for what is between them, none at the ends, and cut; a hash
\* of the name when nothing is left.
Slugify(name) ==
  LET out == FoldLeft(Joined, <<>>, name)
      trimmed == IF out # <<>> /\ Last(out) = "-" THEN Front(out) ELSE out
  IN IF trimmed = <<>> THEN <<"workflow">>
     ELSE SubSeq(trimmed, 1, IF Len(trimmed) < SlugLimit THEN Len(trimmed) ELSE SlugLimit)

Numbered(slug, n) == IF n = 1 THEN slug ELSE slug \o <<"-", ToString(n)>>

-----------------------------------------------------------------------------
(* What there is to make a draft of.                                       *)

NewPrompt(s, p) ==
  /\ <<s, p>> \notin prompts /\ Cardinality(prompts) < MaxPrompts
  /\ prompts' = prompts \cup {<<s, p>>}
  /\ UNCHANGED <<counted, calls, panel, disk, saves, raced, moved, mine>>

SessionsOf(P) == {s \in Sessions : \E p \in P : <<s, p>> \in prompts}

\* The rule R6 counts the sessions of its window, which moves on.
MineCard(c) ==
  /\ \E window \in SUBSET Sessions :
       /\ SessionsOf(NormsOf[c]) \cap window # {}
       /\ counted' = [counted EXCEPT ![c] = SessionsOf(NormsOf[c]) \cap window]
  /\ counted' # counted
  /\ UNCHANGED <<prompts, calls, panel, disk, saves, raced, moved, mine>>

\* gather_context_multi: every session of every prompt the card joins, of any age.
Material(c) == SessionsOf(NormsOf[c])

-----------------------------------------------------------------------------
(* Drafts.                                                                 *)

NoDraft == [card |-> "none", slug |-> <<>>, name |-> <<>>, sessions |-> {}, counted |-> {}]
Answered == [card |-> "none", sessions |-> {}, counted |-> {}, pc |-> "done"]
Closed == [open |-> FALSE, draft |-> NoDraft, path |-> <<>>]

\* build_draft: the name in the front matter, and the slug.  A model may name the
\* skill as it likes, or where nobody looks for a name; without a good answer the
\* skeleton is taken.
Built(c) ==
  {[name |-> a, slug |-> Slugify(a)] : a \in Answers}
    \cup {[name |-> <<>>, slug |-> Slugify(Title[c])],
          [name |-> Slugify(Title[c]), slug |-> Slugify(Title[c])]}

\* Faulty: the front matter keeps its name.
NamedOutside(c, b) == IF Suggested[c] = <<>> THEN b ELSE [b EXCEPT !.slug = Slugify(Suggested[c])]
\* The judge's name replaces both (set_frontmatter_name), where there is one.
Named(c, b) ==
  IF Suggested[c] = <<>> THEN b
  ELSE [name |-> IF b.name = <<>> THEN <<>> ELSE Slugify(Suggested[c]),
        slug |-> Slugify(Suggested[c])]

Saving == \E i \in DOMAIN saves : saves[i].pc # "done"

\* makeDraft: the material is read under the lock.
Ask(c) ==
  /\ counted[c] # {} /\ Len(calls) < MaxDrafts
  /\ calls' = Append(calls, [card |-> c, sessions |-> Material(c), counted |-> counted[c],
                             pc |-> "draft"])
  /\ panel' = [Closed EXCEPT !.open = TRUE]
  /\ moved' = (moved \/ Saving)
  /\ UNCHANGED <<prompts, counted, disk, saves, raced, mine>>

\* The panel shows the answer, whatever it was opened for since.
Drafted(i) ==
  /\ calls[i].pc = "draft"
  /\ calls' = [calls EXCEPT ![i] = Answered]
  /\ \E b \in Built(calls[i].card) :
       LET n == Named(calls[i].card, b)
       IN panel' = [open |-> TRUE, path |-> <<>>,
                    draft |-> [card |-> calls[i].card, slug |-> n.slug, name |-> n.name,
                               sessions |-> calls[i].sessions, counted |-> calls[i].counted]]
  /\ moved' = (moved \/ Saving)
  /\ UNCHANGED <<prompts, counted, disk, saves, raced, mine>>

ClosePanel ==
  /\ panel.open /\ panel' = Closed
  /\ moved' = (moved \/ Saving)
  /\ UNCHANGED <<prompts, counted, calls, disk, saves, raced, mine>>

-----------------------------------------------------------------------------
(* Saving.                                                                 *)

\* The button is never disabled.
SaveBegin ==
  /\ panel.draft # NoDraft /\ Len(saves) < MaxSaves
  /\ saves' = Append(saves, [pc |-> "look", n |-> 1, draft |-> panel.draft,
                             clean |-> Slugify(panel.draft.slug)])
  /\ UNCHANGED <<prompts, counted, calls, panel, disk, raced, moved, mine>>

Target(i) == Numbered(saves[i].clean, saves[i].n)
Targets == {Target(j) : j \in {k \in DOMAIN saves : saves[k].pc = "make"}}

With(skills, dir, skill) == [d \in DOMAIN skills \cup {dir} |-> IF d = dir THEN skill ELSE skills[d]]

\* One turn of the loop in write_draft.
Look(i) ==
  /\ saves[i].pc = "look"
  /\ saves' = IF Target(i) \in DOMAIN disk THEN [saves EXCEPT ![i].n = @ + 1]
              ELSE [saves EXCEPT ![i].pc = "make"]
  /\ raced' = raced \cup ({Target(i)} \cap Targets)
  /\ UNCHANGED <<prompts, counted, calls, panel, disk, moved, mine>>

\* create_dir_all minds no directory that is there.
MakeDirectory(i) ==
  /\ saves[i].pc = "make"
  /\ disk' = IF Target(i) \in DOMAIN disk THEN disk ELSE With(disk, Target(i), NoDraft)
  /\ saves' = [saves EXCEPT ![i].pc = "write"]
  /\ UNCHANGED <<prompts, counted, calls, panel, raced, moved, mine>>

\* The answer goes to the panel as it is by then.
WriteSkill(i) ==
  /\ saves[i].pc = "write"
  /\ disk' = [disk EXCEPT ![Target(i)] = saves[i].draft]
  /\ saves' = [saves EXCEPT ![i].pc = "done"]
  /\ panel' = [panel EXCEPT !.open = TRUE, !.path = Target(i)]
  /\ UNCHANGED <<prompts, counted, calls, raced, moved, mine>>

HandMade == [NoDraft EXCEPT !.card = "mine"]

\* The user makes a skill of that name in the meantime.
ByHand(dir) ==
  /\ dir \notin DOMAIN disk /\ Cardinality(DOMAIN mine) < MaxSaves - 1
  /\ disk' = With(disk, dir, HandMade)
  /\ mine' = With(mine, dir, HandMade)
  /\ raced' = raced \cup ({dir} \cap Targets)
  /\ UNCHANGED <<prompts, counted, calls, panel, saves, moved>>

-----------------------------------------------------------------------------
Slugs == {Slugify(Title[c]) : c \in Cards}

DraftInit ==
  /\ prompts = {} /\ counted = [c \in Cards |-> {}]
  /\ calls = <<>> /\ panel = Closed
  /\ disk = <<>> /\ saves = <<>>
  /\ raced = {} /\ moved = FALSE /\ mine = <<>>

DraftNext ==
  \/ \E s \in Sessions : \E p \in UNION {NormsOf[c] : c \in Cards} : NewPrompt(s, p)
  \/ \E c \in Cards : MineCard(c) \/ Ask(c)
  \/ \E i \in DOMAIN calls : Drafted(i)
  \/ ClosePanel
  \/ SaveBegin
  \/ \E i \in DOMAIN saves : Look(i) \/ MakeDirectory(i) \/ WriteSkill(i)
  \/ \E s \in Slugs, n \in {1, 2} : ByHand(Numbered(s, n))

DraftSpec == DraftInit /\ [][DraftNext]_draftVars

-----------------------------------------------------------------------------
\* No skill is overwritten, neither one the user made nor one saved before, unless
\* two of them took the same directory for free at the same time (write_draft).
NothingClobbered ==
  /\ \A d \in DOMAIN mine : d \notin raced => disk[d] = mine[d]
  /\ \A i \in DOMAIN saves :
       saves[i].pc = "done" /\ Target(i) \notin raced => disk[Target(i)] = saves[i].draft

\* The panel tells the path where the draft it shows was saved, unless it showed
\* something else while a save was under way (saveDraft).
PathFits ==
  panel.path # <<>> /\ ~moved /\ panel.path \notin raced => disk[panel.path] = panel.draft

\* A draft rests on every session that the card counted, and the name in its front
\* matter is the one its directory is made from, unless the slug was cut right after
\* a "-", which making a slug of it again takes away (generate_skill_draft).
DraftFits ==
  LET d == panel.draft
  IN /\ d.counted \subseteq d.sessions
     /\ d.name # <<>> /\ Last(d.slug) # "-" => Slugify(d.name) = Slugify(d.slug)

SkillsSafe == NothingClobbered /\ PathFits /\ DraftFits
=============================================================================
