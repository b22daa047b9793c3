------------------------------ MODULE HubCredit ------------------------------
(***************************************************************************)
(* The recognition loop on top of HubShare: a mate polls the reuse events   *)
(* and congratulates its user when others cite the user's page              *)
(* (maybe_poll_reuse in a-mate/src-tauri/src/pipeline.rs).  All mates work  *)
(* in the default space, so that each sees every event.                     *)
(***************************************************************************)
EXTENDS HubShare

VARIABLES
  cursor,     \* inbound_reuse_cursor: the latest event seen; 0 is None
  celebrated  \* the events a mate congratulated its user on

creditVars == <<cursor, celebrated>>

\* hub_published_page_ids: every page the table names.
Mine(m) == {share[m].page} \ {0}

\* list_reuse_events, and the filters of select_new_reuses.
OthersReuses(m) ==
  {e \in DOMAIN reuses : reuses[e].page \in Mine(m) /\ UserOf[reuses[e].by] # UserOf[m]}

\* Without a cursor, what there is counts as old.
PollReuse(m) ==
  LET seen == OthersReuses(m)
  IN  /\ scan[m].stage = "idle"
      /\ seen # {}
      /\ cursor' = [cursor EXCEPT
                      ![m] = CHOOSE x \in seen \cup {@} : \A y \in seen \cup {@} : y <= x]
      /\ celebrated' = [celebrated EXCEPT
                          ![m] = IF cursor[m] = 0 THEN @
                                 ELSE @ \cup {e \in seen : e > cursor[m]}]
      /\ UNCHANGED vars

CreditInit ==
  /\ Init
  /\ cursor = [m \in Mates |-> 0]
  /\ celebrated = [m \in Mates |-> {}]

CreditNext ==
  \/ Next /\ UNCHANGED creditVars
  \/ \E m \in Mates : PollReuse(m)

CreditSpec == CreditInit /\ [][CreditNext]_<<vars, creditVars>>

-----------------------------------------------------------------------------
(* Properties.                                                             *)

\* What a user is congratulated on is a page that user published: "has someone
\* cited the knowledge I published" (the comment on maybe_poll_reuse).
CreditOnlyForOwnPages ==
  \A m \in Mates : \A e \in celebrated[m] : UserOf[pages[reuses[e].page].by] = UserOf[m]
=============================================================================
