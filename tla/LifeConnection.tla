--------------------------- MODULE LifeConnection ---------------------------
(***************************************************************************)
(* How a mate is connected to a life server: hub_connect, hub_disconnect   *)
(* and the publication of its picture (a-mate/src-tauri/src/commands.rs,   *)
(* a-mate/crates/core/src/life_client.rs) with register, rename and the    *)
(* tokens of the server (a-hub/life/life_server/life.py).                  *)
(*                                                                         *)
(* Both commands read the settings, call the server with the store         *)
(* unlocked and then write the settings; nothing keeps two of them from    *)
(* overlapping.  A mate may use one server after another, and a server may *)
(* lose its accounts.                                                      *)
(***************************************************************************)
EXTENDS Naturals, Sequences, FiniteSets

CONSTANTS
  Servers,     \* life servers
  Renaming,    \* those that know how to rename
  Names,       \* names the user gives to the mate
  MaxEdits,    \* bound on changes of the name, the work account and the picture
  MaxFaults,   \* bound on failing calls, quits and servers that lose everything
  MaxCommands  \* bound on connections and disconnections

VARIABLES
  accounts,  \* of each server the agents in the order they registered
  epoch,     \* how often a server lost its accounts, and its tokens with them
  conn,      \* the settings hub_url, hub_token with hub_agent_id, and hub_life_id
  profile,   \* the settings for the name, the work account, and sprite.png
  command,   \* the commands under way
  upload,    \* a picture on its way to a server
  home,      \* history: the agent that the present name was last connected as
  mixed,     \* history: the settings of which commands overlapped or were cut,
             \* and none set them right: "token" (with the server), "life"; and
             \* "overlap" until a command begins that has no other beside it
  spent      \* edits, faults and commands so far

connectionVars == <<accounts, epoch, conn, profile, command, upload, home, mixed, spent>>

ConnectionAssumption == "none" \notin Servers

NoToken == [server |-> "none", agent |-> 0, epoch |-> 0]
NoCommand == [pc |-> "none", url |-> "none", name |-> "none", work |-> 0,
              token |-> NoToken]
Windows == {1, 2}

ConnectionInit ==
  /\ accounts = [s \in Servers |-> <<>>] /\ epoch = [s \in Servers |-> 0]
  /\ conn = [url |-> "none", token |-> NoToken, life |-> 0]
  /\ \E n \in Names : profile = [name |-> n, work |-> 0, sprite |-> 1]
  /\ command = [w \in Windows |-> NoCommand] /\ upload = {}
  /\ home = [s \in Servers |-> 0] /\ mixed = {}
  /\ spent = [edits |-> 0, faults |-> 0, commands |-> 0]

Spends(what, limit) == spent[what] < limit /\ spent' = [spent EXCEPT ![what] = @ + 1]
Edits == Spends("edits", MaxEdits)
Faults == Spends("faults", MaxFaults)

-----------------------------------------------------------------------------
(* The server.                                                             *)

Accepts(s, token) == token.server = s /\ token.epoch = epoch[s]
NamedAs(s, n) == {i \in DOMAIN accounts[s] : accounts[s][i].name = n}

\* Faulty: who registers is always somebody new.
RegisteredAsAnew(s, n) == Len(accounts[s]) + 1
\* register: the first agent of that name, or a new one with a room of its own.
RegisteredAs(s, n) ==
  IF NamedAs(s, n) = {} THEN Len(accounts[s]) + 1
  ELSE CHOOSE i \in NamedAs(s, n) : \A j \in NamedAs(s, n) : i <= j
Register(s, n, work) ==
  LET i == RegisteredAs(s, n)
  IN  accounts' = [accounts EXCEPT ![s] =
        IF i \in DOMAIN @ THEN [@ EXCEPT ![i].work = work]
        ELSE Append(@, [name |-> n, work |-> work, image |-> 0])]

\* rename takes the name alone, of all that the client sends.
Rename(s, token, n) == accounts' = [accounts EXCEPT ![s][token.agent].name = n]

\* Faulty: a picture is stored once.
StoredPictureOnce(old, new) == IF old = 0 THEN new ELSE old
\* set_mascot_image, which writes when the digest differs.
StoredPicture(old, new) == new

LoseAccounts(s) ==
  /\ Faults /\ accounts[s] # <<>>
  /\ accounts' = [accounts EXCEPT ![s] = <<>>]
  /\ epoch' = [epoch EXCEPT ![s] = @ + 1]
  /\ home' = [home EXCEPT ![s] = 0]
  /\ UNCHANGED <<conn, profile, command, upload, mixed>>

-----------------------------------------------------------------------------
(* The user.                                                               *)

EditOther ==
  /\ Edits
  /\ \/ profile' = [profile EXCEPT !.work = @ + 1]
     \/ profile' = [profile EXCEPT !.sprite = @ + 1]
  /\ UNCHANGED <<accounts, epoch, conn, command, upload, home, mixed>>

Overlaps(w) == \E v \in Windows \ {w} : command[v].pc # "none"
Mixed(w) ==
  mixed' = IF Overlaps(w) THEN {"token", "life", "overlap"} ELSE mixed \ {"overlap"}

\* profile_set saves the name first, and then renames the agent if there is one.
EditName(w, n) ==
  /\ command[w].pc = "none" /\ n # profile.name /\ Edits
  /\ profile' = [profile EXCEPT !.name = n] /\ home' = [s \in Servers |-> 0]
  /\ IF conn.token = NoToken THEN UNCHANGED <<command, mixed>>
     ELSE /\ command' = [command EXCEPT ![w] = [pc |-> "sync", url |-> conn.url, name |-> n,
                                               work |-> profile.work, token |-> conn.token]]
          /\ Mixed(w)
  /\ UNCHANGED <<accounts, epoch, conn, upload>>

\* same_life_server.
FirstCall(url) == IF conn.token # NoToken /\ conn.url = url THEN "rename" ELSE "register"

\* hub_connect reads the name and the connection there is: to the same server the
\* agent is renamed, to another it is registered.
Connect(w, url) ==
  /\ command[w].pc = "none" /\ Spends("commands", MaxCommands)
  /\ command' = [command EXCEPT ![w] =
       [pc |-> FirstCall(url), url |-> url, name |-> profile.name,
        work |-> profile.work, token |-> conn.token]]
  /\ Mixed(w)
  /\ UNCHANGED <<accounts, epoch, conn, profile, upload, home>>

\* hub_disconnect tells the server, whatever the answer, and forgets the token.
Disconnect(w) ==
  /\ command[w].pc = "none" /\ Spends("commands", MaxCommands)
  /\ command' = [command EXCEPT ![w] = [NoCommand EXCEPT !.pc = "leave"]]
  /\ Mixed(w)
  /\ UNCHANGED <<accounts, epoch, conn, profile, upload, home>>

Goes(w, pc) == command' = [command EXCEPT ![w].pc = pc]
Ends(w) == command' = [command EXCEPT ![w] = NoCommand]

ForgetConnection(w) ==
  /\ command[w].pc = "leave" /\ Ends(w)
  /\ conn' = [conn EXCEPT !.token = NoToken, !.life = 0]
  /\ UNCHANGED <<accounts, epoch, profile, upload, home, mixed, spent>>

\* The server renames, does not know how to (404, 405), or refuses the token
\* (401, token_was_rejected).
RenameAnswers(w) ==
  LET c == command[w]
  IN  /\ c.pc = "rename"
      /\ \/ /\ c.url \in Renaming /\ Accepts(c.url, c.token)
            /\ Rename(c.url, c.token, c.name)
            /\ Goes(w, "store")
         \/ c.url \notin Renaming /\ Goes(w, "keep") /\ UNCHANGED accounts
         \/ /\ c.url \in Renaming /\ ~Accepts(c.url, c.token)
            /\ Goes(w, "register") /\ UNCHANGED accounts
      /\ UNCHANGED <<epoch, conn, profile, upload, home, mixed, spent>>

\* What becomes of the renaming that follows an edit is only logged.
SyncAnswers(w) ==
  LET c == command[w]
  IN  /\ c.pc = "sync" /\ Ends(w)
      /\ IF c.url \in Renaming /\ Accepts(c.url, c.token)
         THEN Rename(c.url, c.token, c.name) ELSE UNCHANGED accounts
      /\ UNCHANGED <<epoch, conn, profile, upload, home, mixed, spent>>

\* The settings after a renaming, or where there is none.
StoreUrl(w) ==
  LET c == command[w]
      Namesakes == NamedAs(c.url, c.name)
  IN  /\ c.pc \in {"store", "keep"} /\ Ends(w)
      /\ conn' = [conn EXCEPT !.url = c.url]
      /\ IF c.pc = "store"
         THEN /\ mixed' = IF conn.token = c.token /\ ~Overlaps(w)
                          THEN mixed \ {"token"} ELSE mixed
              /\ home' = [home EXCEPT ![c.url] =
                            IF Namesakes = {c.token.agent} /\ c.name = profile.name
                            THEN c.token.agent ELSE 0]
              /\ upload' = upload \cup {[token |-> c.token, picture |-> profile.sprite]}
         ELSE UNCHANGED <<mixed, home, upload>>
      /\ UNCHANGED <<accounts, epoch, profile, spent>>

RegisterAnswers(w) ==
  LET c == command[w]
  IN  /\ c.pc = "register"
      /\ Register(c.url, c.name, c.work)
      /\ command' = [command EXCEPT ![w].pc = "store_all",
           ![w].token = [server |-> c.url, agent |-> RegisteredAs(c.url, c.name),
                         epoch |-> epoch[c.url]]]
      /\ UNCHANGED <<epoch, conn, profile, upload, home, mixed, spent>>

\* Eight settings, the name among them, one statement each.
StoreAll(w) ==
  LET c == command[w]
  IN  /\ c.pc = "store_all" /\ Ends(w)
      /\ conn' = [url |-> c.url, token |-> c.token, life |-> c.token.agent]
      /\ profile' = [profile EXCEPT !.name = c.name]
      /\ home' = [s \in Servers |->
           IF s = c.url
           THEN IF Accepts(s, c.token) /\ "overlap" \notin mixed THEN c.token.agent ELSE 0
           ELSE IF c.name = profile.name /\ mixed = {} THEN home[s] ELSE 0]
      /\ mixed' = IF Overlaps(w) THEN mixed ELSE {}
      /\ upload' = upload \cup {[token |-> c.token, picture |-> profile.sprite]}
      /\ UNCHANGED <<accounts, epoch, spent>>

\* The app is quit before, after or between the statements that store a registration.
QuitStoring(w) ==
  LET c == command[w]
  IN  /\ c.pc = "store_all" /\ Faults
      /\ \/ UNCHANGED conn
         \/ conn' = [conn EXCEPT !.url = c.url]
         \/ conn' = [conn EXCEPT !.url = c.url, !.token = c.token]
      /\ command' = [v \in Windows |-> NoCommand] /\ upload' = {}
      /\ mixed' = {"token", "life"}
      /\ UNCHANGED <<accounts, epoch, profile, home>>

\* No answer: the command ends with an error, carried out or not.
CallFails(w) ==
  LET c == command[w]
  IN  /\ c.pc \in {"rename", "register", "sync"} /\ Faults /\ Ends(w)
      /\ \/ UNCHANGED <<accounts, home>>
         \/ /\ c.pc # "register" /\ c.url \in Renaming /\ Accepts(c.url, c.token)
            /\ Rename(c.url, c.token, c.name) /\ home' = [home EXCEPT ![c.url] = 0]
         \/ c.pc = "register" /\ Register(c.url, c.name, c.work) /\ UNCHANGED home
      /\ UNCHANGED <<epoch, conn, profile, upload, mixed>>

-----------------------------------------------------------------------------
(* The picture.                                                            *)

\* A scan (maybe_sync_mascot_image) or the room's window reads token and file.
ReadPicture ==
  /\ upload = {} /\ conn.token # NoToken
  /\ upload' = {[token |-> conn.token, picture |-> profile.sprite]}
  /\ UNCHANGED <<accounts, epoch, conn, profile, command, home, mixed, spent>>

\* To the server at hub_url; a refusal or failure is for the next scan to make good.
UploadPicture(u) ==
  /\ u \in upload /\ upload' = upload \ {u}
  /\ \/ /\ Accepts(u.token.server, u.token)
        /\ accounts' = [accounts EXCEPT ![u.token.server][u.token.agent].image =
                          StoredPicture(@, u.picture)]
        /\ UNCHANGED spent
     \/ ~Accepts(u.token.server, u.token) /\ UNCHANGED <<accounts, spent>>
     \/ Faults /\ UNCHANGED accounts
  /\ UNCHANGED <<epoch, conn, profile, command, home, mixed>>

CommandSteps(w) ==
  \/ ForgetConnection(w) \/ RenameAnswers(w) \/ StoreUrl(w) \/ RegisterAnswers(w)
  \/ StoreAll(w) \/ SyncAnswers(w)

ConnectionNext ==
  \/ EditOther
  \/ \E s \in Servers : LoseAccounts(s)
  \/ \E w \in Windows : \/ CommandSteps(w) \/ QuitStoring(w) \/ CallFails(w)
                        \/ Disconnect(w) \/ (\E s \in Servers : Connect(w, s))
                        \/ \E n \in Names : EditName(w, n)
  \/ ReadPicture \/ \E u \in upload : UploadPicture(u)

ConnectionSpec == ConnectionInit /\ [][ConnectionNext]_connectionVars

\* Commands end, scans recur, requests come to an end.
ConnectionFairness ==
  /\ \A w \in Windows : WF_connectionVars(CommandSteps(w))
  /\ WF_connectionVars(ReadPicture)
  /\ WF_connectionVars(\E u \in upload : UploadPicture(u))
ConnectionFairSpec == ConnectionSpec /\ ConnectionFairness

-----------------------------------------------------------------------------
(* Properties.                                                             *)

Idle == \A w \in Windows : command[w].pc = "none"

\* The token in the settings is one of the server in the settings, and the room is
\* that of the token, unless commands overlapped or the app was quit in between.
\* One later connection that succeeds by itself sets the token right, but only one
\* that registers sets the room right.
CredentialsFit ==
  conn.token # NoToken =>
    /\ "token" \notin mixed => conn.token.server = conn.url
    /\ "life" \notin mixed => conn.life = conn.token.agent

\* To disconnect and connect again under the same name leads to the same room, over
\* other servers in between and failing calls, unless a renaming took a name that
\* somebody else on the server has.
SameRoomAgain ==
  [][\A s \in Servers :
       mixed = {} /\ home[s] # 0 /\ conn'.token # conn.token /\ conn'.token.server = s
         => conn'.token.agent = home[s]]_connectionVars

\* The server shows the picture of the mate as it is in the end, also when older
\* ones arrive late or the server refuses some.
FaceFollows ==
  \A s \in Servers :
    <>[](Idle /\ conn.url = s /\ Accepts(s, conn.token)) =>
      []<>(Accepts(s, conn.token) => accounts[s][conn.token.agent].image = profile.sprite)

\* life_client.rs on rename: it carries the work account along, so that an existing
\* connection is updated too.  The server takes the name alone.
IdentityFollows ==
  [][\A w \in Windows : command[w].pc = "store" /\ command'[w].pc = "none" /\ mixed = {}
       => accounts[command[w].url][command[w].token.agent].work = command[w].work]_connectionVars
=============================================================================
