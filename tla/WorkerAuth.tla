------------------------------ MODULE WorkerAuth ------------------------------
(***************************************************************************)
(* Requests to the Worker, from a fresh database on: every request first   *)
(* makes sure that the administrator is there (three INSERTs that are no   *)
(* batch), then asks who sends it, then does what its route does.          *)
(*                                                                         *)
(* The library is a number that each write raises.  Passwords are model    *)
(* values; what a hash is made of is left out.  A request that fails for   *)
(* its client is not worked on afterwards.                                 *)
(***************************************************************************)
EXTENDS Naturals, FiniteSets

CONSTANTS
  Passwords,       \* passwords in use
  FirstPassword,   \* DEFAULT_ADMIN_PASSWORD
  NoPassword,      \* new_password left out
  MaxKills         \* how many requests are killed or lost

ASSUME AuthAssumption ==
  FirstPassword \in Passwords /\ NoPassword \notin Passwords /\ MaxKills \in Nat

VARIABLES
  users,       \* the row of the administrator
  inbox,       \* the Inbox is there
  setting,     \* inbox_folder_id is there
  data,        \* the library
  valid,       \* tokens that verify: signed and not expired
  net,         \* requests on their way, and answers on theirs
  kills,       \* requests killed or lost so far
  changed,     \* history: the new password of the last UPDATE that set one
  overlapped   \* history: two PUT /auth/credentials worked at the same time

worker == <<users, inbox, setting, data, valid>>
ghosts == <<kills, changed, overlapped>>

NoUser == [there |-> FALSE, must |-> FALSE, pw |-> NoPassword]
Row(must, pw) == [there |-> TRUE, must |-> must, pw |-> pw]

Tokens == {"stored", "issued"}
NoToken == "none"
Routes == {"public", "login", "me", "home", "edit", "credentials"}
Open == {"public", "login"}                     \* routes that ask for no token
Bootstrapping == {"admin", "inbox", "setting"}

NoBody == [pw |-> NoPassword, new |-> NoPassword]
NoAnswer == [status |-> 0]
Request(n, route, token, body) ==
  [n |-> n, route |-> route, token |-> token, body |-> body, pc |-> "sent", seen |-> NoUser, answer |-> NoAnswer]

OK(value) == [status |-> 200, value |-> value]
Error(status) == [status |-> status]
Unauthorized == Error(401)
Forbidden == Error(403)
Failed == Error(599)     \* as fetch has it when it throws, and 500

At(r, pc) == net' = (net \ {r}) \cup {[r EXCEPT !.pc = pc]}
Answers(r, answer) ==
  net' = (net \ {r}) \cup {[r EXCEPT !.pc = "answered", !.answer = answer, !.seen = NoUser, !.body = NoBody]}

-----------------------------------------------------------------------------
\* ensureBootstrap

FindNoAdmin(r) ==
  /\ r.pc = "sent" /\ ~users.there
  /\ At(r, "admin")
  /\ UNCHANGED <<worker, ghosts>>

\* users.username is UNIQUE: the second INSERT throws.
NextOf_Setting(pc) == CASE pc = "admin" -> "setting" [] pc = "setting" -> "inbox" [] OTHER -> "sent"
NextOf(pc) == CASE pc = "admin" -> "inbox" [] pc = "inbox" -> "setting" [] OTHER -> "sent"
InsertAdmin(r) ==
  /\ r.pc = "admin"
  /\ IF users.there THEN Answers(r, Failed) /\ UNCHANGED users
     ELSE At(r, NextOf("admin")) /\ users' = Row(TRUE, FirstPassword)
  /\ UNCHANGED <<inbox, setting, data, valid, ghosts>>

InsertInbox(r) ==
  /\ r.pc = "inbox"
  /\ inbox' = TRUE /\ At(r, NextOf("inbox"))
  /\ UNCHANGED <<users, setting, data, valid, ghosts>>

InsertSetting(r) ==
  /\ r.pc = "setting"
  /\ setting' = TRUE /\ At(r, NextOf("setting"))
  /\ UNCHANGED <<users, inbox, data, valid, ghosts>>

-----------------------------------------------------------------------------
\* The routes, once the administrator is there

Allowed_Home == {"login", "me", "credentials", "home"}
Allowed == {"login", "me", "credentials"}       \* FORCE_CHANGE_ALLOW
Known(r) == r.token \in valid
\* authUser: what it refuses.
Refused(r) == r.route \notin Open /\ (~Known(r) \/ (users.must /\ r.route \notin Allowed))
Refusal(r) == IF Known(r) THEN Forbidden ELSE Unauthorized

Serves(r) == r.pc = "sent" /\ users.there

Refuse(r) ==
  /\ Serves(r) /\ Refused(r)
  /\ Answers(r, Refusal(r))
  /\ UNCHANGED <<worker, ghosts>>

\* GET /nav/public, and GET /nav/home with /tags and /folders
ReadLibrary(r) ==
  /\ Serves(r) /\ ~Refused(r) /\ r.route \in {"public", "home"}
  /\ Answers(r, OK(data))
  /\ UNCHANGED <<worker, ghosts>>

\* PATCH /bookmarks/:id and the other writes of the page
Edit(r) ==
  /\ Serves(r) /\ ~Refused(r) /\ r.route = "edit"
  /\ data' = data + 1
  /\ Answers(r, OK(data'))
  /\ UNCHANGED <<users, inbox, setting, valid, ghosts>>

Me(r) ==
  /\ Serves(r) /\ ~Refused(r) /\ r.route = "me"
  /\ Answers(r, OK(users.must))
  /\ UNCHANGED <<worker, ghosts>>

Login(r) ==
  /\ Serves(r) /\ r.route = "login"
  /\ Answers(r, IF users.pw = r.body.pw THEN OK(users.must) ELSE Unauthorized)
  /\ UNCHANGED <<worker, ghosts>>

\* PUT /auth/credentials: the row is read, and all of it written back.
ReadCredentials(r) ==
  /\ Serves(r) /\ ~Refused(r) /\ r.route = "credentials"
  /\ IF users.pw = r.body.pw
     THEN net' = (net \ {r}) \cup {[r EXCEPT !.pc = "update", !.seen = users]}
     ELSE Answers(r, Unauthorized)
  /\ overlapped' = (overlapped \/ \E q \in net : q.pc = "update")
  /\ UNCHANGED <<worker, kills, changed>>

Renewed_Name(r) == Row(FALSE, IF r.body.new = NoPassword THEN r.seen.pw ELSE r.body.new)
Renewed(r) ==
  IF r.body.new = NoPassword THEN Row(r.seen.must, r.seen.pw) ELSE Row(FALSE, r.body.new)
UpdateCredentials(r) ==
  /\ r.pc = "update"
  /\ users' = Renewed(r)
  /\ changed' = IF r.body.new = NoPassword THEN changed ELSE r.body.new
  /\ Answers(r, OK(users'.must))
  /\ UNCHANGED <<inbox, setting, data, valid, kills, overlapped>>

-----------------------------------------------------------------------------
\* The Worker is killed in a request, or the answer is lost; a read that is killed is as
\* one whose answer is lost.
Fail(r) ==
  /\ r.pc = "sent" => r.route = "edit"
  /\ kills < MaxKills /\ kills' = kills + 1
  /\ r.answer # Failed /\ Answers(r, Failed)
  /\ UNCHANGED <<worker, changed, overlapped>>

Step(r) ==
  \/ FindNoAdmin(r) \/ InsertAdmin(r) \/ InsertInbox(r) \/ InsertSetting(r)
  \/ Refuse(r) \/ ReadLibrary(r) \/ Edit(r) \/ Me(r) \/ Login(r)
  \/ ReadCredentials(r) \/ UpdateCredentials(r)

-----------------------------------------------------------------------------
\* Properties

\* F-003, "accessing this resource": changes that do not overlap stick, the password that was
\* set last is the one that logs in; and while a change is still forced, the password is the
\* first one, even when an overlapping change of the name has put both back.
Sticks ==
  /\ (changed # NoPassword /\ ~overlapped) => users.pw = changed /\ ~users.must
  /\ users.must => users.pw = FirstPassword

\* A forced change is over only by a request that sets a password, or that had read the row
\* when one had been set; that it is another password than the first, nothing asks.
ForceEnds ==
  [][(users.must /\ ~users'.must) =>
       \E r \in net : /\ r.pc = "update"
                      /\ \/ r.body.new # NoPassword /\ users'.pw = r.body.new
                         \/ ~r.seen.must /\ users'.pw = r.seen.pw]_users

\* Both: what a change of the credentials does to the password and to the forced change.
ChangeSticks == []Sticks /\ ForceEnds

\* The setting names an Inbox that is there; and unless a request was killed, the database
\* is whole as soon as no request is setting it up.
BootstrapWhole ==
  /\ setting => inbox
  /\ (users.there /\ kills = 0 /\ \A r \in net : r.pc \notin Bootstrapping) => setting
=============================================================================
