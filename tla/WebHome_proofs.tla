---------------------------- MODULE WebHome_proofs ----------------------------
(***************************************************************************)
(* The bootstrap is whole, a change of credentials sticks, nothing private *)
(* is shown before the first one and the newest reload shows what is so,   *)
(* in whatever order any number of requests are worked on, answered and    *)
(* taken by the page.  And the other client of the Worker: the change feed *)
(* tells whoever follows it what the bookmarks are.                        *)
(***************************************************************************)
EXTENDS WebHome, ChangeFeed, FiniteSetTheorems, TLAPS

-----------------------------------------------------------------------------
\* The inductive invariant

Pws == Passwords \cup {NoPassword}
Rows == [there : BOOLEAN, must : BOOLEAN, pw : Pws]
Phases == Bootstrapping \cup {"sent", "update", "answered"}

\* A request has the fields of one; what an answer holds depends on the route.
Fields(r) ==
  r = [n |-> r.n, route |-> r.route, token |-> r.token, body |-> r.body,
       pc |-> r.pc, seen |-> r.seen, answer |-> r.answer]
IsRequest(r) ==
  /\ Fields(r)
  /\ r.n \in 1..sent /\ r.route \in Routes /\ r.token \in Tokens \cup {NoToken}
  /\ r.body \in [pw : Pws, new : Pws] /\ r.pc \in Phases /\ r.seen \in Rows
  /\ r.route \in {"public", "home"} =>
       /\ r.n <= page.asked
       /\ r.pc = "answered" /\ r.answer.status = 200 => r.answer.value \in Nat

Pages == [token : Tokens \cup {NoToken}, must : Musts, shown : Pictures, asked : Nat,
          drag : [on : BOOLEAN, shown : Pictures]]

Typed ==
  /\ users \in Rows /\ inbox \in BOOLEAN /\ setting \in BOOLEAN /\ overlapped \in BOOLEAN
  /\ data \in Nat /\ valid \subseteq Tokens /\ sent \in Nat
  /\ \A r \in net : IsRequest(r)
  /\ \A q, r \in net : q.n = r.n => q = r
  /\ page \in Pages /\ page.shown.of <= page.asked /\ page.drag.shown.of <= page.asked
  /\ page.asked <= sent
  /\ acts \in Nat /\ acts <= MaxActs /\ kills \in Nat /\ kills <= MaxKills /\ changed \in Pws

\* Only a request that is making the database is between its steps.
SettingUp ==
  /\ setting => inbox
  /\ \A r \in net : r.pc = "setting" => inbox
  /\ users.there /\ kills = 0 /\ ~setting => \E r \in net : r.pc \in {"inbox", "setting"}

\* What a change of credentials has read is still so, unless two overlap; and a forced change
\* goes with the first password in the row and in what was read of it.
Seen ==
  /\ \A r \in net : r.pc = "update" =>
       users.there /\ r.route = "credentials" /\ (r.seen.must => r.seen.pw = FirstPassword)
  /\ users.must => users.pw = FirstPassword
  /\ changed # NoPassword => users.there
  /\ ~overlapped =>
       /\ \A r \in net : r.pc = "update" => r.seen = users
       /\ \A q, r \in net : q.pc = "update" /\ r.pc = "update" => q = r
       /\ changed # NoPassword => users.pw = changed /\ ~users.must

\* Before the first password is changed no private data is on its way either.
NothingPrivate ==
  /\ page.shown.kind # "home" /\ page.drag.shown.kind # "home"
  /\ \A r \in net : r.pc = "answered" /\ r.route = "home" => r.answer.status # 200
Private ==
  ~users.there \/ (~overlapped /\ changed = NoPassword /\ users.must) => NothingPrivate

IInv == Typed /\ SettingUp /\ Seen /\ Private

LEMMA RowTyped ==
  ASSUME NEW must \in BOOLEAN, NEW pw \in Pws
  PROVE  /\ Row(must, pw) \in Rows /\ Row(must, pw).there
         /\ Row(must, pw).must = must /\ Row(must, pw).pw = pw
BY DEF Row, Rows

-----------------------------------------------------------------------------
\* The first state
LEMMA InitHolds == Init => IInv
<1> SUFFICES ASSUME Init PROVE IInv
  OBVIOUS
<1> USE AuthAssumption, ActsAssumption
<1>1. /\ users \in Rows /\ inbox \in BOOLEAN /\ setting \in BOOLEAN
      /\ users.must => users.pw = FirstPassword
      /\ (users.there /\ inbox = TRUE /\ setting = TRUE) \/ (~users.there /\ setting = FALSE)
  <2>1. CASE users = NoUser /\ inbox = FALSE /\ setting = FALSE
    BY <2>1 DEF NoUser, Rows, Pws
  <2>2. CASE users \in {Row(TRUE, FirstPassword), Row(FALSE, FirstPassword)} /\ inbox = TRUE /\ setting = TRUE
    <3>1. FirstPassword \in Pws
      BY DEF Pws
    <3>2. PICK must \in BOOLEAN : users = Row(must, FirstPassword)
      BY <2>2
    <3>3. users \in Rows /\ users.there /\ users.pw = FirstPassword
      BY <3>1, <3>2, RowTyped
    <3> QED BY <2>2, <3>3, Zenon
  <2> QED BY <2>1, <2>2 DEF Init
<1>2. PICK token \in {"stored", NoToken} :
        /\ page = Mounted(token)
        /\ \/ net = {Request(1, "public", token, NoBody)} /\ sent = 1
           \/ net = {Request(1, "home", token, NoBody), Request(2, "me", token, NoBody)} /\ sent = 2
  BY DEF Init
<1>3. page \in Pages /\ page.asked = 1 /\ page.shown = Nothing /\ page.drag.shown = Nothing
  BY <1>2 DEF Mounted, Pages, Nothing, NoDrag, Pictures, Musts, Tokens, NoToken
<1>4. \A r \in net : IsRequest(r) /\ r.pc = "sent"
  <2>1. NoUser \in Rows /\ NoBody \in [pw : Pws, new : Pws]
    BY DEF NoUser, Rows, NoBody, Pws
  <2>2. token \in Tokens \cup {NoToken} /\ {"public", "home", "me"} \subseteq Routes /\ "sent" \in Phases
    BY DEF Tokens, NoToken, Routes, Phases
  <2> QED BY <1>2, <1>3, <2>1, <2>2 DEF Request, IsRequest, Fields
<1>5. \A q, r \in net : q.n = r.n => q = r
  BY <1>2 DEF Request
<1>6. Typed
  <2>1. sent \in Nat /\ page.asked <= sent
    BY <1>2, <1>3
  <2>2. page.shown.of <= page.asked /\ page.drag.shown.of <= page.asked
    BY <1>3 DEF Nothing
  <2>3. /\ data \in Nat /\ valid \subseteq Tokens /\ overlapped \in BOOLEAN /\ changed \in Pws
        /\ acts \in Nat /\ acts <= MaxActs /\ kills \in Nat /\ kills <= MaxKills
    <3>1. valid \subseteq Tokens /\ changed \in Pws
      BY DEF Init, Tokens, Pws
    <3>2. data = 0 /\ kills = 0 /\ acts = 0
      BY DEF Init
    <3>3. overlapped \in BOOLEAN
      BY Zenon DEF Init
    <3>4. data \in Nat /\ acts \in Nat /\ acts <= MaxActs /\ kills \in Nat /\ kills <= MaxKills
      BY <3>2
    <3> QED BY <3>1, <3>3, <3>4, Zenon
  <2> QED BY <1>1, <1>3, <1>4, <1>5, <2>1, <2>2, <2>3 DEF Typed
<1>7. SettingUp
  BY <1>1, <1>4 DEF SettingUp
<1>8. Seen
  BY <1>1, <1>4 DEF Init, Seen
<1>9. Private
  BY <1>3, <1>4 DEF Private, NothingPrivate, Nothing
<1> QED BY <1>6, <1>7, <1>8, <1>9 DEF IInv

-----------------------------------------------------------------------------
\* The Worker works on a request: q takes the place of r.

NetTyped ==
  /\ \A r \in net : IsRequest(r)
  /\ \A q, r \in net : q.n = r.n => q = r

Becoming(r, q) ==
  net' = (net \ {r}) \cup {q} /\ IsRequest(q) /\ q.n = r.n /\ q.route = r.route /\ q.token = r.token

PageStill == UNCHANGED <<page, sent, acts, older>>

LEMMA SetPc ==
  ASSUME NEW r, Fields(r), NEW v
  PROVE  [r EXCEPT !.pc = v] = [n |-> r.n, route |-> r.route, token |-> r.token, body |-> r.body,
                                pc |-> v, seen |-> r.seen, answer |-> r.answer]
BY DEF Fields

LEMMA SetSeen ==
  ASSUME NEW r, Fields(r), NEW v
  PROVE  [r EXCEPT !.seen = v] = [n |-> r.n, route |-> r.route, token |-> r.token, body |-> r.body,
                                  pc |-> r.pc, seen |-> v, answer |-> r.answer]
BY DEF Fields

LEMMA SetAnswer ==
  ASSUME NEW r, Fields(r), NEW v
  PROVE  [r EXCEPT !.answer = v] = [n |-> r.n, route |-> r.route, token |-> r.token, body |-> r.body,
                                    pc |-> r.pc, seen |-> r.seen, answer |-> v]
BY DEF Fields

LEMMA SetBody ==
  ASSUME NEW r, Fields(r), NEW v
  PROVE  [r EXCEPT !.body = v] = [n |-> r.n, route |-> r.route, token |-> r.token, body |-> v,
                                  pc |-> r.pc, seen |-> r.seen, answer |-> r.answer]
BY DEF Fields

LEMMA BecomingTyped ==
  ASSUME Typed, NEW r \in net, NEW q, Becoming(r, q), PageStill
  PROVE  NetTyped'
<1>1. \A x \in net' : IsRequest(x)
  BY DEF Becoming, Typed
<1>2. \A x : IsRequest(x)' <=> IsRequest(x)
  BY DEF PageStill, IsRequest
<1> QED BY <1>1, <1>2 DEF Becoming, Typed, NetTyped

LEMMA Answering ==
  ASSUME Typed, NEW r \in net, NEW a, Answers(r, a),
         r.route \in {"public", "home"} /\ a.status = 200 => a.value \in Nat
  PROVE  \E q : Becoming(r, q) /\ q.pc = "answered" /\ q.answer = a
<1> DEFINE q == [r EXCEPT !.pc = "answered", !.answer = a, !.seen = NoUser, !.body = NoBody]
<1>1. IsRequest(r)
  BY DEF Typed
<1>2. q = [n |-> r.n, route |-> r.route, token |-> r.token, body |-> NoBody,
           pc |-> "answered", seen |-> NoUser, answer |-> a]
  <2> DEFINE q1 == [r EXCEPT !.pc = "answered"]
             q2 == [q1 EXCEPT !.answer = a]
             q3 == [q2 EXCEPT !.seen = NoUser]
  <2>1. q1 = [n |-> r.n, route |-> r.route, token |-> r.token, body |-> r.body,
              pc |-> "answered", seen |-> r.seen, answer |-> r.answer]
    BY <1>1, SetPc DEF IsRequest
  <2>2. q2 = [n |-> r.n, route |-> r.route, token |-> r.token, body |-> r.body,
              pc |-> "answered", seen |-> r.seen, answer |-> a]
    <3> HIDE DEF q1
    <3> QED BY <2>1, SetAnswer DEF Fields
  <2>3. q3 = [n |-> r.n, route |-> r.route, token |-> r.token, body |-> r.body,
              pc |-> "answered", seen |-> NoUser, answer |-> a]
    <3> HIDE DEF q2
    <3> QED BY <2>2, SetSeen DEF Fields
  <2>4. [q3 EXCEPT !.body = NoBody] =
            [n |-> r.n, route |-> r.route, token |-> r.token, body |-> NoBody,
             pc |-> "answered", seen |-> NoUser, answer |-> a]
    <3> HIDE DEF q3
    <3> QED BY <2>3, SetBody DEF Fields
  <2>5. q = [q3 EXCEPT !.body = NoBody]
    OBVIOUS
  <2> QED BY <2>4, <2>5
<1>3. NoUser \in Rows /\ NoBody \in [pw : Pws, new : Pws] /\ "answered" \in Phases
  BY DEF NoUser, NoBody, Rows, Pws, Phases
<1>4. IsRequest(q)
  BY <1>1, <1>2, <1>3 DEF IsRequest, Fields
<1>5. Becoming(r, q)
  BY <1>2, <1>4 DEF Answers, Becoming
<1> QED BY <1>2, <1>5

LEMMA Advancing ==
  ASSUME Typed, NEW r \in net, NEW pc \in Phases \ {"answered"}, At(r, pc)
  PROVE  \E q : Becoming(r, q) /\ q.pc = pc
<1> DEFINE q == [r EXCEPT !.pc = pc]
<1>1. IsRequest(r)
  BY DEF Typed
<1>2. q = [n |-> r.n, route |-> r.route, token |-> r.token, body |-> r.body,
           pc |-> pc, seen |-> r.seen, answer |-> r.answer]
  BY <1>1, SetPc DEF IsRequest
<1>3. IsRequest(q)
  BY <1>1, <1>2 DEF IsRequest, Fields
<1>4. Becoming(r, q)
  BY <1>2, <1>3 DEF At, Becoming
<1> QED BY <1>2, <1>4

\* A request that is looked at or answered, and changes at most the library.
LEMMA QuietKeeps ==
  ASSUME IInv, NEW r \in net, NEW q, Becoming(r, q), PageStill,
         UNCHANGED <<users, inbox, setting, valid, ghosts>>, data' \in Nat,
         r.pc = "sent", q.pc \in {"admin", "answered"},
         q.pc = "answered" /\ q.route = "home" /\ q.answer.status = 200 => users.there /\ ~users.must
  PROVE  IInv'
<1>1. Typed'
  <2>1. NetTyped'
    BY BecomingTyped DEF IInv
  <2> QED BY <2>1 DEF IInv, Typed, NetTyped, PageStill, ghosts
<1>2. SettingUp'
  BY DEF IInv, SettingUp, Becoming, ghosts
<1>3. Seen'
  BY DEF IInv, Seen, Becoming, ghosts
<1>4. Private'
  BY DEF IInv, Private, NothingPrivate, Becoming, PageStill, ghosts
<1> QED BY <1>1, <1>2, <1>3, <1>4 DEF IInv

LEMMA ReadsKeep ==
  ASSUME IInv, NEW r \in net, PageStill,
         FindNoAdmin(r) \/ Refuse(r) \/ ReadLibrary(r) \/ Edit(r) \/ Me(r) \/ Login(r)
  PROVE  IInv'
<1>1. r.pc = "sent" /\ data \in Nat /\ Typed
  BY DEF FindNoAdmin, Refuse, ReadLibrary, Edit, Me, Login, Serves, IInv, Typed
<1>2. CASE FindNoAdmin(r)
  <2>1. "admin" \in Phases \ {"answered"}
    BY DEF Phases, Bootstrapping
  <2>2. PICK q : Becoming(r, q) /\ q.pc = "admin"
    BY <1>1, <1>2, <2>1, Advancing DEF FindNoAdmin
  <2> QED BY <1>1, <1>2, <2>2, QuietKeeps DEF FindNoAdmin, worker
<1>3. CASE Refuse(r)
  <2>1. Refusal(r).status # 200
    BY DEF Refusal, Forbidden, Unauthorized, Error
  <2>2. PICK q : Becoming(r, q) /\ q.pc = "answered" /\ q.answer = Refusal(r)
    BY <1>1, <1>3, <2>1, Answering DEF Refuse
  <2> QED BY <1>1, <1>3, <2>1, <2>2, QuietKeeps DEF Refuse, worker
<1>4. CASE ReadLibrary(r)
  <2>1. PICK q : Becoming(r, q) /\ q.pc = "answered" /\ q.answer = OK(data)
    BY <1>1, <1>4, Answering DEF ReadLibrary, OK
  <2>2. r.route = "home" => users.there /\ ~users.must
    BY <1>4 DEF ReadLibrary, Serves, Refused, Open, Allowed
  <2> QED BY <1>1, <1>4, <2>1, <2>2, QuietKeeps DEF ReadLibrary, worker, Becoming
<1>5. CASE Edit(r)
  <2>1. data' \in Nat /\ r.route = "edit"
    BY <1>1, <1>5 DEF Edit
  <2>2. PICK q : Becoming(r, q) /\ q.pc = "answered" /\ q.answer = OK(data')
    BY <1>1, <1>5, <2>1, Answering DEF Edit
  <2> QED BY <1>1, <1>5, <2>1, <2>2, QuietKeeps DEF Edit, Becoming
<1>6. CASE Me(r)
  <2>1. r.route = "me"
    BY <1>6 DEF Me
  <2>2. PICK q : Becoming(r, q) /\ q.pc = "answered" /\ q.answer = OK(users.must)
    BY <1>1, <1>6, <2>1, Answering DEF Me
  <2> QED BY <1>1, <1>6, <2>1, <2>2, QuietKeeps DEF Me, worker, Becoming
<1>7. CASE Login(r)
  <2>1. r.route = "login"
    BY <1>7 DEF Login
  <2>2. PICK q : Becoming(r, q) /\ q.pc = "answered"
    BY <1>1, <1>7, <2>1, Answering DEF Login
  <2> QED BY <1>1, <1>7, <2>1, <2>2, QuietKeeps DEF Login, worker, Becoming
<1> QED BY <1>2, <1>3, <1>4, <1>5, <1>6, <1>7

LEMMA InsertAdminKeeps ==
  ASSUME IInv, NEW r \in net, PageStill, InsertAdmin(r)  PROVE IInv'
<1>1. r.pc = "admin" /\ Typed /\ UNCHANGED <<inbox, setting, data, valid, ghosts>>
  BY DEF InsertAdmin, IInv
<1>2. CASE users.there
  <2>1. Answers(r, Failed) /\ users' = users /\ Failed.status # 200
    BY <1>2 DEF InsertAdmin, Failed, Error
  <2>2. PICK q : Becoming(r, q) /\ q.pc = "answered" /\ q.answer = Failed
    BY <1>1, <2>1, Answering
  <2>3. Typed'
    <3>1. NetTyped'
      BY <1>1, <2>2, BecomingTyped
    <3> QED BY <1>1, <2>1, <3>1 DEF Typed, NetTyped, PageStill, ghosts
  <2>4. SettingUp'
    BY <1>1, <2>1, <2>2 DEF IInv, SettingUp, Becoming, ghosts
  <2>5. Seen'
    BY <1>1, <2>1, <2>2 DEF IInv, Seen, Becoming, ghosts
  <2>6. Private'
    BY <1>1, <2>1, <2>2 DEF IInv, Private, NothingPrivate, Becoming, PageStill, ghosts
  <2> QED BY <2>3, <2>4, <2>5, <2>6 DEF IInv
<1>3. CASE ~users.there
  <2>1. At(r, "inbox") /\ users' = Row(TRUE, FirstPassword)
    BY <1>3 DEF InsertAdmin, NextOf
  <2>2. users' \in Rows /\ users'.there /\ users'.pw = FirstPassword
    <3>1. FirstPassword \in Pws
      BY AuthAssumption DEF Pws
    <3> QED BY <2>1, <3>1, RowTyped
  <2>3. "inbox" \in Phases \ {"answered"}
    BY DEF Phases, Bootstrapping
  <2>4. PICK q : Becoming(r, q) /\ q.pc = "inbox"
    BY <1>1, <2>1, <2>3, Advancing
  <2>5. Typed'
    <3>1. NetTyped'
      BY <1>1, <2>4, BecomingTyped
    <3> QED BY <1>1, <2>2, <3>1 DEF Typed, NetTyped, PageStill, ghosts
  <2>6. SettingUp'
    BY <1>1, <2>4 DEF IInv, SettingUp, Becoming
  <2>7. changed = NoPassword /\ \A x \in net : x.pc # "update"
    BY <1>3 DEF IInv, Seen
  <2>8. Seen'
    BY <1>1, <2>2, <2>4, <2>7 DEF Seen, Becoming, ghosts
  <2>9. Private'
    <3>1. NothingPrivate
      BY <1>3 DEF IInv, Private
    <3>2. NothingPrivate'
      BY <3>1, <2>4 DEF NothingPrivate, Becoming, PageStill
    <3> QED BY <3>2 DEF Private
  <2> QED BY <2>5, <2>6, <2>8, <2>9 DEF IInv
<1> QED BY <1>2, <1>3

LEMMA InsertInboxKeeps ==
  ASSUME IInv, NEW r \in net, PageStill, InsertInbox(r) \/ InsertSetting(r)  PROVE IInv'
<1>1. /\ r.pc \in {"inbox", "setting"} /\ Typed
      /\ inbox' \in BOOLEAN /\ setting' \in BOOLEAN /\ UNCHANGED <<users, data, valid, ghosts>>
  BY DEF InsertInbox, InsertSetting, IInv, Typed
<1>2. {"setting", "sent"} \subseteq Phases \ {"answered"}
  BY DEF Phases, Bootstrapping
<1>3. PICK q : /\ Becoming(r, q)
               /\ \/ r.pc = "inbox" /\ inbox' = TRUE /\ setting' = setting /\ q.pc = "setting"
                  \/ r.pc = "setting" /\ setting' = TRUE /\ inbox' = inbox /\ q.pc = "sent"
  <2>1. CASE InsertInbox(r)
    <3>1. At(r, "setting") /\ r.pc = "inbox" /\ inbox' = TRUE /\ setting' = setting
      BY <2>1 DEF InsertInbox, NextOf
    <3>2. PICK q : Becoming(r, q) /\ q.pc = "setting"
      BY <1>1, <1>2, <3>1, Advancing
    <3> QED BY <3>1, <3>2
  <2>2. CASE InsertSetting(r)
    <3>1. At(r, "sent") /\ r.pc = "setting" /\ setting' = TRUE /\ inbox' = inbox
      BY <2>2 DEF InsertSetting, NextOf
    <3>2. PICK q : Becoming(r, q) /\ q.pc = "sent"
      BY <1>1, <1>2, <3>1, Advancing
    <3> QED BY <3>1, <3>2
  <2> QED BY <2>1, <2>2
<1>4. Typed'
  <2>1. NetTyped'
    BY <1>1, <1>3, BecomingTyped
  <2> QED BY <1>1, <2>1 DEF Typed, NetTyped, PageStill, ghosts
<1>5. SettingUp'
  BY <1>1, <1>3 DEF IInv, SettingUp, Becoming, ghosts
<1>6. Seen'
  BY <1>1, <1>3 DEF IInv, Seen, Becoming, ghosts
<1>7. Private'
  BY <1>1, <1>3 DEF IInv, Private, NothingPrivate, Becoming, PageStill, ghosts
<1> QED BY <1>4, <1>5, <1>6, <1>7 DEF IInv

LEMMA CredentialsRead ==
  ASSUME Typed, NEW r \in net, ReadCredentials(r)
  PROVE  \E q : Becoming(r, q) /\ (q.pc = "answered" \/ (q.pc = "update" /\ q.seen = users))
<1>0. r.route = "credentials"
  BY DEF ReadCredentials
<1>1. CASE Answers(r, Unauthorized)
  BY <1>0, <1>1, Answering
<1>2. CASE net' = (net \ {r}) \cup {[r EXCEPT !.pc = "update", !.seen = users]}
  <2> DEFINE q == [r EXCEPT !.pc = "update", !.seen = users]
  <2>1. IsRequest(r)
    BY <1>0 DEF Typed
  <2>2. q = [n |-> r.n, route |-> r.route, token |-> r.token, body |-> r.body,
             pc |-> "update", seen |-> users, answer |-> r.answer]
    <3> DEFINE q1 == [r EXCEPT !.pc = "update"]
    <3>1. q1 = [n |-> r.n, route |-> r.route, token |-> r.token, body |-> r.body,
                pc |-> "update", seen |-> r.seen, answer |-> r.answer]
      BY <2>1, SetPc DEF IsRequest
    <3>2. [q1 EXCEPT !.seen = users] =
               [n |-> r.n, route |-> r.route, token |-> r.token, body |-> r.body,
                pc |-> "update", seen |-> users, answer |-> r.answer]
      <4> HIDE DEF q1
      <4> QED BY <3>1, SetSeen DEF Fields
    <3>3. q = [q1 EXCEPT !.seen = users]
      OBVIOUS
    <3> QED BY <3>2, <3>3
  <2>3. "update" \in Phases /\ users \in Rows
    BY <1>0 DEF Phases, Typed
  <2>4. IsRequest(q)
    BY <1>0, <2>1, <2>2, <2>3 DEF IsRequest, Fields
  <2> QED BY <1>2, <2>2, <2>4 DEF Becoming
<1> QED BY <1>1, <1>2 DEF ReadCredentials

LEMMA ReadCredentialsKeeps ==
  ASSUME IInv, NEW r \in net, PageStill, ReadCredentials(r)  PROVE IInv'
<1>1. /\ r.pc = "sent" /\ r.route = "credentials" /\ users.there /\ Typed
      /\ UNCHANGED <<worker, kills, changed>>
  BY DEF ReadCredentials, Serves, IInv
<1>2. /\ overlapped' \in BOOLEAN
      /\ ~overlapped' => ~overlapped /\ \A q \in net : q.pc # "update"
  BY <1>1 DEF ReadCredentials, Typed
<1>3. PICK q : Becoming(r, q) /\ (q.pc = "answered" \/ (q.pc = "update" /\ q.seen = users))
  BY <1>1, CredentialsRead
<1>4. Typed'
  <2>1. NetTyped'
    BY <1>1, <1>3, BecomingTyped
  <2> QED BY <1>1, <1>2, <2>1 DEF Typed, NetTyped, PageStill, worker
<1>5. SettingUp'
  BY <1>1, <1>3 DEF IInv, SettingUp, Becoming, worker
<1>6. Seen'
  BY <1>1, <1>2, <1>3 DEF IInv, Seen, Becoming, worker
<1>7. Private'
  BY <1>1, <1>2, <1>3 DEF IInv, Private, NothingPrivate, Becoming, PageStill, worker
<1> QED BY <1>4, <1>5, <1>6, <1>7 DEF IInv

LEMMA UpdateCredentialsKeeps ==
  ASSUME IInv, NEW r \in net, PageStill, UpdateCredentials(r)  PROVE IInv'
<1>1. /\ r.pc = "update" /\ r.route = "credentials" /\ Typed /\ users.there
      /\ UNCHANGED <<inbox, setting, data, valid, kills, overlapped>>
      /\ users' = Renewed(r)
      /\ changed' = IF r.body.new = NoPassword THEN changed ELSE r.body.new
  BY DEF UpdateCredentials, IInv, Seen
<1>2. r.body.new \in Pws /\ r.seen \in Rows /\ IsRequest(r)
  BY <1>1 DEF Typed, IsRequest
<1>3. /\ users' \in Rows /\ users'.there
      /\ r.body.new = NoPassword => users'.must = r.seen.must /\ users'.pw = r.seen.pw
      /\ r.body.new # NoPassword => users'.must = FALSE /\ users'.pw = r.body.new
  <2>1. r.seen.must \in BOOLEAN /\ r.seen.pw \in Pws
    BY <1>2 DEF Rows
  <2> QED BY <1>1, <1>2, <2>1, RowTyped DEF Renewed
<1>4. PICK q : Becoming(r, q) /\ q.pc = "answered"
  BY <1>1, Answering DEF UpdateCredentials
<1>5. Typed'
  <2>1. NetTyped'
    BY <1>1, <1>4, BecomingTyped
  <2>2. changed' \in Pws
    BY <1>1, <1>2 DEF Typed
  <2> QED BY <1>1, <1>3, <2>1, <2>2 DEF Typed, NetTyped, PageStill
<1>6. SettingUp'
  BY <1>1, <1>4 DEF IInv, SettingUp, Becoming
<1>7. Seen'
  <2>1. \A x \in net' : x.pc = "update" =>
          x.route = "credentials" /\ x \in net \ {r} /\ (x.seen.must => x.seen.pw = FirstPassword)
    BY <1>4 DEF IInv, Seen, Becoming
  <2>0. users'.must => users'.pw = FirstPassword
    BY <1>1, <1>3 DEF IInv, Seen
  <2>2. CASE overlapped
    BY <1>1, <1>3, <2>0, <2>1, <2>2 DEF Seen
  <2>3. CASE ~overlapped
    <3>1. \A x \in net' : x.pc # "update"
      BY <1>1, <2>1, <2>3 DEF IInv, Seen
    <3>2. changed' # NoPassword => users'.pw = changed' /\ ~users'.must
      <4>1. r.seen = users
        BY <1>1, <2>3 DEF IInv, Seen
      <4>2. CASE r.body.new = NoPassword
        BY <1>1, <1>3, <2>3, <4>1, <4>2 DEF IInv, Seen
      <4>3. CASE r.body.new # NoPassword
        BY <1>1, <1>3, <4>3
      <4> QED BY <4>2, <4>3
    <3> QED BY <1>1, <1>3, <2>0, <3>1, <3>2 DEF Seen
  <2> QED BY <2>2, <2>3
<1>8. Private'
  <2>1. SUFFICES ASSUME ~overlapped', changed' = NoPassword, users'.must
                 PROVE  NothingPrivate'
    BY <1>3 DEF Private
  <2>2. r.body.new = NoPassword /\ changed = NoPassword
    BY <1>1, <2>1
  <2>3. users.must /\ ~overlapped
    BY <1>1, <1>3, <2>1, <2>2 DEF IInv, Seen
  <2>4. NothingPrivate
    BY <2>2, <2>3 DEF IInv, Private
  <2> QED BY <1>1, <1>4, <2>4 DEF NothingPrivate, Becoming, PageStill
<1> QED BY <1>5, <1>6, <1>7, <1>8 DEF IInv

LEMMA FailKeeps ==
  ASSUME IInv, NEW r \in net, PageStill, Fail(r)  PROVE IInv'
<1>1. Typed /\ Answers(r, Failed) /\ UNCHANGED <<worker, changed, overlapped>>
  BY DEF Fail, IInv
<1>2. kills' \in Nat /\ kills' # 0 /\ kills' <= MaxKills
  BY <1>1, AuthAssumption DEF Fail, Typed
<1>3. Failed.status # 200
  BY DEF Failed, Error
<1>4. PICK q : Becoming(r, q) /\ q.pc = "answered" /\ q.answer = Failed
  BY <1>1, <1>3, Answering
<1>5. Typed'
  <2>1. NetTyped'
    BY <1>1, <1>4, BecomingTyped
  <2> QED BY <1>1, <1>2, <2>1 DEF Typed, NetTyped, PageStill, worker
<1>6. SettingUp'
  BY <1>1, <1>2, <1>4 DEF IInv, SettingUp, Becoming, worker
<1>7. Seen'
  BY <1>1, <1>4 DEF IInv, Seen, Becoming, worker
<1>8. Private'
  BY <1>1, <1>3, <1>4 DEF IInv, Private, NothingPrivate, Becoming, PageStill, worker
<1> QED BY <1>5, <1>6, <1>7, <1>8 DEF IInv

-----------------------------------------------------------------------------
\* The page: answered requests go, new ones are sent.

\* What a step of the page does, whichever it is.
Sending(gone, new) ==
  /\ net' = (net \ gone) \cup new /\ gone \subseteq net
  /\ \A r \in gone : r.pc = "answered"
  /\ sent' \in Nat /\ sent <= sent'
  /\ \A x \in new : IsRequest(x)' /\ x.pc = "sent" /\ x.n > sent
  /\ \A x, y \in new : x.n = y.n => x = y

Showing ==
  /\ page' \in Pages /\ page.asked <= page'.asked /\ page'.asked <= sent'
  /\ page'.shown.of <= page'.asked /\ page'.drag.shown.of <= page'.asked
  /\ "home" \in {page'.shown.kind, page'.drag.shown.kind} => ~NothingPrivate

LEMMA PageKeeps ==
  ASSUME IInv, NEW gone, NEW new, Sending(gone, new), Showing,
         UNCHANGED <<worker, ghosts>>, acts' \in Nat, acts' <= MaxActs
  PROVE  IInv'
<1>1. Typed /\ UNCHANGED <<users, inbox, setting, data, valid, kills, changed, overlapped>>
  BY DEF IInv, worker, ghosts
<1>2. NetTyped'
  <2>1. \A x \in net : IsRequest(x)' /\ x.n <= sent
    BY <1>1 DEF Typed, IsRequest, Pages, Sending, Showing
  <2>2. \A x \in net' : IsRequest(x)'
    BY <2>1 DEF Sending
  <2>3. \A x, y \in net' : x.n = y.n => x = y
    <3>1. \A x \in net, y \in new : x.n # y.n
      BY <1>1, <2>1 DEF Sending, IsRequest, Typed
    <3>2. \A x, y \in net : x.n = y.n => x = y
      BY <1>1 DEF Typed
    <3>3. net' \subseteq net \cup new /\ \A x, y \in new : x.n = y.n => x = y
      BY DEF Sending
    <3> QED BY <3>1, <3>2, <3>3
  <2> QED BY <2>2, <2>3 DEF NetTyped
<1>3. Typed'
  BY <1>1, <1>2 DEF Typed, NetTyped, Sending, Showing
<1>4. SettingUp'
  BY <1>1 DEF IInv, SettingUp, Sending
<1>5. Seen'
  BY <1>1 DEF IInv, Seen, Sending
<1>6. Private'
  <2>1. NothingPrivate => NothingPrivate'
    BY DEF NothingPrivate, Sending, Showing
  <2> QED BY <1>1, <2>1 DEF IInv, Private
<1> QED BY <1>3, <1>4, <1>5, <1>6 DEF IInv

LEMMA RequestTyped ==
  ASSUME Typed, NEW n, NEW route \in Routes, NEW token \in Tokens \cup {NoToken},
         NEW body \in [pw : Pws, new : Pws], sent' \in Nat, n \in 1..sent',
         route \in {"public", "home"} => n <= page'.asked
  PROVE  LET x == Request(n, route, token, body)
         IN IsRequest(x)' /\ x.pc = "sent" /\ x.n = n
<1>1. NoUser \in Rows /\ "sent" \in Phases
  BY DEF NoUser, Rows, Pws, Phases
<1> QED BY <1>1 DEF Request, IsRequest, Fields

LEMMA BodyTyped == NoBody \in [pw : Pws, new : Pws]
BY DEF NoBody, Pws

\* The reloads of the effects, and the one of a handler that goes on.
LEMMA Reloading ==
  ASSUME Typed, NEW p \in Pages, p.asked = page.asked,
         NEW gone \in SUBSET net, \A r \in gone : r.pc = "answered",
         NEW more \in {{}, {"home"}}, Becomes(p, gone, more),
         p.shown.of <= p.asked, p.drag.shown.of <= p.asked,
         "home" \in {p.shown.kind, p.drag.shown.kind} => ~NothingPrivate
  PROVE  (\E new : Sending(gone, new)) /\ Showing
<1> DEFINE k == Reloads(page, p)
           all == k + Cardinality(more)
           Route(i) == IF i <= k THEN RouteOf(p) ELSE CHOOSE route \in more : TRUE
           new == {Request(sent + i, Route(i), p.token, NoBody) : i \in 1..all}
<1>1. all \in Nat /\ k \in Nat /\ \A i \in 1..all : Route(i) \in {"public", "home"}
  <2>1. k \in Nat
    BY DEF Reloads
  <2>2. CASE more = {}
    <3>1. Cardinality(more) = 0
      BY <2>2, FS_EmptySet
    <3> QED BY <2>1, <3>1 DEF RouteOf
  <2>3. CASE more = {"home"}
    <3>1. Cardinality(more) = 1
      BY <2>3, FS_Singleton
    <3>2. (CHOOSE route \in more : TRUE) = "home"
      BY <2>3
    <3> QED BY <2>1, <3>1, <3>2 DEF RouteOf
  <2> QED BY <2>2, <2>3
<1>2. /\ net' = (net \ gone) \cup new
      /\ sent' = sent + all
      /\ page' = IF all = 0 THEN p ELSE [p EXCEPT !.asked = sent + all]
  BY DEF Becomes
<1> HIDE DEF all, k, Route
<1>3. /\ sent \in Nat /\ sent' \in Nat /\ sent <= sent' /\ page.asked <= sent /\ page.asked \in Nat
      /\ p.token \in Tokens \cup {NoToken}
  BY <1>1, <1>2 DEF Typed, Pages
<1>4. /\ page' \in Pages /\ page'.shown = p.shown /\ page'.drag = p.drag
      /\ page'.asked = IF all = 0 THEN page.asked ELSE sent'
  BY <1>1, <1>2, <1>3 DEF Pages
<1>5. Showing
  <2>1. page.asked <= page'.asked /\ page'.asked <= sent' /\ page'.asked \in Nat
    BY <1>1, <1>2, <1>3, <1>4
  <2>2. p.shown.of \in Nat /\ p.drag.shown.of \in Nat
    BY DEF Pages, Pictures
  <2> QED BY <1>3, <1>4, <2>1, <2>2 DEF Showing
<1>6. \A x \in new :
        /\ IsRequest(x)' /\ x.pc = "sent"
        /\ \E i \in 1..all : x.n = sent + i /\ x = Request(sent + i, Route(i), p.token, NoBody)
  <2> TAKE x \in new
  <2>1. PICK i \in 1..all : x = Request(sent + i, Route(i), p.token, NoBody)
    OBVIOUS
  <2>2. PICK n, route, token : n = sent + i /\ route = Route(i) /\ token = p.token
    OBVIOUS
  <2>3. /\ n \in 1..sent' /\ route \in {"public", "home"} /\ n <= page'.asked
        /\ token \in Tokens \cup {NoToken} /\ x = Request(n, route, token, NoBody)
    BY <1>1, <1>2, <1>3, <1>4, <2>1, <2>2
  <2>4. route \in Routes
    BY <2>3 DEF Routes
  <2>5. IsRequest(x)' /\ x.pc = "sent" /\ x.n = n
    BY <1>3, <2>3, <2>4, RequestTyped, BodyTyped
  <2> QED BY <2>1, <2>2, <2>5
<1>7. Sending(gone, new)
  <2>1. \A x \in new : IsRequest(x)' /\ x.pc = "sent" /\ x.n > sent
    BY <1>1, <1>3, <1>6
  <2>2. \A x, y \in new : x.n = y.n => x = y
    <3> TAKE x, y \in new
    <3> HAVE x.n = y.n
    <3>1. PICK i \in 1..all : x.n = sent + i /\ x = Request(sent + i, Route(i), p.token, NoBody)
      BY <1>6
    <3>2. PICK j \in 1..all : y.n = sent + j /\ y = Request(sent + j, Route(j), p.token, NoBody)
      BY <1>6
    <3>3. \A a, b \in 1..all : sent + a = sent + b => a = b
      BY <1>1, <1>3
    <3>4. i = j
      BY <3>1, <3>2, <3>3
    <3> QED BY <3>1, <3>2, <3>4
  <2> QED BY <1>2, <1>3, <2>1, <2>2 DEF Sending
<1> QED BY <1>5, <1>7

\* What may replace the page: the same questions asked, nothing private that was not there.
Follows(p) ==
  /\ p \in Pages /\ p.asked = page.asked
  /\ p.shown.of <= p.asked /\ p.drag.shown.of <= p.asked
  /\ "home" \in {p.shown.kind, p.drag.shown.kind} => ~NothingPrivate

LEMMA PageFollows == ASSUME Typed  PROVE Follows(page)
BY DEF Typed, Follows, NothingPrivate

LEMMA MustFollows ==
  ASSUME Typed, NEW token \in Tokens \cup {NoToken}, NEW must \in Musts
  PROVE  /\ Follows([page EXCEPT !.must = must])
         /\ Follows([page EXCEPT !.token = token, !.must = must])
BY DEF Typed, Follows, NothingPrivate, Pages

LEMMA LogoutFollows ==
  ASSUME Typed  PROVE Follows(LoggedOut(page)) /\ \A r : Follows(After401(r))
<1>1. NoToken \in Tokens \cup {NoToken} /\ "unknown" \in Musts
  BY DEF Musts
<1>2. Follows(LoggedOut(page))
  BY <1>1, MustFollows DEF LoggedOut
<1> QED BY <1>2, PageFollows DEF After401

LEMMA AnswerTaken ==
  ASSUME IInv, NEW r \in net, r.pc = "answered", NEW p, Follows(p), NEW more \in {{}, {"home"}},
         Becomes(p, {r}, more), UNCHANGED <<worker, ghosts, acts>>
  PROVE  IInv'
<1>1. Typed
  BY DEF IInv
<1>2. acts' \in Nat /\ acts' <= MaxActs
  BY <1>1 DEF Typed
<1>3. (\E new : Sending({r}, new)) /\ Showing
  BY <1>1, Reloading DEF Follows
<1>4. PICK new : Sending({r}, new)
  BY <1>3
<1> QED BY <1>2, <1>3, <1>4, PageKeeps

LEMMA MustOf == \A b : Must(b) \in Musts
BY DEF Must, Musts

LEMMA TakeKeeps == ASSUME IInv, Take  PROVE IInv'
<1>1. Typed
  BY DEF IInv
<1>2. CASE TakeLibrary
  <2>1. PICK r \in net :
          /\ r.pc = "answered" /\ r.route \in {"public", "home"}
          /\ Becomes(IF r.answer.status = 200
                     THEN [page EXCEPT !.shown = Picture(r.route, r.answer.value, r.n)] ELSE After401(r),
                     {r}, {})
    BY <1>2 DEF TakeLibrary, Answered
  <2>2. CASE r.answer.status = 200
    <3> DEFINE pic == Picture(r.route, r.answer.value, r.n)
               p == [page EXCEPT !.shown = pic]
    <3>1. r.answer.value \in Nat /\ r.n \in Nat /\ r.n <= page.asked
      BY <1>1, <2>1, <2>2 DEF Typed, IsRequest
    <3>2. pic \in Pictures /\ pic.of = r.n /\ pic.kind = r.route
      BY <2>1, <3>1 DEF Picture, Pictures
    <3> HIDE DEF pic
    <3>3. Follows(p)
      BY <1>1, <2>1, <2>2, <3>1, <3>2 DEF Typed, Follows, NothingPrivate, Pages
    <3> QED BY <1>2, <2>1, <2>2, <3>3, AnswerTaken DEF TakeLibrary, pic
  <2>3. CASE r.answer.status # 200
    BY <1>1, <1>2, <2>1, <2>3, LogoutFollows, AnswerTaken DEF TakeLibrary
  <2> QED BY <2>2, <2>3
<1>3. CASE TakeMe
  <2>1. PICK r \in net :
          /\ r.pc = "answered"
          /\ Becomes(IF r.answer.status = 200 THEN [page EXCEPT !.must = Must(r.answer.value)]
                     ELSE LoggedOut(page), {r}, {})
    BY <1>3 DEF TakeMe, Answered
  <2>2. Follows([page EXCEPT !.must = Must(r.answer.value)])
    BY <1>1, MustOf, MustFollows
  <2> QED BY <1>1, <1>3, <2>1, <2>2, LogoutFollows, AnswerTaken DEF TakeMe
<1>4. CASE TakeLogin
  <2>1. PICK r \in net :
          /\ r.pc = "answered"
          /\ Becomes(IF r.answer.status = 200
                     THEN [page EXCEPT !.token = "issued", !.must = Must(r.answer.value)]
                     ELSE After401(r), {r}, {})
    BY <1>4 DEF TakeLogin, Answered
  <2>2. "issued" \in Tokens \cup {NoToken}
    BY DEF Tokens
  <2>3. Follows([page EXCEPT !.token = "issued", !.must = Must(r.answer.value)])
    BY <1>1, <2>2, MustOf, MustFollows
  <2> QED BY <1>1, <1>4, <2>1, <2>3, LogoutFollows, AnswerTaken DEF TakeLogin
<1>5. CASE TakeCredentials
  <2>1. PICK r \in net :
          /\ r.pc = "answered"
          /\ Becomes(IF r.answer.status = 200 THEN [page EXCEPT !.must = Must(r.answer.value)]
                     ELSE After401(r), {r}, {})
    BY <1>5 DEF TakeCredentials, Answered
  <2>2. Follows([page EXCEPT !.must = Must(r.answer.value)])
    BY <1>1, MustOf, MustFollows
  <2> QED BY <1>1, <1>5, <2>1, <2>2, LogoutFollows, AnswerTaken DEF TakeCredentials
<1>6. CASE TakeEdit
  <2>1. PICK r \in net : r.pc = "answered" /\ Becomes(After401(r), {r}, {"home"})
    BY <1>6 DEF TakeEdit, Answered, ReloadAfter
  <2> QED BY <1>1, <1>6, <2>1, LogoutFollows, AnswerTaken DEF TakeEdit
<1> QED BY <1>2, <1>3, <1>4, <1>5, <1>6 DEF Take

\* The visitor's requests: one more, and the page as it is but for the drag.
LEMMA SendKeeps ==
  ASSUME IInv, NEW route \in Routes \ {"public", "home"}, NEW body \in [pw : Pws, new : Pws],
         Sends(route, body), Showing,
         UNCHANGED <<worker, ghosts>>, acts' \in Nat, acts' <= MaxActs
  PROVE  IInv'
<1>1. Typed /\ sent \in Nat /\ page.token \in Tokens \cup {NoToken}
  BY DEF IInv, Typed, Pages
<1>2. PICK n, token : n = sent + 1 /\ token = page.token
  OBVIOUS
<1> DEFINE x == Request(n, route, token, body)
<1>3. net' = net \cup {x} /\ sent' = n
  BY <1>2 DEF Sends
<1>4. IsRequest(x)' /\ x.pc = "sent" /\ x.n = n
  <2>1. sent' \in Nat /\ n \in 1..sent' /\ token \in Tokens \cup {NoToken}
    BY <1>1, <1>2, <1>3
  <2> HIDE <1>2, <1>3
  <2> QED BY <1>1, <2>1, RequestTyped
<1>5. Sending({}, {x})
  BY <1>1, <1>2, <1>3, <1>4 DEF Sending
<1> QED BY <1>5, PageKeeps

LEMMA StillShowing ==
  ASSUME Typed, sent' \in Nat, sent <= sent', Follows(page')  PROVE Showing
BY DEF Typed, Showing, Follows, Pages

LEMMA VisitKeeps == ASSUME IInv, Visit  PROVE IInv'
<1> USE ActsAssumption
<1>1. Typed /\ sent \in Nat /\ acts \in Nat /\ acts <= MaxActs
  BY DEF IInv, Typed
<1>2. Acts => acts' \in Nat /\ acts' <= MaxActs
  BY <1>1 DEF Acts
<1>3. \A route, body : Sends(route, body) => sent' \in Nat /\ sent <= sent'
  BY <1>1 DEF Sends
<1>4. {"login", "credentials", "edit"} \subseteq Routes \ {"public", "home"}
  BY DEF Routes
<1>5. CASE SubmitLogin
  <2>1. PICK pw \in Passwords : Sends("login", [pw |-> pw, new |-> NoPassword])
    BY <1>5 DEF SubmitLogin
  <2>2. [pw |-> pw, new |-> NoPassword] \in [pw : Pws, new : Pws]
    BY DEF Pws
  <2>3. Showing
    BY <1>1, <1>3, <1>5, <2>1, PageFollows, StillShowing DEF SubmitLogin
  <2> QED BY <1>2, <1>4, <1>5, <2>1, <2>2, <2>3, SendKeeps DEF SubmitLogin
<1>6. CASE Logout
  <2>1. (\E new : Sending({}, new)) /\ Showing
    BY <1>1, <1>6, LogoutFollows, Reloading DEF Logout, Follows
  <2>2. PICK new : Sending({}, new)
    BY <2>1
  <2> QED BY <1>2, <1>6, <2>1, <2>2, PageKeeps DEF Logout
<1>7. CASE SubmitCredentials
  <2>1. PICK pw \in Passwords, new \in Passwords \cup {NoPassword} :
          Sends("credentials", [pw |-> pw, new |-> new])
    BY <1>7 DEF SubmitCredentials
  <2>2. [pw |-> pw, new |-> new] \in [pw : Pws, new : Pws]
    BY DEF Pws
  <2>3. Showing
    BY <1>1, <1>3, <1>7, <2>1, PageFollows, StillShowing DEF SubmitCredentials
  <2> QED BY <1>2, <1>4, <1>7, <2>1, <2>2, <2>3, SendKeeps DEF SubmitCredentials
<1>8. CASE ToggleArchived
  <2>1. Showing
    BY <1>1, <1>3, <1>8, PageFollows, StillShowing DEF ToggleArchived
  <2> QED BY <1>2, <1>4, <1>8, <2>1, BodyTyped, SendKeeps DEF ToggleArchived
<1>9. CASE Drag
  <2>1. page' \in Pages /\ page'.asked = page.asked /\ page'.drag.shown = page.shown
    BY <1>1, <1>9 DEF Drag, Typed, Pages, Pictures
  <2>2. page'.shown.of = page.shown.of /\ page'.shown.kind = page.shown.kind
    BY <1>1, <1>9 DEF Drag, Typed, Pages, Pictures
  <2>3. Follows(page')
    BY <1>1, <2>1, <2>2 DEF Follows, Typed, NothingPrivate
  <2>4. Showing
    BY <1>1, <1>9, <2>3, StillShowing DEF Drag
  <2>5. Sending({}, {})
    BY <1>1, <1>9 DEF Drag, Sending
  <2> QED BY <1>2, <1>9, <2>4, <2>5, PageKeeps DEF Drag
<1>10. CASE Drop
  <2>1. page' \in Pages /\ page'.asked = page.asked /\ page'.drag.shown = Nothing /\ page'.shown = page.shown
    BY <1>1, <1>10 DEF Drop, Typed, Pages, Pictures, NoDrag, Nothing
  <2>2. Follows(page')
    BY <1>1, <2>1 DEF Follows, Typed, NothingPrivate, Nothing, Pages
  <2>3. Showing
    BY <1>1, <1>3, <1>10, <2>2, StillShowing DEF Drop
  <2> QED BY <1>1, <1>4, <1>10, <2>1, <2>3, BodyTyped, SendKeeps DEF Drop
<1>11. CASE EndDrag
  <2>1. page' \in Pages /\ page'.asked = page.asked /\ page'.drag.shown = Nothing /\ page'.shown = page.drag.shown
    BY <1>1, <1>11 DEF EndDrag, Typed, Pages, Pictures, NoDrag, Nothing
  <2>2. Follows(page')
    BY <1>1, <2>1 DEF Follows, Typed, NothingPrivate, Nothing, Pages
  <2>3. Showing
    BY <1>1, <1>11, <2>2, StillShowing DEF EndDrag
  <2>4. Sending({}, {})
    BY <1>1, <1>11 DEF EndDrag, Sending
  <2> QED BY <1>1, <1>11, <2>3, <2>4, PageKeeps DEF EndDrag
<1> QED BY <1>5, <1>6, <1>7, <1>8, <1>9, <1>10, <1>11 DEF Visit

-----------------------------------------------------------------------------
\* The theorems

LEMMA StepKeeps == IInv /\ [Next]_vars => IInv'
<1> SUFFICES ASSUME IInv, [Next]_vars PROVE IInv'
  OBVIOUS
<1>1. CASE Work
  <2>1. PICK r \in net : Step(r) /\ PageStill
    BY <1>1 DEF Work, PageStill
  <2> QED BY <2>1, ReadsKeep, InsertAdminKeeps, InsertInboxKeeps, ReadCredentialsKeeps,
             UpdateCredentialsKeeps DEF Step
<1>2. CASE Faults
  BY <1>2, FailKeeps DEF Faults, PageStill
<1>3. CASE UNCHANGED vars
  <2>1. Typed' /\ SettingUp' /\ Seen'
    BY <1>3 DEF vars, worker, ghosts, IInv, Typed, SettingUp, Seen, IsRequest
  <2>2. Private'
    BY <1>3 DEF vars, worker, ghosts, IInv, Private, NothingPrivate
  <2> QED BY <2>1, <2>2 DEF IInv
<1> QED BY <1>1, <1>2, <1>3, TakeKeeps, VisitKeeps DEF Next

LEMMA Invariant == Spec => []IInv
BY InitHolds, StepKeeps, PTL DEF Spec

\* Every variable has its type, an answer included: what a page shows was asked before.
THEOREM TypeCorrect == Spec => []TypeOK
<1>1. IInv => TypeOK
  <2> SUFFICES ASSUME Typed PROVE TypeOK
    BY DEF IInv
  <2>1. users.there \in BOOLEAN /\ users.must \in BOOLEAN /\ users.pw \in Pws
    BY DEF Typed, Rows
  <2>2. \A r \in net : /\ r.route \in Routes /\ r.token \in Tokens \cup {NoToken} /\ r.n \in 1..sent
                       /\ r.pc \in Phases
    BY DEF Typed, IsRequest
  <2>3. /\ page.token \in Tokens \cup {NoToken} /\ page.must \in Musts
        /\ page.shown \in Pictures /\ page.drag.shown \in Pictures
    BY DEF Typed, Pages
  <2> QED BY <2>1, <2>2, <2>3 DEF Typed, TypeOK, Pws, Phases
<1> QED BY <1>1, Invariant, PTL

\* The setting names an Inbox that is there, and the database is whole once nothing sets it
\* up and nothing was killed, however many requests meet a fresh database.
THEOREM BootstrapIsWhole == Spec => []BootstrapWhole
<1>1. IInv => BootstrapWhole
  BY DEF IInv, SettingUp, BootstrapWhole, Bootstrapping
<1> QED BY <1>1, Invariant, PTL

\* The row of the administrator changes when it is made, and by an UPDATE of credentials.
LEMMA EndOfForce ==
  ASSUME IInv, [Next]_vars, users.must, ~users'.must
  PROVE  \E r \in net : /\ r.pc = "update"
                        /\ \/ r.body.new # NoPassword /\ users'.pw = r.body.new
                           \/ ~r.seen.must /\ users'.pw = r.seen.pw
<1>1. users' # users
  OBVIOUS
<1>2. PICK r \in net : Step(r)
  <2>1. Take => users' = users
    BY DEF Take, TakeLibrary, TakeMe, TakeLogin, TakeCredentials, TakeEdit, worker
  <2>2. Visit => users' = users
    BY DEF Visit, SubmitLogin, Logout, SubmitCredentials, ToggleArchived, Drag, Drop, EndDrag, worker
  <2>3. Faults => users' = users
    BY DEF Faults, Fail, worker
  <2>4. vars' = vars => users' = users
    BY DEF vars, worker
  <2> QED BY <1>1, <2>1, <2>2, <2>3, <2>4 DEF Next, Work
<1>3. InsertAdmin(r) \/ UpdateCredentials(r)
  BY <1>1, <1>2 DEF Step, FindNoAdmin, InsertInbox, InsertSetting, Refuse, ReadLibrary, Edit, Me,
                    Login, ReadCredentials, worker
<1>4. ~InsertAdmin(r)
  <2> SUFFICES ASSUME InsertAdmin(r) PROVE FALSE
    OBVIOUS
  <2>1. users' = Row(TRUE, FirstPassword)
    BY <1>1 DEF InsertAdmin
  <2> QED BY <2>1 DEF Row
<1>5. r.pc = "update" /\ users' = Renewed(r) /\ IsRequest(r)
  BY <1>3, <1>4 DEF UpdateCredentials, IInv, Typed
<1>6. /\ r.body.new = NoPassword => users'.must = r.seen.must /\ users'.pw = r.seen.pw
      /\ r.body.new # NoPassword => users'.pw = r.body.new
  BY <1>5 DEF Renewed, Row
<1> QED BY <1>5, <1>6

\* A password that was set is the one that logs in and the forced change is over, unless two
\* changes of credentials overlap; and it is over only by one that sets a password, or that
\* overlapped such a one.
THEOREM ChangesStick == Spec => ChangeSticks
<1>1. IInv => Sticks
  BY DEF IInv, Seen, Sticks
<1>2. IInv /\ [Next]_vars =>
        [(users.must /\ ~users'.must) =>
           \E r \in net : /\ r.pc = "update"
                          /\ \/ r.body.new # NoPassword /\ users'.pw = r.body.new
                             \/ ~r.seen.must /\ users'.pw = r.seen.pw]_users
  BY EndOfForce
<1> QED BY <1>1, <1>2, Invariant, PTL DEF Spec, ChangeSticks, ForceEnds

\* The page has no private data before the first change, in whatever order the answers came.
THEOREM PrivateUntilChange == Spec => []DataAfterChange
<1>1. IInv => DataAfterChange
  <2> SUFFICES ASSUME IInv, page.shown.kind = "home", users.must, ~overlapped, changed = NoPassword
               PROVE  FALSE
    BY DEF DataAfterChange
  <2> QED BY DEF IInv, Private, NothingPrivate
<1> QED BY <1>1, Invariant, PTL

-----------------------------------------------------------------------------
\* The newest reload: what is true of its request, of its answer and of what is shown of it

EditSent == \E r \in net : r.route = "edit"

\* The reload after an edit whose answer found the page logged out: it gets no data.
Void(r) == r.route = "home" /\ r.token = NoToken /\ ~(r.pc = "answered" /\ r.answer.status = 200)

\* After an edit the page will ask again.
AnswerTrue(r) ==
  r.n = page.asked =>
    /\ r.route = RouteOf(page) \/ Void(r)
    /\ r.pc = "answered" /\ r.answer.status = 200 => EditSent \/ r.answer.value = data
ShownTrue(picture) ==
  picture.of = page.asked => picture.kind = RouteOf(page) /\ (EditSent \/ picture.value = data)
Newest ==
  /\ \A r \in net : AnswerTrue(r)
  /\ ShownTrue(page.shown)
  /\ page.shown.of = page.asked /\ page.shown.preview => page.drag.on \/ EditSent
  /\ page.drag.on => /\ ShownTrue(page.drag.shown)
                     /\ page.drag.shown.of = page.asked /\ page.drag.shown.preview => EditSent

LEMMA NewestInit == Init => Newest
<1> SUFFICES ASSUME Init PROVE Newest
  OBVIOUS
<1>1. PICK token \in {"stored", NoToken} :
        /\ page = Mounted(token)
        /\ IF token = NoToken
           THEN net = {Request(1, "public", token, NoBody)}
           ELSE net = {Request(1, "home", token, NoBody), Request(2, "me", token, NoBody)}
  BY DEF Init
<1>2. page.token = token /\ page.asked = 1 /\ page.shown.of = 0 /\ ~page.drag.on
  BY <1>1 DEF Mounted, Nothing, NoDrag
<1>3. \A r \in net : r.pc = "sent" /\ (r.n = 1 => r.route = RouteOf(page))
  BY <1>1, <1>2 DEF Request, RouteOf
<1> QED BY <1>2, <1>3 DEF Newest, AnswerTrue, ShownTrue

\* The Worker works on a request: q takes the place of r.
LEMMA WorkedOn ==
  ASSUME IInv, Newest, NEW r \in net, NEW q, Becoming(r, q), PageStill,
         data' = data \/ r.route = "edit",
         r.route \in {"public", "home"} /\ q.pc = "answered" /\ q.answer.status = 200 =>
           q.answer.value = data /\ (r.route = "home" => r.token # NoToken)
  PROVE  Newest'
<1>1. net' = (net \ {r}) \cup {q} /\ q.n = r.n /\ q.route = r.route /\ q.token = r.token /\ page' = page
  BY DEF Becoming, PageStill
<1>2. EditSent' <=> EditSent
  BY <1>1 DEF EditSent
<1>3. data' # data => EditSent
  BY DEF EditSent
<1>4. \A x \in net \ {r} : AnswerTrue(x)'
  BY <1>1, <1>2, <1>3 DEF Newest, AnswerTrue, Void, RouteOf
<1>5. AnswerTrue(q)'
  <2> SUFFICES ASSUME q.n = page.asked
               PROVE  /\ q.route = RouteOf(page) \/ Void(q)
                      /\ q.pc = "answered" /\ q.answer.status = 200 => EditSent' \/ q.answer.value = data'
    BY <1>1 DEF AnswerTrue, RouteOf, Void
  <2>1. r.route = RouteOf(page) \/ Void(r)
    BY <1>1 DEF Newest, AnswerTrue
  <2>2. r.route \in {"public", "home"}
    BY <2>1 DEF RouteOf, Void
  <2>3. q.route = RouteOf(page) \/ Void(q)
    BY <1>1, <2>1, <2>2 DEF Void
  <2> QED BY <1>2, <1>3, <2>2, <2>3
<1>6. \A x : ShownTrue(x) => ShownTrue(x)'
  BY <1>1, <1>2, <1>3 DEF ShownTrue, RouteOf
<1>7. \A x \in net' : AnswerTrue(x)'
  BY <1>1, <1>4, <1>5
<1> QED BY <1>1, <1>2, <1>6, <1>7 DEF Newest

LEMMA StepShows ==
  ASSUME IInv, Newest, NEW r \in net, PageStill, Step(r)  PROVE Newest'
<1>1. Typed /\ data \in Nat
  BY DEF IInv, Typed
<1>2. CASE FindNoAdmin(r)
  <2>1. "admin" \in Phases \ {"answered"}
    BY DEF Phases, Bootstrapping
  <2>2. PICK q : Becoming(r, q) /\ q.pc = "admin"
    BY <1>1, <1>2, <2>1, Advancing DEF FindNoAdmin
  <2> QED BY <1>2, <2>2, WorkedOn DEF FindNoAdmin, worker
<1>3. CASE Refuse(r)
  <2>1. Refusal(r).status # 200
    BY DEF Refusal, Forbidden, Unauthorized, Error
  <2>2. PICK q : Becoming(r, q) /\ q.pc = "answered" /\ q.answer = Refusal(r)
    BY <1>1, <1>3, <2>1, Answering DEF Refuse
  <2> QED BY <1>3, <2>1, <2>2, WorkedOn DEF Refuse, worker
<1>4. CASE ReadLibrary(r)
  <2>1. PICK q : Becoming(r, q) /\ q.pc = "answered" /\ q.answer = OK(data)
    BY <1>1, <1>4, Answering DEF ReadLibrary, OK
  <2>2. r.route = "home" => r.token # NoToken
    BY <1>1, <1>4 DEF ReadLibrary, Refused, Open, Known, Typed, Tokens, NoToken
  <2> QED BY <1>4, <2>1, <2>2, WorkedOn DEF ReadLibrary, worker, OK
<1>5. CASE Edit(r)
  <2>1. data' \in Nat /\ r.route = "edit"
    BY <1>1, <1>5 DEF Edit
  <2>2. PICK q : Becoming(r, q) /\ q.pc = "answered" /\ q.answer = OK(data')
    BY <1>1, <1>5, <2>1, Answering DEF Edit
  <2> QED BY <2>1, <2>2, WorkedOn
<1>6. CASE Me(r)
  <2>1. r.route = "me"
    BY <1>6 DEF Me
  <2>2. PICK q : Becoming(r, q) /\ q.pc = "answered" /\ q.answer = OK(users.must)
    BY <1>1, <1>6, <2>1, Answering DEF Me
  <2> QED BY <1>6, <2>1, <2>2, WorkedOn DEF Me, worker
<1>7. CASE Login(r)
  <2>1. r.route = "login"
    BY <1>7 DEF Login
  <2>2. PICK q : Becoming(r, q) /\ q.pc = "answered"
    BY <1>1, <1>7, <2>1, Answering DEF Login
  <2> QED BY <1>7, <2>1, <2>2, WorkedOn DEF Login, worker
<1>8. CASE InsertAdmin(r)
  <2>1. data' = data /\ r.pc = "admin"
    BY <1>8 DEF InsertAdmin
  <2>2. CASE users.there
    <3>1. Answers(r, Failed) /\ Failed.status # 200
      BY <1>8, <2>2 DEF InsertAdmin, Failed, Error
    <3>2. PICK q : Becoming(r, q) /\ q.pc = "answered" /\ q.answer = Failed
      BY <1>1, <3>1, Answering
    <3> QED BY <2>1, <3>1, <3>2, WorkedOn
  <2>3. CASE ~users.there
    <3>1. At(r, "inbox") /\ "inbox" \in Phases \ {"answered"}
      BY <1>8, <2>3 DEF InsertAdmin, NextOf, Phases, Bootstrapping
    <3>2. PICK q : Becoming(r, q) /\ q.pc = "inbox"
      BY <1>1, <3>1, Advancing
    <3> QED BY <2>1, <3>2, WorkedOn
  <2> QED BY <2>2, <2>3
<1>9. CASE InsertInbox(r) \/ InsertSetting(r)
  <2>1. data' = data /\ (At(r, "setting") \/ At(r, "sent"))
    BY <1>9 DEF InsertInbox, InsertSetting, NextOf
  <2>2. {"setting", "sent"} \subseteq Phases \ {"answered"}
    BY DEF Phases, Bootstrapping
  <2>3. PICK q : Becoming(r, q) /\ q.pc \in {"setting", "sent"}
    BY <1>1, <2>1, <2>2, Advancing
  <2> QED BY <2>1, <2>3, WorkedOn
<1>10. CASE UpdateCredentials(r)
  <2>1. data' = data /\ r.route = "credentials"
    BY <1>10 DEF UpdateCredentials, IInv, Seen
  <2>2. PICK q : Becoming(r, q) /\ q.pc = "answered"
    BY <1>1, <1>10, <2>1, Answering DEF UpdateCredentials
  <2> QED BY <2>1, <2>2, WorkedOn
<1>11. CASE ReadCredentials(r)
  <2>1. data' = data /\ r.route = "credentials"
    BY <1>11 DEF ReadCredentials, worker
  <2>2. PICK q : Becoming(r, q)
    BY <1>1, <1>11, CredentialsRead
  <2> QED BY <2>1, <2>2, WorkedOn
<1> QED BY <1>2, <1>3, <1>4, <1>5, <1>6, <1>7, <1>8, <1>9, <1>10, <1>11 DEF Step

LEMMA FailShows ==
  ASSUME IInv, Newest, NEW r \in net, PageStill, Fail(r)  PROVE Newest'
<1>1. Typed /\ Answers(r, Failed) /\ data' = data /\ Failed.status # 200
  BY DEF Fail, IInv, worker, Failed, Error
<1>2. PICK q : Becoming(r, q) /\ q.pc = "answered" /\ q.answer = Failed
  BY <1>1, Answering
<1> QED BY <1>1, <1>2, WorkedOn

\* What the page p shows, if it has asked nothing new.
Shows(p) ==
  /\ ShownTrue(p.shown)
  /\ p.shown.of = page.asked /\ p.shown.preview => p.drag.on \/ EditSent
  /\ p.drag.on => /\ ShownTrue(p.drag.shown)
                  /\ p.drag.shown.of = page.asked /\ p.drag.shown.preview => EditSent

\* An answer goes, and no edit with it unless the page asks again.
LEMMA NoReload ==
  ASSUME Newest, page'.token = page.token, page'.asked = page.asked, Shows(page'), UNCHANGED data,
         \A x \in net' : x \in net \/ x.n # page.asked,
         \A x \in net : x.route = "edit" => x \in net'
  PROVE  Newest'
<1>1. EditSent => EditSent'
  BY DEF EditSent
<1>2. \A x \in net' : AnswerTrue(x)'
  BY <1>1 DEF Newest, AnswerTrue, Void, RouteOf
<1>3. \A picture : ShownTrue(picture) =>
        (picture.of = page'.asked => picture.kind = RouteOf(page)' /\ (EditSent' \/ picture.value = data'))
  BY <1>1 DEF ShownTrue, RouteOf
<1>4. ShownTrue(page.shown)' /\ (page'.drag.on => ShownTrue(page.drag.shown)')
  BY <1>3 DEF Shows, ShownTrue
<1> QED BY <1>1, <1>2, <1>4 DEF Newest, Shows

LEMMA Reloaded ==
  ASSUME IInv, Newest, NEW p, Follows(p), NEW gone \in SUBSET net,
         NEW more \in {{}, {"home"}}, Becomes(p, gone, more), UNCHANGED data,
         p.token = page.token => Shows(p),
         more = {} => \A x \in gone : x.route # "edit"
  PROVE  Newest'
<1> DEFINE k == Reloads(page, p)
           all == k + Cardinality(more)
           Route(i) == IF i <= k THEN RouteOf(p) ELSE CHOOSE route \in more : TRUE
           new == {Request(sent + i, Route(i), p.token, NoBody) : i \in 1..all}
<1>1. /\ k \in Nat /\ all \in Nat
      /\ more = {} => all = k
      /\ more = {"home"} => all = k + 1 /\ Route(all) = "home"
  <2>1. k \in Nat
    BY DEF Reloads
  <2>2. CASE more = {}
    <3>1. Cardinality(more) = 0
      BY <2>2, FS_EmptySet
    <3> QED BY <2>1, <2>2, <3>1
  <2>3. CASE more = {"home"}
    <3>1. Cardinality(more) = 1
      BY <2>3, FS_Singleton
    <3>2. (CHOOSE route \in more : TRUE) = "home"
      BY <2>3
    <3> QED BY <2>1, <2>3, <3>1, <3>2
  <2> QED BY <2>2, <2>3
<1>2. /\ net' = (net \ gone) \cup new
      /\ page' = IF all = 0 THEN p ELSE [p EXCEPT !.asked = sent + all]
  BY DEF Becomes
<1>3. k = 0 => p.token = page.token
  BY DEF Reloads
<1>4. all > 0 /\ more = {} => Route(all) = RouteOf(p)
  BY <1>1
<1>5. new = {Request(sent + i, Route(i), p.token, NoBody) : i \in 1..all}
  OBVIOUS
<1> HIDE DEF new, all, k, Route
<1>6. Typed /\ sent \in Nat /\ p \in Pages /\ p.asked = page.asked /\ page.asked \in Nat /\ page.asked <= sent
  BY DEF IInv, Typed, Pages, Follows
<1>7. CASE all = 0
  <2>1. more = {} /\ k = 0
    BY <1>1, <1>7
  <2>2. new = {}
    BY <1>5, <1>7
  <2>3. page' = p /\ net' = net \ gone /\ p.token = page.token /\ Shows(page')
    BY <1>2, <1>3, <1>7, <2>1, <2>2
  <2>4. \A x \in net : x.route = "edit" => x \in net'
    BY <2>1, <2>3
  <2> QED BY <1>6, <2>3, <2>4, NoReload
<1>8. CASE all # 0
  <2>1. page'.asked = sent + all /\ page'.token = p.token /\ page'.shown = p.shown /\ page'.drag = p.drag
    BY <1>2, <1>6, <1>8 DEF Pages
  <2>2. page'.asked > sent /\ all > 0
    BY <1>1, <1>6, <1>8, <2>1
  <2>3. page'.shown.of # page'.asked /\ page'.drag.shown.of # page'.asked
    <3>1. p.shown.of \in Nat /\ p.drag.shown.of \in Nat /\ p.shown.of <= page.asked /\ p.drag.shown.of <= page.asked
      BY <1>6 DEF Pages, Pictures, Follows
    <3> QED BY <1>6, <2>1, <2>2, <3>1
  <2>4. \A x \in net : x.n # page'.asked
    <3>1. \A x \in net : x.n \in Int /\ x.n <= sent
      BY <1>6 DEF Typed, IsRequest
    <3> QED BY <1>6, <2>1, <2>2, <3>1
  <2>5. ASSUME NEW x \in new, x.n = page'.asked
        PROVE  x.pc = "sent" /\ (x.route = RouteOf(page') \/ (x.route = "home" /\ x.token = NoToken))
    <3>1. PICK i \in 1..all : x = Request(sent + i, Route(i), p.token, NoBody)
      BY <1>5
    <3>2. x.pc = "sent" /\ x.n = sent + i /\ x.route = Route(i) /\ x.token = p.token
      BY <3>1 DEF Request
    <3>3. i = all
      BY <1>1, <1>6, <2>1, <2>5, <3>2
    <3>4. Route(all) = RouteOf(p) \/ Route(all) = "home"
      BY <1>1, <1>4, <2>2
    <3> QED BY <2>1, <3>2, <3>3, <3>4 DEF RouteOf
  <2>6. \A x \in net' : AnswerTrue(x)'
    BY <1>2, <2>4, <2>5 DEF AnswerTrue, Void, RouteOf
  <2> QED BY <2>3, <2>6 DEF Newest, ShownTrue
<1> QED BY <1>7, <1>8

LEMMA PageShows == ASSUME Newest  PROVE Shows(page)
BY DEF Newest, Shows

\* What is shown stays as it is where only the token and must_change_password change.
LEMMA SameShown ==
  ASSUME Newest, NEW p, p.shown = page.shown, p.drag = page.drag  PROVE Shows(p)
BY DEF Newest, Shows

LEMMA PageSets ==
  ASSUME Typed
  PROVE  \A must, token : /\ [page EXCEPT !.must = must].shown = page.shown
                          /\ [page EXCEPT !.must = must].drag = page.drag
                          /\ [page EXCEPT !.token = token, !.must = must].shown = page.shown
                          /\ [page EXCEPT !.token = token, !.must = must].drag = page.drag
BY DEF Typed, Pages

LEMMA LogoutShows ==
  ASSUME Typed, Newest  PROVE Shows(LoggedOut(page)) /\ \A r : Shows(After401(r))
<1>1. LoggedOut(page).shown = page.shown /\ LoggedOut(page).drag = page.drag
  BY PageSets DEF LoggedOut
<1>2. Shows(LoggedOut(page))
  BY <1>1, SameShown
<1> QED BY <1>2, PageShows DEF After401

LEMMA TakeShows == ASSUME IInv, Newest, Take  PROVE Newest'
<1>1. Typed /\ UNCHANGED data
  BY DEF IInv, Take, TakeLibrary, TakeMe, TakeLogin, TakeCredentials, TakeEdit, worker
<1>2. CASE TakeLibrary
  <2>1. PICK r \in net :
          /\ r.pc = "answered" /\ r.route \in {"public", "home"}
          /\ Becomes(IF r.answer.status = 200
                     THEN [page EXCEPT !.shown = Picture(r.route, r.answer.value, r.n)] ELSE After401(r),
                     {r}, {})
    BY <1>2 DEF TakeLibrary, Answered
  <2>2. CASE r.answer.status = 200
    <3> DEFINE pic == Picture(r.route, r.answer.value, r.n)
               p == [page EXCEPT !.shown = pic]
    <3>1. r.answer.value \in Nat /\ r.n \in Nat /\ r.n <= page.asked
      BY <1>1, <2>1, <2>2 DEF Typed, IsRequest
    <3>2. pic \in Pictures /\ pic.of = r.n /\ pic.kind = r.route /\ pic.value = r.answer.value /\ pic.preview = FALSE
      BY <2>1, <3>1 DEF Picture, Pictures
    <3> HIDE DEF pic
    <3>3. p.shown = pic /\ p.drag = page.drag /\ Follows(p)
      BY <1>1, <2>1, <2>2, <3>1, <3>2, PageFollows DEF Typed, IInv, Private, Follows, NothingPrivate, Pages
    <3>4. ShownTrue(pic)
      <4>1. AnswerTrue(r)
        BY DEF Newest
      <4>2. r.n = page.asked => r.route = RouteOf(page) /\ (EditSent \/ r.answer.value = data)
        BY <2>1, <2>2, <4>1 DEF AnswerTrue, Void
      <4> QED BY <3>2, <4>2 DEF ShownTrue
    <3>5. Shows(p)
      BY <3>2, <3>3, <3>4, PageShows DEF Shows
    <3>6. Becomes(p, {r}, {})
      BY <2>1, <2>2 DEF pic
    <3> HIDE DEF p
    <3> QED BY <1>1, <2>1, <3>3, <3>5, <3>6, Reloaded
  <2>3. CASE r.answer.status # 200
    BY <1>1, <2>1, <2>3, LogoutFollows, LogoutShows, Reloaded
  <2> QED BY <2>2, <2>3
<1>3. CASE TakeMe \/ TakeCredentials
  <2>1. PICK r \in net :
          /\ r.pc = "answered" /\ r.route # "edit"
          /\ \/ Becomes([page EXCEPT !.must = Must(r.answer.value)], {r}, {})
             \/ Becomes(LoggedOut(page), {r}, {}) \/ Becomes(After401(r), {r}, {})
    BY <1>3 DEF TakeMe, TakeCredentials, Answered
  <2>2. PICK p : p = [page EXCEPT !.must = Must(r.answer.value)]
    OBVIOUS
  <2>3. Follows(p)
    BY <1>1, <2>2, MustOf, MustFollows
  <2>4. p.shown = page.shown /\ p.drag = page.drag
    BY <1>1, <2>2, PageSets
  <2>5. Shows(p)
    BY <2>4, SameShown
  <2>6. Becomes(p, {r}, {}) \/ Becomes(LoggedOut(page), {r}, {}) \/ Becomes(After401(r), {r}, {})
    BY <2>1, <2>2
  <2> QED BY <1>1, <2>1, <2>3, <2>5, <2>6, LogoutFollows, LogoutShows, Reloaded
<1>4. CASE TakeLogin
  <2>1. PICK r \in net :
          /\ r.pc = "answered" /\ r.route # "edit"
          /\ \/ Becomes([page EXCEPT !.token = "issued", !.must = Must(r.answer.value)], {r}, {})
             \/ Becomes(After401(r), {r}, {})
    BY <1>4 DEF TakeLogin, Answered
  <2>2. PICK p : p = [page EXCEPT !.token = "issued", !.must = Must(r.answer.value)]
    OBVIOUS
  <2>3. Follows(p)
    <3>1. "issued" \in Tokens \cup {NoToken}
      BY DEF Tokens
    <3> QED BY <1>1, <2>2, <3>1, MustOf, MustFollows
  <2>4. p.shown = page.shown /\ p.drag = page.drag
    BY <1>1, <2>2, PageSets
  <2>5. Shows(p)
    BY <2>4, SameShown
  <2>6. Becomes(p, {r}, {}) \/ Becomes(After401(r), {r}, {})
    BY <2>1, <2>2
  <2> QED BY <1>1, <2>1, <2>3, <2>5, <2>6, LogoutFollows, LogoutShows, Reloaded
<1>5. CASE TakeEdit
  <2>1. PICK r \in net : Becomes(After401(r), {r}, {"home"})
    BY <1>5 DEF TakeEdit, Answered, ReloadAfter
  <2> QED BY <1>1, <2>1, LogoutFollows, LogoutShows, Reloaded
<1> QED BY <1>2, <1>3, <1>4, <1>5 DEF Take

\* A request of the visitor is no reload; an edit makes the page ask again.
LEMMA VisitShows == ASSUME IInv, Newest, Visit  PROVE Newest'
<1>1. Typed /\ UNCHANGED data /\ sent \in Nat /\ page.asked \in Nat /\ page.asked <= sent
  BY DEF IInv, Typed, Pages, Visit, SubmitLogin, Logout, SubmitCredentials, ToggleArchived, Drag, Drop, EndDrag,
         worker
<1>2. \A route, body : Sends(route, body) => /\ \A x \in net' : x \in net \/ x.n # page.asked
                                             /\ \A x \in net : x \in net'
                                             /\ route = "edit" => EditSent'
  <2> TAKE route, body
  <2> HAVE Sends(route, body)
  <2>1. PICK x : x = Request(sent + 1, route, page.token, body)
    OBVIOUS
  <2>2. net' = net \cup {x} /\ x.n = sent + 1 /\ x.route = route
    BY <2>1 DEF Sends, Request
  <2>3. x.n # page.asked
    BY <1>1, <2>2
  <2> QED BY <2>2, <2>3 DEF EditSent
<1>3. CASE SubmitLogin \/ SubmitCredentials \/ ToggleArchived
  <2>1. page' = page /\ \E route, body : Sends(route, body)
    BY <1>3 DEF SubmitLogin, SubmitCredentials, ToggleArchived
  <2> QED BY <1>1, <1>2, <2>1, PageShows, NoReload
<1>4. CASE Logout
  <2>1. Becomes(LoggedOut(page), {}, {})
    BY <1>4 DEF Logout
  <2> QED BY <1>1, <2>1, LogoutFollows, LogoutShows, Reloaded
<1>5. CASE Drag
  <2>1. /\ page'.token = page.token /\ page'.asked = page.asked /\ page'.drag.on /\ page'.drag.shown = page.shown
        /\ page'.shown.of = page.shown.of /\ page'.shown.kind = page.shown.kind
        /\ page'.shown.value = page.shown.value /\ ~page.drag.on /\ net' = net
    BY <1>1, <1>5 DEF Drag, Typed, Pages, Pictures
  <2>2. Shows(page')
    BY <2>1 DEF Newest, Shows, ShownTrue
  <2> QED BY <1>1, <2>1, <2>2, NoReload
<1>6. CASE EndDrag
  <2>1. /\ page'.token = page.token /\ page'.asked = page.asked /\ ~page'.drag.on
        /\ page'.shown = page.drag.shown /\ page.drag.on /\ net' = net
    BY <1>1, <1>6 DEF EndDrag, Typed, Pages, Pictures, NoDrag
  <2>2. Shows(page')
    BY <2>1 DEF Newest, Shows
  <2> QED BY <1>1, <2>1, <2>2, NoReload
<1>7. CASE Drop
  <2>1. /\ page'.token = page.token /\ page'.asked = page.asked /\ ~page'.drag.on
        /\ page'.shown = page.shown /\ Sends("edit", NoBody)
    BY <1>1, <1>7 DEF Drop, Typed, Pages, Pictures, NoDrag
  <2>2. EditSent' /\ (\A x \in net' : x \in net \/ x.n # page.asked) /\ \A x \in net : x \in net'
    BY <1>2, <2>1
  <2>3. \A x \in net' : AnswerTrue(x)'
    BY <2>1, <2>2 DEF Newest, AnswerTrue, Void, RouteOf
  <2>4. ShownTrue(page.shown)'
    BY <2>1, <2>2 DEF Newest, ShownTrue, RouteOf
  <2> QED BY <2>1, <2>2, <2>3, <2>4 DEF Newest
<1> QED BY <1>3, <1>4, <1>5, <1>6, <1>7 DEF Visit

LEMMA NewestKeeps == IInv /\ Newest /\ [Next]_vars => Newest'
<1> SUFFICES ASSUME IInv, Newest, [Next]_vars PROVE Newest'
  OBVIOUS
<1>1. CASE Work
  <2>1. PICK r \in net : Step(r) /\ PageStill
    BY <1>1 DEF Work, PageStill
  <2> QED BY <2>1, StepShows
<1>2. CASE Faults
  <2>1. PICK r \in net : Fail(r) /\ PageStill
    BY <1>2 DEF Faults, PageStill
  <2> QED BY <2>1, FailShows
<1>3. CASE UNCHANGED vars
  <2>1. net' = net /\ page' = page /\ data' = data
    BY <1>3 DEF vars, worker
  <2> QED BY <2>1, PageShows, NoReload
<1> QED BY <1>1, <1>2, <1>3, TakeShows, VisitShows DEF Next

\* When nothing is on its way and the newest reload is the one that is shown, the page
\* shows what its token entitles to, with all that was written and no preview of a drag,
\* however many requests there were and in whatever order they were answered (reload,
\* doPatch and endDrag of PublicHome).
THEOREM PageIsTrue == Spec => []PageTrue
<1>1. Init => Newest
  BY NewestInit
<1>2. Spec => []Newest
  BY <1>1, Invariant, NewestKeeps, PTL DEF Spec
<1>3. TypeOK /\ Newest => PageTrue
  <2> SUFFICES ASSUME TypeOK, Newest, Settled
               PROVE  page.shown.kind = RouteOf(page) /\ page.shown.value = data /\ ~page.shown.preview
    BY DEF PageTrue
  <2>1. ~EditSent /\ ~page.drag.on /\ page.shown.of = page.asked
    BY DEF Settled, EditSent
  <2> QED BY <2>1 DEF Newest, ShownTrue
<1> QED BY <1>2, <1>3, TypeCorrect, PTL

-----------------------------------------------------------------------------
\* The change feed: what its rows say of the bookmarks

\* Each request that writes has one row of op_logs, and those at work have none yet.
AtWork == {w \in Writers : writer[w].pc # "idle"}
InBudget == Len(op) + Cardinality(AtWork) <= writes

\* A row of op_logs settles a column of a bookmark for a follower: it has the column as the
\* bookmark has it, or says that it may be another.
Settles(s, b, c, row, was) ==
  \/ c \in Says(s, b) /\ Word(s, b, c) = row[c]
  \/ s.entity = "bookmark" /\ s.id = b /\ s.merged /\ c \in {"in", "archived", "place"}
  \/ s.entity = "folder" /\ s.mode = "cascade_soft_delete" /\ c = "live"
  \/ s.entity = "folder" /\ s.mode \in {"move_to_parent", "move_to_inbox"} /\ c = "in" /\ was = s.id

\* A bookmark whose writes never overlapped: one request at a time is at it, the row that this
\* one is going to log is true of it, and a follower has each column, or will by that row.
OneAt(b) == \A v, w \in Writers : b \in writer[v].at /\ b \in writer[w].at => v = w
Held(b) ==
  \A w \in Writers : b \in writer[w].at =>
    IF writer[w].pc = "write" THEN writer[w].say.row.live = bookmark[b].live
    ELSE \A c \in Says(writer[w].say, b) : Word(writer[w].say, b, c) = bookmark[b][c]
Right(b, c) == c \in doubt[b] \/ copy[b][c] = bookmark[b][c]
Settling(w, b, c) ==
  /\ b \in writer[w].at /\ writer[w].pc # "write"
  /\ Settles(writer[w].say, b, c, bookmark[b], copy[b].in)
Covered(b) == \A c \in Columns : Right(b, c) \/ \E w \in Writers : Settling(w, b, c)
Tracked(b) == OneAt(b) /\ Held(b) /\ Covered(b)
Followed == \A b \in Bookmarks \ overlaid : Tracked(b)

\* What a request at work is about to do and to log: an UPDATE sets what the row says, a
\* reorder has placed those before the next, and a row says nothing of a bookmark that its
\* request has not changed.
Shaped(r) ==
  /\ r.pc = "write" =>
       /\ r.at \subseteq {r.say.id} /\ \A c \in r.say.cols \ r.set : c = "live" /\ r.at # {}
       /\ \A c \in r.set : IF c \in r.say.cols THEN Word(r.say, r.say.id, c) = r.row[c]
                          ELSE r.say.merged /\ c \in {"in", "archived", "place"}
  /\ r.pc = "place" => r.next \in 1..Len(r.say.order) /\ \A i \in 1..(r.next - 1) : r.say.order[i] \in r.at
  /\ r.pc = "move" => r.say.mode \in {"move_to_parent", "move_to_inbox"}
  /\ r.pc \in {"pop", "empty", "drop"} => r.say.mode = "cascade_soft_delete"
  /\ r.pc = "log" => \A b \in Bookmarks : b \in r.at \/ Says(r.say, b) = {}

\* An id that no bookmark has had: a follower knows no visibility of it, and no request is at it.
Spares(r, b) ==
  /\ b \notin r.at
  /\ r.pc = "write" => r.say.id # b
  /\ r.pc = "place" => \A i \in 1..Len(r.say.order) : r.say.order[i] # b
Newborn(b) == ~bookmark[b].live /\ "vis" \in doubt[b] /\ \A w \in Writers : Spares(writer[w], b)
Shapes == (\A w \in Writers : Shaped(writer[w])) /\ \A b \in fresh : Newborn(b)

FeedInv == FeedTypeOK /\ InBudget /\ FeedComplete /\ Shapes /\ Followed

Working == Writing \cup Placing \cup Deleting \cup Logging

LEMMA FeedStarts == FeedInit => FeedInv
<1> SUFFICES ASSUME FeedInit PROVE FeedInv
  OBVIOUS
<1>1. FeedTypeOK
  <2>1. folder \in [Folders -> FolderRow] /\ bookmark \in [Bookmarks -> BookmarkRow]
    BY FeedAssumption DEF FeedInit
  <2>2. op \in Seq(Snapshots) /\ Len(op) = 0 /\ writes = 0 /\ overlaid = {}
    BY DEF FeedInit
  <2>3. feed \in [cursor : 0..Len(op), got : SUBSET (1..Len(op))]
    BY <2>2 DEF FeedInit
  <2>4. writer \in [Writers -> {NoWriter} \cup Writing \cup Placing \cup Deleting \cup Logging]
    BY DEF FeedInit
  <2>5. fresh \subseteq Bookmarks /\ DOMAIN copy = Bookmarks /\ doubt \in [Bookmarks -> SUBSET Columns]
    BY <2>1 DEF FeedInit
  <2> QED BY <2>1, <2>2, <2>3, <2>4, <2>5, FeedAssumption DEF FeedTypeOK
<1>2. InBudget
  <2>1. AtWork = {}
    BY DEF AtWork, FeedInit, NoWriter
  <2> QED BY <2>1, FS_EmptySet DEF InBudget, FeedInit
<1>3. FeedComplete
  BY DEF FeedComplete, FeedInit
<1>4. \A w \in Writers : writer[w].pc = "idle" /\ writer[w].at = {}
  BY DEF FeedInit, NoWriter
<1>5. Shapes
  BY <1>4 DEF Shapes, Shaped, Newborn, Spares, FeedInit, Columns
<1>6. Followed
  BY <1>4 DEF Followed, Tracked, OneAt, Held, Covered, Right, FeedInit
<1> QED BY <1>1, <1>2, <1>3, <1>5, <1>6 DEF FeedInv

-----------------------------------------------------------------------------
\* Types

LEMMA WriterTyped ==
  ASSUME FeedTypeOK, NEW w \in Writers
  PROVE  /\ writer[w] \in {NoWriter} \cup Working /\ writer[w].at \subseteq Bookmarks
         /\ writer[w].pc = "idle" => writer[w].at = {}
         /\ writer[w].pc = "write" => writer[w] \in Writing
         /\ writer[w].pc = "place" => writer[w] \in Placing
         /\ writer[w].pc \in {"move", "lift", "pop", "empty", "drop", "top"} => writer[w] \in Deleting
         /\ writer[w].pc = "log" => writer[w] \in Logging
<1>1. writer[w] \in {NoWriter} \cup Writing \cup Placing \cup Deleting \cup Logging
  BY DEF FeedTypeOK
<1>2. PICK r : r = writer[w]
  OBVIOUS
<1>3. CASE r = NoWriter
  BY <1>2, <1>3 DEF NoWriter
<1>4. CASE r \in Writing
  BY <1>2, <1>4 DEF Writing, Working
<1>5. CASE r \in Placing
  BY <1>2, <1>5 DEF Placing, Working
<1>6. CASE r \in Deleting
  BY <1>2, <1>6 DEF Deleting, Working
<1>7. CASE r \in Logging
  BY <1>2, <1>7 DEF Logging, Working
<1> QED BY <1>1, <1>2, <1>3, <1>4, <1>5, <1>6, <1>7

LEMMA GoesTyped ==
  ASSUME FeedTypeOK, NEW w \in Writers, NEW r \in {NoWriter} \cup Working, Goes(w, r)
  PROVE  /\ writer' \in [Writers -> {NoWriter} \cup Writing \cup Placing \cup Deleting \cup Logging]
         /\ writer'[w] = r /\ \A v \in Writers \ {w} : writer'[v] = writer[v]
BY DEF Goes, FeedTypeOK, Working

LEMMA AtWorkFinite == IsFiniteSet(AtWork) /\ Cardinality(AtWork) \in Nat
<1>1. AtWork \subseteq Writers
  BY DEF AtWork
<1> QED BY <1>1, FeedAssumption, FS_Subset, FS_CardinalityType

LEMMA AtWorkMore ==
  ASSUME NEW w \in Writers, writer[w].pc = "idle", writer'[w].pc # "idle",
         \A v \in Writers \ {w} : writer'[v] = writer[v]
  PROVE  Cardinality(AtWork') = Cardinality(AtWork) + 1
<1>1. AtWork' = AtWork \cup {w} /\ w \notin AtWork
  BY DEF AtWork
<1> QED BY <1>1, AtWorkFinite, FS_AddElement

LEMMA AtWorkLess ==
  ASSUME NEW w \in Writers, writer[w].pc # "idle", writer'[w].pc = "idle",
         \A v \in Writers \ {w} : writer'[v] = writer[v]
  PROVE  Cardinality(AtWork') = Cardinality(AtWork) - 1
<1>1. AtWork' = AtWork \ {w} /\ w \in AtWork
  BY DEF AtWork
<1> QED BY <1>1, AtWorkFinite, FS_RemoveElement

LEMMA AtWorkStays ==
  ASSUME NEW w \in Writers, writer[w].pc # "idle", writer'[w].pc # "idle",
         \A v \in Writers \ {w} : writer'[v] = writer[v]
  PROVE  Cardinality(AtWork') = Cardinality(AtWork)
<1>1. AtWork' = AtWork
  BY DEF AtWork
<1> QED BY <1>1

-----------------------------------------------------------------------------
\* A request that begins or goes on

Turns(w, r) ==
  /\ Goes(w, r) /\ UNCHANGED <<op, feed, told>>
  /\ folder' \in [Folders -> FolderRow] /\ bookmark' \in [Bookmarks -> BookmarkRow]
  /\ fresh' \subseteq fresh /\ overlaid \subseteq overlaid' /\ overlaid' \subseteq Bookmarks
  /\ \A b \in fresh' : bookmark'[b] = bookmark[b] /\ Spares(r, b)
  /\ IF writer[w].pc = "idle" THEN writes < MaxWrites /\ writes' = writes + 1 ELSE writes' = writes

LEMMA StepTyped ==
  ASSUME FeedInv, NEW w \in Writers, NEW r \in Working, Shaped(r), Turns(w, r)
  PROVE  (FeedTypeOK /\ InBudget /\ FeedComplete /\ Shapes)'
<1>0. FeedTypeOK /\ InBudget /\ FeedComplete /\ Shapes
  BY DEF FeedInv
<1>1. /\ writer' \in [Writers -> {NoWriter} \cup Writing \cup Placing \cup Deleting \cup Logging]
      /\ writer'[w] = r /\ \A v \in Writers \ {w} : writer'[v] = writer[v]
  BY <1>0, GoesTyped DEF Turns
<1>2. r.pc # "idle"
  BY DEF Working, Writing, Placing, Deleting, Logging
<1>3. Len(op) \in Nat /\ writes \in 0..MaxWrites /\ MaxWrites \in Nat /\ Cardinality(AtWork) \in Nat /\ Len(op) <= writes
  BY <1>0, AtWorkFinite, FeedAssumption DEF FeedTypeOK
<1>4. writes' \in 0..MaxWrites /\ writes' >= writes /\ InBudget'
  <2>1. CASE writer[w].pc = "idle"
    <3>1. Cardinality(AtWork') = Cardinality(AtWork) + 1
      BY <1>1, <1>2, <2>1, AtWorkMore
    <3> QED BY <1>0, <1>3, <2>1, <3>1 DEF InBudget, Turns
  <2>2. CASE writer[w].pc # "idle"
    <3>1. Cardinality(AtWork') = Cardinality(AtWork)
      BY <1>1, <1>2, <2>2, AtWorkStays
    <3> QED BY <1>0, <1>3, <2>2, <3>1 DEF InBudget, Turns
  <2> QED BY <2>1, <2>2
<1>5. /\ folder' \in [Folders -> FolderRow] /\ bookmark' \in [Bookmarks -> BookmarkRow]
      /\ fresh' \subseteq fresh /\ overlaid' \subseteq Bookmarks /\ UNCHANGED <<op, feed, copy, doubt>>
  BY DEF Turns, told
<1>6. FeedTypeOK'
  BY <1>0, <1>1, <1>3, <1>4, <1>5 DEF FeedTypeOK
<1>7. FeedComplete'
  BY <1>0, <1>5 DEF FeedComplete
<1>8. \A v \in Writers : Shaped(writer'[v])
  BY <1>0, <1>1 DEF Shapes
<1>9. \A b \in fresh' : Newborn(b)'
  <2> SUFFICES ASSUME NEW b \in fresh' PROVE Newborn(b)'
    OBVIOUS
  <2>1. Newborn(b) /\ bookmark'[b] = bookmark[b] /\ Spares(r, b)
    BY <1>0 DEF Shapes, Turns
  <2> QED BY <1>1, <1>5, <2>1 DEF Newborn
<1>10. Shapes'
  BY <1>8, <1>9 DEF Shapes
<1> QED BY <1>4, <1>6, <1>7, <1>10

LEMMA Apart ==
  ASSUME NEW b \in Bookmarks, NEW w \in Writers, Tracked(b), b \notin writer[w].at, b \notin writer'[w].at,
         \A v \in Writers \ {w} : writer'[v] = writer[v], bookmark'[b] = bookmark[b],
         \A c \in Columns : copy'[b][c] = copy[b][c], doubt[b] \subseteq doubt'[b]
  PROVE  Tracked(b)'
<1>1. OneAt(b)'
  BY DEF Tracked, OneAt
<1>2. Held(b)'
  BY DEF Tracked, Held
<1>3. copy'[b].in = copy[b].in
  BY DEF Columns
<1>4. \A v \in Writers, c \in Columns : Settling(v, b, c) => Settling(v, b, c)'
  <2> SUFFICES ASSUME NEW v \in Writers, NEW c \in Columns, Settling(v, b, c) PROVE Settling(v, b, c)'
    OBVIOUS
  <2>1. v # w
    BY DEF Settling
  <2> QED BY <1>3, <2>1 DEF Settling
<1>5. \A c \in Columns : Right(b, c) => Right(b, c)'
  BY DEF Right
<1>6. Covered(b)'
  BY <1>4, <1>5 DEF Tracked, Covered
<1> QED BY <1>1, <1>2, <1>6 DEF Tracked

LEMMA Alone ==
  ASSUME NEW b \in Bookmarks, NEW w \in Writers, Tracked(b), NEW r, writer'[w] = r, b \in r.at, r.pc # "write",
         \A v \in Writers \ {w} : writer'[v] = writer[v] /\ b \notin writer[v].at,
         b \notin writer[w].at \/ writer[w].pc = "write" \/ r.say = writer[w].say,
         UNCHANGED <<copy, doubt>>,
         \A c \in Says(r.say, b) : Word(r.say, b, c) = bookmark'[b][c],
         \A c \in Columns : \/ bookmark'[b][c] = bookmark[b][c] \/ c \in doubt[b]
                           \/ Settles(r.say, b, c, bookmark'[b], copy[b].in)
  PROVE  Tracked(b)'
<1>1. OneAt(b)'
  BY DEF OneAt
<1>2. Held(b)'
  BY DEF Held
<1>3. Covered(b)'
  <2> SUFFICES ASSUME NEW c \in Columns PROVE Right(b, c)' \/ Settling(w, b, c)'
    BY DEF Covered
  <2>1. CASE Settles(r.say, b, c, bookmark'[b], copy[b].in)
    BY <2>1 DEF Settling
  <2>2. CASE bookmark'[b][c] = bookmark[b][c]
    <3>1. CASE Right(b, c)
      BY <2>2, <3>1 DEF Right
    <3>2. CASE ~Right(b, c)
      <4>1. Settling(w, b, c)
        BY <3>2 DEF Tracked, Covered, Settling
      <4>2. r.say = writer[w].say
        BY <4>1 DEF Settling
      <4> QED BY <2>2, <4>1, <4>2 DEF Settling, Settles
    <3> QED BY <3>1, <3>2
  <2>3. CASE c \in doubt[b]
    BY <2>3 DEF Right
  <2> QED BY <2>1, <2>2, <2>3
<1> QED BY <1>1, <1>2, <1>3 DEF Tracked

\* A step leaves those alone that the request is not at.
LEMMA StepFollowed ==
  ASSUME FeedInv, NEW w \in Writers, NEW r \in Working, Turns(w, r), writer[w].at \subseteq r.at,
         \A b \in Bookmarks \ r.at : bookmark'[b] = bookmark[b],
         \A b \in Bookmarks : b \in r.at /\ b \notin overlaid' => Tracked(b)'
  PROVE  Followed'
<1>1. writer'[w] = r /\ \A v \in Writers \ {w} : writer'[v] = writer[v]
  BY GoesTyped DEF FeedInv, Turns
<1> SUFFICES ASSUME NEW b \in Bookmarks \ overlaid' PROVE Tracked(b)'
  BY DEF Followed, Tracked
<1>2. Tracked(b) /\ copy' = copy /\ doubt' = doubt
  BY DEF FeedInv, Followed, Turns, told, Tracked
<1>3. CASE b \in r.at
  BY <1>3
<1>4. CASE b \notin r.at
  <2>1. b \notin writer[w].at /\ b \notin writer'[w].at /\ bookmark'[b] = bookmark[b]
    BY <1>1, <1>4
  <2> QED BY <1>1, <1>2, <2>1, Apart
<1> QED BY <1>3, <1>4

LEMMA Untouched ==
  ASSUME NEW w \in Writers, NEW bs, Touches(w, bs), NEW b \in bs, b \notin overlaid'
  PROVE  \A v \in Writers \ {w} : b \notin writer[v].at
BY DEF Touches

LEMMA TouchesTyped ==
  ASSUME FeedInv, NEW w \in Writers, NEW bs \in SUBSET Bookmarks, Touches(w, bs)
  PROVE  overlaid \subseteq overlaid' /\ overlaid' \subseteq Bookmarks
BY DEF Touches, FeedInv, FeedTypeOK

\* A step of a request that has changed no bookmark yet.
LEMMA NothingYet ==
  ASSUME FeedInv, NEW w \in Writers, NEW r \in Working, Shaped(r), Turns(w, r), r.at = {}, writer[w].at = {},
         bookmark' = bookmark
  PROVE  FeedInv'
BY StepTyped, StepFollowed DEF FeedInv

\* A step that leaves the bookmarks and the row to log as they are.
LEMMA GoesOnFollowed ==
  ASSUME FeedInv, NEW w \in Writers, NEW r \in Working, Shaped(r), Turns(w, r), r.at = writer[w].at, r.say = writer[w].say,
         r.pc # "write", writer[w].pc # "write", bookmark' = bookmark
  PROVE  FeedInv'
<1>0. \A b \in Bookmarks : b \in r.at /\ b \notin overlaid' => Tracked(b)'
  <2> SUFFICES ASSUME NEW b \in Bookmarks, b \in r.at, b \notin overlaid' PROVE Tracked(b)'
    OBVIOUS
  <2>1. Tracked(b)
    BY DEF FeedInv, Followed, Turns
  <2>2. writer'[w] = r /\ \A v \in Writers \ {w} : writer'[v] = writer[v]
    BY GoesTyped DEF FeedInv, Turns
  <2>3. \A v \in Writers \ {w} : b \notin writer[v].at
    BY <2>1 DEF Tracked, OneAt
  <2>4. \A c \in Says(r.say, b) : Word(r.say, b, c) = bookmark'[b][c]
    BY <2>1 DEF Tracked, Held
  <2>5. UNCHANGED <<copy, doubt>>
    BY DEF Turns, told
  <2>6. \A v \in Writers \ {w} : writer'[v] = writer[v] /\ b \notin writer[v].at
    BY <2>2, <2>3
  <2> QED BY <2>1, <2>2, <2>4, <2>5, <2>6, Alone
<1> QED BY <1>0, StepTyped, StepFollowed DEF FeedInv

-----------------------------------------------------------------------------
\* Rows of op_logs

LEMMA RowsOf ==
  ASSUME NEW r \in BookmarkRow
  PROVE  r \in LoggedRow /\ AsVisibility(r.vis) = r.vis
BY DEF BookmarkRow, LoggedRow, AsVisibility

LEMMA BookmarkSays ==
  ASSUME NEW s \in OfBookmark, NEW b
  PROVE  /\ Says(s, b) = IF s.id = b THEN s.cols ELSE {}
         /\ \A c \in Columns : Word(s, b, c) = IF c = "vis" THEN AsVisibility(s.row.vis) ELSE s.row[c]
<1>1. s.entity = "bookmark" /\ s.cols \subseteq Columns
  BY DEF OfBookmark
<1>2. Says(s, b) = IF s.id = b THEN s.cols ELSE {}
  BY <1>1 DEF Says
<1>3. \A c \in Columns : Word(s, b, c) = IF c = "vis" THEN AsVisibility(s.row.vis) ELSE s.row[c]
  BY <1>1 DEF Word
<1> QED BY <1>2, <1>3

LEMMA FolderSays ==
  ASSUME NEW s \in OfFolder, NEW b
  PROVE  s.entity = "folder" /\ Says(s, b) = {}
BY DEF OfFolder, Says

\* What a reorder says of the bookmark in each of its places.
LEMMA OrderSays ==
  ASSUME NEW s \in OfOrder, NEW i \in 1..Len(s.order)
  PROVE  /\ s.order[i] \in Bookmarks /\ i - 1 \in Places /\ s.id \in Folders \cup {Root}
         /\ Says(s, s.order[i]) = {"place"} \cup (IF s.id = Root THEN {} ELSE {"in"})
         /\ Word(s, s.order[i], "place") = i - 1 /\ Word(s, s.order[i], "in") = s.id
<1>1. s.entity = "reorder" /\ s.order \in Orders /\ s.id \in Folders \cup {Root}
  BY DEF OfOrder
<1>2. s.order \in Seq(Bookmarks) /\ \A j, k \in 1..Len(s.order) : j - 1 \in Places /\ (s.order[j] = s.order[k] => j = k)
  BY <1>1, OrdersAssumption
<1>3. Says(s, s.order[i]) = {"place"} \cup (IF s.id = Root THEN {} ELSE {"in"})
  BY <1>1 DEF Says, Columns
<1>4. (CHOOSE j \in 1..Len(s.order) : s.order[j] = s.order[i]) = i
  BY <1>2
<1>5. Word(s, s.order[i], "place") = i - 1 /\ Word(s, s.order[i], "in") = s.id
  BY <1>1, <1>4 DEF Word
<1>6. s.order[i] \in Bookmarks /\ i - 1 \in Places
  BY <1>2
<1> QED BY <1>1, <1>3, <1>5, <1>6

LEMMA OrderSaysNothing ==
  ASSUME NEW s \in OfOrder, NEW b, \A i \in 1..Len(s.order) : s.order[i] # b
  PROVE  Says(s, b) = {}
BY DEF OfOrder, Says

-----------------------------------------------------------------------------
\* Requests about a bookmark

LEMMA ChangesTyped ==
  ASSUME NEW s \in BookmarkRow, NEW r \in Changes(s)
  PROVE  r \in BookmarkRow /\ r.live = s.live
<1>1. LiveFolders \subseteq Folders
  BY DEF LiveFolders, FoldersOf
<1>2. CASE \E f \in Folders : r = [s EXCEPT !.in = f]
  BY <1>2 DEF BookmarkRow
<1>3. CASE \E v \in Visibilities : r = [s EXCEPT !.vis = v]
  BY <1>3 DEF BookmarkRow
<1>4. CASE \E a \in BOOLEAN : r = [s EXCEPT !.archived = a]
  BY <1>4 DEF BookmarkRow
<1>5. CASE \E n \in Places : r = [s EXCEPT !.place = n]
  BY <1>5 DEF BookmarkRow
<1> QED BY <1>1, <1>2, <1>3, <1>4, <1>5 DEF Changes

LEMMA ReadKeeps ==
  ASSUME FeedInv, NEW w \in Writers, ReadBookmark(w)
  PROVE  FeedInv'
<1>1. PICK b \in Bookmarks : bookmark[b].live /\ Touches(w, {b}) /\ \E row \in Changes(bookmark[b]) :
        Goes(w, [pc |-> "write", at |-> {b}, say |-> Snap(b, row, Columns), row |-> row, set |-> Columns \ {"live"}])
  BY DEF ReadBookmark
<1>2. PICK row \in Changes(bookmark[b]) :
        Goes(w, [pc |-> "write", at |-> {b}, say |-> Snap(b, row, Columns), row |-> row, set |-> Columns \ {"live"}])
  BY <1>1
<1>3. row \in BookmarkRow /\ row.live = bookmark[b].live
  BY ChangesTyped DEF FeedInv, FeedTypeOK
<1>4. PICK s : s = Snap(b, row, Columns)
  OBVIOUS
<1>5. s \in OfBookmark /\ s.id = b /\ s.row = row /\ s.cols = Columns /\ s.merged = FALSE
  <2>1. row \in LoggedRow /\ Columns \in SUBSET Columns
    BY <1>3, RowsOf
  <2> QED BY <1>4, <2>1 DEF Snap, OfBookmark
<1>6. PICK r : r = [pc |-> "write", at |-> {b}, say |-> s, row |-> row, set |-> Columns \ {"live"}]
  OBVIOUS
<1>7. /\ r.pc = "write" /\ r.at = {b} /\ r.say = s /\ r.row = row /\ r.set = Columns \ {"live"}
      /\ r \in Working
  BY <1>3, <1>5, <1>6 DEF Writing, Working
<1>8. Shaped(r)
  <2>1. \A c \in Columns : Word(s, b, c) = row[c]
    BY <1>3, <1>5, RowsOf, BookmarkSays
  <2> QED BY <1>5, <1>7, <2>1 DEF Shaped
<1>9. Turns(w, r)
  <2>1. Goes(w, r)
    BY <1>2, <1>4, <1>6
  <2>2. UNCHANGED <<folder, bookmark, fresh, op, feed, told>> /\ Starts(w)
    BY DEF ReadBookmark, Starts, library
  <2>3. overlaid \subseteq overlaid' /\ overlaid' \subseteq Bookmarks
    BY <1>1, TouchesTyped
  <2>4. \A d \in fresh : Spares(r, d)
    <3>1. b \notin fresh
      BY <1>1 DEF FeedInv, Shapes, Newborn
    <3> QED BY <3>1, <1>5, <1>7 DEF Spares
  <2> QED BY <2>1, <2>2, <2>3, <2>4 DEF Turns, Starts, FeedInv, FeedTypeOK
<1>10. Tracked(b)' \/ b \in overlaid'
  <2> SUFFICES ASSUME b \notin overlaid' PROVE Tracked(b)'
    OBVIOUS
  <2>1. \A v \in Writers \ {w} : b \notin writer[v].at
    BY <1>1, Untouched
  <2>2. writer[w].pc = "idle" /\ writer[w].at = {}
    BY WriterTyped DEF ReadBookmark, Starts, FeedInv
  <2>3. writer'[w] = r /\ \A v \in Writers \ {w} : writer'[v] = writer[v]
    BY <1>7, <1>9, GoesTyped DEF FeedInv, Turns
  <2>4. UNCHANGED <<bookmark, copy, doubt>>
    BY DEF ReadBookmark, Starts, library, told
  <2>5. b \notin overlaid
    BY <1>1, TouchesTyped
  <2>6. \A c \in Columns : Right(b, c)
    BY <2>1, <2>2, <2>5 DEF FeedInv, Followed, Tracked, Covered, Settling
  <2>7. Covered(b)'
    BY <2>4, <2>6 DEF Covered, Right
  <2>8. OneAt(b)'
    BY <2>1, <2>3 DEF OneAt
  <2>9. Held(b)'
    BY <1>3, <1>5, <1>7, <2>1, <2>3, <2>4 DEF Held
  <2> QED BY <2>7, <2>8, <2>9 DEF Tracked
<1>11. writer[w].at = {} /\ bookmark' = bookmark
  BY WriterTyped DEF ReadBookmark, Starts, FeedInv, library
<1>12. Followed'
  BY <1>7, <1>9, <1>10, <1>11, StepFollowed
<1> QED BY <1>7, <1>8, <1>9, <1>12, StepTyped DEF FeedInv

LEMMA AskedTyped ==
  ASSUME NEW s \in BookmarkRow, NEW a \in Asked(s)
  PROVE  /\ a[1] \in Columns /\ a[2] \in LoggedRow /\ [a[2] EXCEPT !.vis = AsVisibility(@)] \in BookmarkRow
         /\ [a[2] EXCEPT !.vis = AsVisibility(@)][a[1]] =
               IF a[1] = "vis" THEN AsVisibility(a[2].vis) ELSE a[2][a[1]]
<1>1. LiveFolders \subseteq Folders
  BY DEF LiveFolders, FoldersOf
<1>2. ASSUME NEW col, NEW t, a = <<col, t>>, col \in Columns, t \in LoggedRow,
             [t EXCEPT !.vis = AsVisibility(@)] \in BookmarkRow,
             [t EXCEPT !.vis = AsVisibility(@)][col] = IF col = "vis" THEN AsVisibility(t.vis) ELSE t[col]
      PROVE  /\ a[1] \in Columns /\ a[2] \in LoggedRow /\ [a[2] EXCEPT !.vis = AsVisibility(@)] \in BookmarkRow
             /\ [a[2] EXCEPT !.vis = AsVisibility(@)][a[1]] =
                   IF a[1] = "vis" THEN AsVisibility(a[2].vis) ELSE a[2][a[1]]
  <2>1. a[1] = col /\ a[2] = t
    BY <1>2
  <2> QED BY <1>2, <2>1
<1>3. ASSUME NEW f \in Folders, NEW t, t = [s EXCEPT !.in = f]
      PROVE  /\ "in" \in Columns /\ t \in LoggedRow /\ [t EXCEPT !.vis = AsVisibility(@)] \in BookmarkRow
             /\ [t EXCEPT !.vis = AsVisibility(@)]["in"] = t["in"]
  BY <1>3 DEF BookmarkRow, LoggedRow, AsVisibility, Columns
<1>4. ASSUME NEW x \in BOOLEAN, NEW t, t = [s EXCEPT !.archived = x]
      PROVE  /\ "archived" \in Columns /\ t \in LoggedRow /\ [t EXCEPT !.vis = AsVisibility(@)] \in BookmarkRow
             /\ [t EXCEPT !.vis = AsVisibility(@)]["archived"] = t["archived"]
  BY <1>4 DEF BookmarkRow, LoggedRow, AsVisibility, Columns
<1>5. ASSUME NEW v \in Visibilities \cup {"other"}, NEW t, t = [s EXCEPT !.vis = v]
      PROVE  /\ "vis" \in Columns /\ t \in LoggedRow /\ [t EXCEPT !.vis = AsVisibility(@)] \in BookmarkRow
             /\ [t EXCEPT !.vis = AsVisibility(@)]["vis"] = AsVisibility(t.vis)
  BY <1>5 DEF BookmarkRow, LoggedRow, AsVisibility, Columns, Visibilities
<1>6. \/ \E f \in Folders : a = <<"in", [s EXCEPT !.in = f]>>
      \/ \E x \in BOOLEAN : a = <<"archived", [s EXCEPT !.archived = x]>>
      \/ \E v \in Visibilities \cup {"other"} : a = <<"vis", [s EXCEPT !.vis = v]>>
  BY <1>1 DEF Asked
<1>7. CASE \E f \in Folders : a = <<"in", [s EXCEPT !.in = f]>>
  <2>1. PICK f \in Folders : a = <<"in", [s EXCEPT !.in = f]>>
    BY <1>7
  <2>2. PICK t : t = [s EXCEPT !.in = f]
    OBVIOUS
  <2>3. a = <<"in", t>>
    BY <2>1, <2>2
  <2>4. /\ "in" \in Columns /\ t \in LoggedRow /\ [t EXCEPT !.vis = AsVisibility(@)] \in BookmarkRow
        /\ [t EXCEPT !.vis = AsVisibility(@)]["in"] = t["in"]
    BY <2>2, <1>3
  <2> QED BY <1>2, <2>3, <2>4
<1>8. CASE \E x \in BOOLEAN : a = <<"archived", [s EXCEPT !.archived = x]>>
  <2>1. PICK x \in BOOLEAN : a = <<"archived", [s EXCEPT !.archived = x]>>
    BY <1>8
  <2>2. PICK t : t = [s EXCEPT !.archived = x]
    OBVIOUS
  <2>3. a = <<"archived", t>>
    BY <2>1, <2>2
  <2>4. /\ "archived" \in Columns /\ t \in LoggedRow /\ [t EXCEPT !.vis = AsVisibility(@)] \in BookmarkRow
        /\ [t EXCEPT !.vis = AsVisibility(@)]["archived"] = t["archived"]
    BY <2>2, <1>4
  <2> QED BY <1>2, <2>3, <2>4
<1>9. CASE \E v \in Visibilities \cup {"other"} : a = <<"vis", [s EXCEPT !.vis = v]>>
  <2>1. PICK v \in Visibilities \cup {"other"} : a = <<"vis", [s EXCEPT !.vis = v]>>
    BY <1>9
  <2>2. PICK t : t = [s EXCEPT !.vis = v]
    OBVIOUS
  <2>3. a = <<"vis", t>>
    BY <2>1, <2>2
  <2>4. /\ "vis" \in Columns /\ t \in LoggedRow /\ [t EXCEPT !.vis = AsVisibility(@)] \in BookmarkRow
        /\ [t EXCEPT !.vis = AsVisibility(@)]["vis"] = AsVisibility(t.vis)
    BY <2>2, <1>5
  <2> QED BY <1>2, <2>3, <2>4
<1> QED BY <1>6, <1>7, <1>8, <1>9

LEMMA BatchKeeps ==
  ASSUME FeedInv, NEW w \in Writers, BatchBookmark(w)
  PROVE  FeedInv'
<1>1. PICK b \in Bookmarks : bookmark[b].live /\ \E a \in Asked(bookmark[b]) :
        Goes(w, [pc |-> "write", at |-> {}, say |-> Snap(b, a[2], {a[1]}),
                 row |-> [a[2] EXCEPT !.vis = AsVisibility(@)], set |-> {a[1]}])
  BY DEF BatchBookmark
<1>2. PICK a \in Asked(bookmark[b]) :
        Goes(w, [pc |-> "write", at |-> {}, say |-> Snap(b, a[2], {a[1]}),
                 row |-> [a[2] EXCEPT !.vis = AsVisibility(@)], set |-> {a[1]}])
  BY <1>1
<1>3. PICK c, asked, row : c = a[1] /\ asked = a[2] /\ row = [a[2] EXCEPT !.vis = AsVisibility(@)]
  OBVIOUS
<1>4. /\ c \in Columns /\ asked \in LoggedRow /\ row \in BookmarkRow
      /\ row[c] = IF c = "vis" THEN AsVisibility(asked.vis) ELSE asked[c]
  BY <1>3, AskedTyped DEF FeedInv, FeedTypeOK
<1>5. PICK s : s = Snap(b, asked, {c})
  OBVIOUS
<1>6. s \in OfBookmark /\ s.id = b /\ s.row = asked /\ s.cols = {c}
  <2>1. {c} \in SUBSET Columns
    BY <1>4
  <2> QED BY <1>4, <1>5, <2>1 DEF Snap, OfBookmark
<1>7. PICK r : r = [pc |-> "write", at |-> {}, say |-> s, row |-> row, set |-> {c}]
  OBVIOUS
<1>8. r.pc = "write" /\ r.at = {} /\ r.say = s /\ r.row = row /\ r.set = {c} /\ r \in Working
  BY <1>4, <1>6, <1>7 DEF Writing, Working
<1>9. Shaped(r)
  BY <1>4, <1>6, <1>8, BookmarkSays DEF Shaped
<1>10. Starts(w) /\ UNCHANGED <<folder, bookmark, fresh, overlaid>> /\ writer[w].at = {}
  BY WriterTyped DEF BatchBookmark, library, Starts, FeedInv
<1>11. Turns(w, r)
  <2>1. Goes(w, r)
    BY <1>2, <1>3, <1>5, <1>7
  <2>2. \A d \in fresh : Spares(r, d)
    <3>1. b \notin fresh
      BY <1>1 DEF FeedInv, Shapes, Newborn
    <3> QED BY <3>1, <1>6, <1>8 DEF Spares
  <2> QED BY <1>10, <2>1, <2>2 DEF Turns, Starts, FeedInv, FeedTypeOK
<1> QED BY <1>8, <1>9, <1>10, <1>11, NothingYet

LEMMA MergeKeeps ==
  ASSUME FeedInv, NEW w \in Writers, MergeBookmark(w)
  PROVE  FeedInv'
<1>1. PICK b \in Bookmarks, item \in Items :
        /\ bookmark[b].live /\ item.in \in LiveFolders \cup {Root}
        /\ Goes(w, [pc |-> "write", at |-> {}, say |-> [Snap(b, bookmark[b], {}) EXCEPT !.merged = TRUE],
                    row |-> [bookmark[b] EXCEPT !.in = IF item.in = Root THEN @ ELSE item.in,
                                                !.archived = item.archived, !.place = item.place],
                    set |-> {"archived", "place"} \cup (IF item.in = Root THEN {} ELSE {"in"})])
  BY DEF MergeBookmark
<1>2. PICK old \in BookmarkRow : old = bookmark[b]
  BY DEF FeedInv, FeedTypeOK
<1>3. PICK s : s = [Snap(b, old, {}) EXCEPT !.merged = TRUE]
  OBVIOUS
<1>4. s \in OfBookmark /\ s.id = b /\ s.cols = {} /\ s.merged
  <2>1. old \in LoggedRow
    BY RowsOf
  <2> QED BY <1>3, <2>1 DEF Snap, OfBookmark
<1>5. PICK row : row = [old EXCEPT !.in = IF item.in = Root THEN @ ELSE item.in,
                                   !.archived = item.archived, !.place = item.place]
  OBVIOUS
<1>6. row \in BookmarkRow
  <2>1. item \in [in : Folders \cup {Root}, archived : BOOLEAN, place : Places]
    BY ItemsAssumption
  <2> QED BY <1>5, <2>1 DEF BookmarkRow
<1>7. PICK set : set = {"archived", "place"} \cup (IF item.in = Root THEN {} ELSE {"in"})
  OBVIOUS
<1>8. set \subseteq {"in", "archived", "place"} /\ set \in SUBSET Columns
  BY <1>7 DEF Columns
<1>9. PICK r : r = [pc |-> "write", at |-> {}, say |-> s, row |-> row, set |-> set]
  OBVIOUS
<1>10. r.pc = "write" /\ r.at = {} /\ r.say = s /\ r.row = row /\ r.set = set /\ r \in Working
  BY <1>4, <1>6, <1>8, <1>9 DEF Writing, Working
<1>11. Shaped(r)
  BY <1>4, <1>8, <1>10 DEF Shaped
<1>12. Starts(w) /\ UNCHANGED <<folder, bookmark, fresh, overlaid>> /\ writer[w].at = {}
  BY WriterTyped DEF MergeBookmark, library, Starts, FeedInv
<1>13. Turns(w, r)
  <2>1. Goes(w, r)
    BY <1>1, <1>2, <1>3, <1>5, <1>7, <1>9
  <2>2. \A d \in fresh : Spares(r, d)
    <3>1. b \notin fresh
      BY <1>1 DEF FeedInv, Shapes, Newborn
    <3> QED BY <3>1, <1>4, <1>10 DEF Spares
  <2> QED BY <1>12, <2>1, <2>2 DEF Turns, Starts, FeedInv, FeedTypeOK
<1> QED BY <1>10, <1>11, <1>12, <1>13, NothingYet

LEMMA OverTyped ==
  ASSUME NEW r \in BookmarkRow, NEW s \in BookmarkRow, NEW set \in SUBSET Columns
  PROVE  /\ Over(r, set, s) \in BookmarkRow
         /\ \A c \in Columns : Over(r, set, s)[c] = IF c \in set THEN r[c] ELSE s[c]
<1>1. Over(r, set, s) \in BookmarkRow
  BY DEF Over, Columns, BookmarkRow
<1>2. \A c \in Columns : Over(r, set, s)[c] = IF c \in set THEN r[c] ELSE s[c]
  BY DEF Over, Columns, BookmarkRow
<1> QED BY <1>1, <1>2

\* The UPDATE sets what the row says or hints at; of deleted_at, which a PATCH does not set,
\* the row is true while the request is alone.
LEMMA WriteKeeps ==
  ASSUME FeedInv, NEW w \in Writers, WriteBookmark(w)
  PROVE  FeedInv'
<1>1. writer[w].pc = "write" /\ writer[w] \in Writing /\ Shaped(writer[w]) /\ GoesOn /\ UNCHANGED folder
  BY WriterTyped DEF WriteBookmark, FeedInv, Shapes
<1>2. PICK old \in Writing : old = writer[w]
  BY <1>1
<1>3. PICK s \in OfBookmark, row \in BookmarkRow, set \in SUBSET Columns : s = old.say /\ row = old.row /\ set = old.set
  BY DEF Writing
<1>4. PICK b \in Bookmarks : b = s.id
  BY DEF OfBookmark
<1>5. bookmark' = [bookmark EXCEPT ![b] = Over(row, set, @)] /\ Logs(w, old.at \cup {b}) /\ Touches(w, {b})
  BY <1>2, <1>3, <1>4 DEF WriteBookmark
<1>6. PICK was \in BookmarkRow : was = bookmark[b]
  BY DEF FeedInv, FeedTypeOK
<1>7. /\ bookmark' \in [Bookmarks -> BookmarkRow] /\ \A d \in Bookmarks \ {b} : bookmark'[d] = bookmark[d]
      /\ \A c \in Columns : bookmark'[b][c] = IF c \in set THEN row[c] ELSE was[c]
  <2>1. PICK new \in BookmarkRow : new = Over(row, set, was)
    BY OverTyped
  <2>2. \A c \in Columns : new[c] = IF c \in set THEN row[c] ELSE was[c]
    BY <2>1, OverTyped
  <2>3. bookmark' = [bookmark EXCEPT ![b] = new]
    BY <1>5, <1>6, <2>1
  <2> QED BY <2>2, <2>3 DEF FeedInv, FeedTypeOK
<1>8. PICK r : r = [pc |-> "log", at |-> old.at \cup {b}, say |-> s]
  OBVIOUS
<1>9. r.pc = "log" /\ r.at = {b} /\ r.say = s /\ r \in Working /\ old.at \subseteq {b}
  <2>1. old.at \subseteq {b}
    BY <1>1, <1>2, <1>3, <1>4 DEF Shaped
  <2> QED BY <1>8, <2>1 DEF Logging, Working, Snapshots
<1>10. Shaped(r)
  BY <1>4, <1>9, BookmarkSays DEF Shaped
<1>11. Turns(w, r)
  <2>1. Goes(w, r)
    BY <1>2, <1>3, <1>5, <1>8 DEF Logs
  <2>2. overlaid \subseteq overlaid' /\ overlaid' \subseteq Bookmarks
    BY <1>5, TouchesTyped
  <2>3. b \notin fresh
    BY <1>1, <1>2, <1>3, <1>4 DEF FeedInv, Shapes, Newborn, Spares
  <2> QED BY <1>1, <1>7, <1>9, <2>1, <2>2, <2>3 DEF Turns, GoesOn, Spares, FeedInv, FeedTypeOK
<1>12. ASSUME b \notin overlaid' PROVE Tracked(b)'
  <2>1. \A v \in Writers \ {w} : b \notin writer[v].at
    BY <1>5, <1>12, Untouched
  <2>2. writer'[w] = r /\ \A v \in Writers \ {w} : writer'[v] = writer[v] /\ b \notin writer[v].at
    BY <1>9, <1>11, <2>1, GoesTyped DEF FeedInv, Turns
  <2>3. Tracked(b)
    BY <1>5, <1>12 DEF Touches, FeedInv, Followed
  <2>4. UNCHANGED <<copy, doubt>>
    BY <1>1 DEF GoesOn, told
  <2>5. /\ \A c \in s.cols \ set : c = "live" /\ old.at # {}
        /\ \A c \in set : IF c \in s.cols THEN Word(s, b, c) = row[c] ELSE s.merged /\ c \in {"in", "archived", "place"}
    BY <1>1, <1>2, <1>3, <1>4 DEF Shaped
  <2>6. Says(s, b) = s.cols /\ s.cols \subseteq Columns /\ s.entity = "bookmark"
    BY <1>4, BookmarkSays DEF OfBookmark
  <2>7. b \in old.at => s.row.live = was.live
    BY <1>1, <1>2, <1>3, <1>6, <2>3 DEF Tracked, Held
  <2>8. \A c \in s.cols : Word(s, b, c) = bookmark'[b][c]
    <3> SUFFICES ASSUME NEW c \in s.cols PROVE Word(s, b, c) = bookmark'[b][c]
      OBVIOUS
    <3>1. CASE c \in set
      BY <1>7, <2>5, <2>6, <3>1
    <3>2. CASE c \notin set
      <4>1. c = "live" /\ b \in old.at
        BY <1>9, <2>5, <3>2
      <4>2. Word(s, b, c) = s.row.live
        BY <4>1, BookmarkSays DEF Columns
      <4> QED BY <1>7, <2>6, <2>7, <3>2, <4>1, <4>2
    <3> QED BY <3>1, <3>2
  <2>9. \A c \in Columns : bookmark'[b][c] = bookmark[b][c] \/ Settles(s, b, c, bookmark'[b], copy[b].in)
    BY <1>4, <1>6, <1>7, <2>5, <2>6 DEF Settles
  <2>10. \A c \in Says(r.say, b) : Word(r.say, b, c) = bookmark'[b][c]
    BY <1>9, <2>6, <2>8
  <2>11. \A c \in Columns : bookmark'[b][c] = bookmark[b][c] \/ Settles(r.say, b, c, bookmark'[b], copy[b].in)
    BY <1>9, <2>9
  <2> QED BY <1>1, <1>9, <2>2, <2>3, <2>4, <2>10, <2>11, Alone
<1>13. Followed'
  BY <1>2, <1>7, <1>9, <1>11, <1>12, StepFollowed
<1> QED BY <1>9, <1>10, <1>11, <1>13, StepTyped DEF FeedInv

\* An id that no bookmark has had: all that is told of it but its visibility, which a follower
\* does not know yet.
LEMMA CreateKeeps ==
  ASSUME FeedInv, NEW w \in Writers, CreateBookmark(w)
  PROVE  FeedInv'
<1>1. PICK b \in fresh, f \in LiveFolders, v \in Visibilities, cols \in {Columns, Columns \ {"vis"}} :
        LET r == [bookmark[b] EXCEPT !.live = TRUE, !.in = f, !.vis = v]
        IN /\ bookmark' = [bookmark EXCEPT ![b] = r] /\ fresh' = fresh \ {b}
           /\ Goes(w, [pc |-> "log", at |-> {b}, say |-> Snap(b, r, cols)])
  BY DEF CreateBookmark
<1>2. b \in Bookmarks /\ f \in Folders
  BY DEF FeedInv, FeedTypeOK, LiveFolders, FoldersOf
<1>3. PICK was \in BookmarkRow : was = bookmark[b]
  BY <1>2 DEF FeedInv, FeedTypeOK
<1>4. PICK row : row = [was EXCEPT !.live = TRUE, !.in = f, !.vis = v]
  OBVIOUS
<1>5. row \in BookmarkRow
  BY <1>2, <1>4 DEF BookmarkRow
<1>6. /\ bookmark' = [bookmark EXCEPT ![b] = row] /\ fresh' = fresh \ {b}
      /\ Goes(w, [pc |-> "log", at |-> {b}, say |-> Snap(b, row, cols)])
  BY <1>1, <1>3, <1>4
<1>7. PICK s : s = Snap(b, row, cols)
  OBVIOUS
<1>8. s \in OfBookmark /\ s.id = b /\ s.row = row /\ s.cols = cols /\ Columns \ {"vis"} \subseteq s.cols
  <2>1. row \in LoggedRow
    BY <1>5, RowsOf
  <2> QED BY <1>2, <1>7, <2>1 DEF Snap, OfBookmark
<1>9. PICK r : r = [pc |-> "log", at |-> {b}, say |-> s]
  OBVIOUS
<1>10. r.pc = "log" /\ r.at = {b} /\ r.say = s /\ r \in Working
  BY <1>2, <1>8, <1>9 DEF Logging, Working, Snapshots
<1>11. Shaped(r)
  BY <1>8, <1>10, BookmarkSays DEF Shaped
<1>12. bookmark' \in [Bookmarks -> BookmarkRow] /\ bookmark'[b] = row /\ \A d \in Bookmarks \ {b} : bookmark'[d] = bookmark[d]
  BY <1>2, <1>5, <1>6 DEF FeedInv, FeedTypeOK
<1>13. Starts(w) /\ UNCHANGED <<folder, overlaid>> /\ writer[w].at = {}
  BY WriterTyped DEF CreateBookmark, library, Starts, FeedInv
<1>14. Turns(w, r)
  <2>1. Goes(w, r)
    BY <1>6, <1>7, <1>9
  <2> QED BY <1>6, <1>10, <1>12, <1>13, <2>1 DEF Turns, Starts, Spares, FeedInv, FeedTypeOK
<1>15. ASSUME b \notin overlaid' PROVE Tracked(b)'
  <2>1. Newborn(b)
    BY DEF FeedInv, Shapes
  <2>2. writer'[w] = r /\ \A u \in Writers \ {w} : writer'[u] = writer[u] /\ b \notin writer[u].at
    BY <1>10, <1>14, <2>1, GoesTyped DEF FeedInv, Turns, Newborn, Spares
  <2>3. Tracked(b)
    BY <1>2, <1>13, <1>15 DEF FeedInv, Followed
  <2>4. UNCHANGED <<copy, doubt>>
    BY <1>13 DEF Starts, told
  <2>5. \A c \in Columns : Word(s, b, c) = row[c]
    BY <1>5, <1>8, RowsOf, BookmarkSays
  <2>6. Says(s, b) = s.cols /\ s.cols \subseteq Columns
    BY <1>8, BookmarkSays DEF OfBookmark
  <2>7. \A c \in Columns : c \in doubt[b] \/ Settles(s, b, c, bookmark'[b], copy[b].in)
    BY <1>8, <1>12, <2>1, <2>5, <2>6 DEF Settles, Newborn
  <2>8. OneAt(b)'
    BY <2>2 DEF OneAt
  <2>9. Held(b)'
    BY <1>10, <1>12, <2>2, <2>5, <2>6 DEF Held
  <2>10. Covered(b)'
    BY <1>10, <2>2, <2>4, <2>7 DEF Covered, Right, Settling
  <2> QED BY <2>8, <2>9, <2>10 DEF Tracked
<1>16. Followed'
  BY <1>10, <1>12, <1>13, <1>14, <1>15, StepFollowed
<1> QED BY <1>10, <1>11, <1>14, <1>16, StepTyped DEF FeedInv

LEMMA DeleteKeeps ==
  ASSUME FeedInv, NEW w \in Writers, DeleteBookmark(w)
  PROVE  FeedInv'
<1>1. PICK b \in Bookmarks \ fresh :
        LET r == [bookmark[b] EXCEPT !.live = FALSE]
        IN /\ bookmark' = [bookmark EXCEPT ![b] = r]
           /\ Goes(w, [pc |-> "log", at |-> {b}, say |-> Snap(b, r, {"live"})])
           /\ Touches(w, {b})
  BY DEF DeleteBookmark
<1>2. PICK was \in BookmarkRow : was = bookmark[b]
  BY DEF FeedInv, FeedTypeOK
<1>3. PICK row : row = [was EXCEPT !.live = FALSE]
  OBVIOUS
<1>4. row \in BookmarkRow /\ row.live = FALSE /\ \A c \in Columns \ {"live"} : row[c] = was[c]
  BY <1>3 DEF BookmarkRow, Columns
<1>5. /\ bookmark' = [bookmark EXCEPT ![b] = row]
      /\ Goes(w, [pc |-> "log", at |-> {b}, say |-> Snap(b, row, {"live"})])
      /\ Touches(w, {b})
  BY <1>1, <1>2, <1>3
<1>6. PICK s : s = Snap(b, row, {"live"})
  OBVIOUS
<1>7. s \in OfBookmark /\ s.id = b /\ s.row = row /\ s.cols = {"live"}
  <2>1. row \in LoggedRow
    BY <1>4, RowsOf
  <2> QED BY <1>6, <2>1 DEF Snap, OfBookmark, Columns
<1>8. PICK r : r = [pc |-> "log", at |-> {b}, say |-> s]
  OBVIOUS
<1>9. r.pc = "log" /\ r.at = {b} /\ r.say = s /\ r \in Working
  BY <1>7, <1>8 DEF Logging, Working, Snapshots
<1>10. Shaped(r)
  BY <1>7, <1>9, BookmarkSays DEF Shaped
<1>11. bookmark' \in [Bookmarks -> BookmarkRow] /\ bookmark'[b] = row /\ \A d \in Bookmarks \ {b} : bookmark'[d] = bookmark[d]
  BY <1>4, <1>5 DEF FeedInv, FeedTypeOK
<1>12. Starts(w) /\ UNCHANGED <<folder, fresh>> /\ writer[w].at = {}
  BY WriterTyped DEF DeleteBookmark, library, Starts, FeedInv
<1>13. Turns(w, r)
  <2>1. Goes(w, r)
    BY <1>5, <1>6, <1>8
  <2>2. overlaid \subseteq overlaid' /\ overlaid' \subseteq Bookmarks
    BY <1>5, TouchesTyped
  <2> QED BY <1>9, <1>11, <1>12, <2>1, <2>2 DEF Turns, Starts, Spares, FeedInv, FeedTypeOK
<1>14. ASSUME b \notin overlaid' PROVE Tracked(b)'
  <2>1. \A v \in Writers \ {w} : b \notin writer[v].at
    BY <1>5, <1>14, Untouched
  <2>2. writer'[w] = r /\ \A v \in Writers \ {w} : writer'[v] = writer[v] /\ b \notin writer[v].at
    BY <1>9, <1>13, <2>1, GoesTyped DEF FeedInv, Turns
  <2>3. Tracked(b)
    BY <1>5, <1>14 DEF Touches, FeedInv, Followed
  <2>4. UNCHANGED <<copy, doubt>>
    BY <1>12 DEF Starts, told
  <2>5. Says(s, b) = {"live"} /\ Word(s, b, "live") = row.live
    BY <1>7, BookmarkSays DEF Columns
  <2>6. \A c \in Says(r.say, b) : Word(r.say, b, c) = bookmark'[b][c]
    BY <1>9, <1>11, <2>5
  <2>7. \A c \in Columns : bookmark'[b][c] = bookmark[b][c] \/ Settles(r.say, b, c, bookmark'[b], copy[b].in)
    BY <1>2, <1>4, <1>9, <1>11, <2>5 DEF Settles
  <2> QED BY <1>9, <1>12, <2>2, <2>3, <2>4, <2>6, <2>7, Alone
<1>15. Followed'
  BY <1>9, <1>11, <1>12, <1>13, <1>14, StepFollowed
<1> QED BY <1>9, <1>10, <1>13, <1>15, StepTyped DEF FeedInv

LEMMA EditFolderKeeps ==
  ASSUME FeedInv, NEW w \in Writers, EditFolder(w)
  PROVE  FeedInv'
<1>1. PICK f \in Folders :
        /\ \/ \E v \in Visibilities : folder' = [folder EXCEPT ![f].vis = v]
           \/ \E p \in LiveFolders \cup {Root} : folder' = [folder EXCEPT ![f].up = p]
        /\ Goes(w, [pc |-> "log", at |-> {}, say |-> [entity |-> "folder", id |-> f, mode |-> "update"]])
  BY DEF EditFolder, LiveFolders, FoldersOf
<1>2. folder' \in [Folders -> FolderRow]
  <2>1. LiveFolders \subseteq Folders
    BY DEF LiveFolders, FoldersOf
  <2>2. folder \in [Folders -> FolderRow]
    BY DEF FeedInv, FeedTypeOK
  <2>3. CASE \E v \in Visibilities : folder' = [folder EXCEPT ![f].vis = v]
    BY <2>2, <2>3 DEF FolderRow
  <2>4. CASE \E p \in LiveFolders \cup {Root} : folder' = [folder EXCEPT ![f].up = p]
    BY <2>1, <2>2, <2>4 DEF FolderRow
  <2> QED BY <1>1, <2>3, <2>4
<1>3. PICK r : r = [pc |-> "log", at |-> {}, say |-> [entity |-> "folder", id |-> f, mode |-> "update"]]
  OBVIOUS
<1>4. r.pc = "log" /\ r.at = {} /\ r.say \in OfFolder /\ r \in Working
  BY <1>3 DEF Logging, Working, Snapshots, OfFolder
<1>5. Shaped(r)
  BY <1>4, FolderSays DEF Shaped
<1>6. Starts(w) /\ UNCHANGED <<bookmark, fresh, overlaid>> /\ writer[w].at = {}
  BY WriterTyped DEF EditFolder, Starts, FeedInv
<1>7. Turns(w, r)
  BY <1>1, <1>2, <1>3, <1>4, <1>6 DEF Turns, Starts, Spares, FeedInv, FeedTypeOK
<1> QED BY <1>4, <1>5, <1>6, <1>7, NothingYet

-----------------------------------------------------------------------------
\* Reorders

LEMMA ReorderKeeps ==
  ASSUME FeedInv, NEW w \in Writers, Reorder(w)
  PROVE  FeedInv'
<1>1. PICK o \in Orders, f \in LiveFolders \cup {Root} :
        /\ \A i \in 1..Len(o) : o[i] \notin fresh
        /\ Goes(w, [pc |-> "place", at |-> {}, say |-> [entity |-> "reorder", id |-> f, order |-> o], next |-> 1])
  BY DEF Reorder
<1>2. PICK r : r = [pc |-> "place", at |-> {}, say |-> [entity |-> "reorder", id |-> f, order |-> o], next |-> 1]
  OBVIOUS
<1>3. r.pc = "place" /\ r.at = {} /\ r.next = 1 /\ r.say.order = o /\ r \in Working
  BY <1>2 DEF Placing, Working, OfOrder, LiveFolders, FoldersOf
<1>4. Shaped(r)
  <2>1. Len(o) \in Nat \ {0}
    BY OrdersAssumption
  <2> QED BY <1>3, <2>1 DEF Shaped
<1>5. Starts(w) /\ UNCHANGED <<folder, bookmark, fresh, overlaid>> /\ writer[w].at = {}
  BY WriterTyped DEF Reorder, library, Starts, FeedInv
<1>6. Turns(w, r)
  BY <1>1, <1>2, <1>3, <1>5 DEF Turns, Starts, Spares, FeedInv, FeedTypeOK
<1> QED BY <1>3, <1>4, <1>5, <1>6, NothingYet

\* A bookmark is placed: the row that is going to be logged says its place, and its folder if
\* the reorder has one.
LEMMA PlaceKeeps ==
  ASSUME FeedInv, NEW w \in Writers, PlaceBookmark(w)
  PROVE  FeedInv'
<1>1. writer[w].pc = "place" /\ writer[w] \in Placing /\ Shaped(writer[w]) /\ GoesOn /\ UNCHANGED folder
  BY WriterTyped DEF PlaceBookmark, FeedInv, Shapes
<1>2. PICK old \in Placing : old = writer[w]
  BY <1>1
<1>3. PICK s \in OfOrder, i \in Nat, at \in SUBSET Bookmarks :
        s = old.say /\ i = old.next /\ at = old.at
  BY DEF Placing
<1>4. PICK len \in Nat : len = Len(s.order)
  BY OrdersAssumption DEF OfOrder
<1>5. i \in 1..len /\ \A j \in 1..(i - 1) : s.order[j] \in at
  BY <1>1, <1>2, <1>3, <1>4 DEF Shaped
<1>6. PICK b \in Bookmarks : b = s.order[i]
  BY <1>4, <1>5, OrderSays
<1>7. PICK was \in BookmarkRow : was = bookmark[b]
  BY DEF FeedInv, FeedTypeOK
<1>8. PICK row : row = [was EXCEPT !.place = i - 1, !.in = IF s.id = Root THEN @ ELSE s.id]
  OBVIOUS
<1>9. /\ row \in BookmarkRow /\ row.place = i - 1 /\ row.in = IF s.id = Root THEN was.in ELSE s.id
      /\ \A c \in Columns \ {"place", "in"} : row[c] = was[c]
  <2>1. i - 1 \in Places /\ s.id \in Folders \cup {Root}
    BY <1>4, <1>5, OrderSays
  <2> QED BY <1>8, <2>1 DEF BookmarkRow, Columns
<1>10. /\ bookmark' = [bookmark EXCEPT ![b] = row] /\ Touches(w, {b})
       /\ IF i < len THEN Goes(w, [old EXCEPT !.next = i + 1, !.at = at \cup {b}]) ELSE Logs(w, at \cup {b})
  <2>1. /\ bookmark' = [bookmark EXCEPT ![b] = [bookmark[b] EXCEPT !.place = i - 1, !.in = IF s.id = Root THEN @ ELSE s.id]]
        /\ Touches(w, {b})
    BY <1>2, <1>3, <1>6 DEF PlaceBookmark
  <2>2. IF i < len THEN Goes(w, [old EXCEPT !.next = i + 1, !.at = at \cup {b}]) ELSE Logs(w, at \cup {b})
    BY <1>2, <1>3, <1>4, <1>6 DEF PlaceBookmark
  <2>3. row = [bookmark[b] EXCEPT !.place = i - 1, !.in = IF s.id = Root THEN @ ELSE s.id]
    BY <1>7, <1>8
  <2>4. bookmark' = [bookmark EXCEPT ![b] = row]
    BY <2>1, <2>3
  <2> QED BY <2>1, <2>2, <2>4
<1>11. bookmark' \in [Bookmarks -> BookmarkRow] /\ bookmark'[b] = row /\ \A d \in Bookmarks \ {b} : bookmark'[d] = bookmark[d]
  BY <1>9, <1>10 DEF FeedInv, FeedTypeOK
<1>12. PICK r : r = IF i < len THEN [old EXCEPT !.next = i + 1, !.at = at \cup {b}]
                    ELSE [pc |-> "log", at |-> at \cup {b}, say |-> s]
  OBVIOUS
<1>13. /\ r.at = at \cup {b} /\ r.say = s /\ r.pc # "write" /\ r \in Working /\ Goes(w, r)
       /\ IF i < len THEN r.pc = "place" /\ r.next = i + 1 ELSE r.pc = "log"
  <2>1. CASE i < len
    <3>1. PICK seen : seen = at \cup {b}
      OBVIOUS
    <3>2. PICK n \in Nat : n = i + 1
      OBVIOUS
    <3>3. r = [old EXCEPT !.next = n, !.at = seen] /\ Goes(w, r)
      BY <1>10, <1>12, <2>1, <3>1, <3>2
    <3>4. seen \in SUBSET Bookmarks
      BY <3>1
    <3>5. r \in Placing /\ r.pc = "place" /\ r.next = n /\ r.at = seen /\ r.say = s
      BY <1>3, <3>3, <3>4 DEF Placing
    <3> QED BY <2>1, <3>1, <3>2, <3>3, <3>5 DEF Working
  <2>2. CASE ~(i < len)
    BY <1>2, <1>3, <1>10, <1>12, <2>2 DEF Logging, Working, Snapshots, Logs
  <2> QED BY <2>1, <2>2
<1>14. \A j \in 1..i : s.order[j] \in r.at
  BY <1>5, <1>6, <1>13
<1>15. Shaped(r)
  <2>1. CASE i < len
    <3>1. r.pc = "place" /\ r.next = i + 1
      BY <1>13, <2>1
    <3> QED BY <1>4, <1>5, <1>13, <1>14, <2>1, <3>1 DEF Shaped
  <2>2. CASE ~(i < len)
    <3>1. r.pc = "log" /\ i = len
      BY <1>5, <1>13, <2>2
    <3>2. \A d \in Bookmarks : d \in r.at \/ Says(s, d) = {}
      BY <1>4, <1>14, <3>1, OrderSaysNothing
    <3> QED BY <1>13, <3>1, <3>2 DEF Shaped
  <2> QED BY <2>1, <2>2
<1>16. Turns(w, r)
  <2>1. overlaid \subseteq overlaid' /\ overlaid' \subseteq Bookmarks
    BY <1>10, TouchesTyped
  <2>2. \A d \in fresh : Spares(old, d)
    BY <1>2 DEF FeedInv, Shapes, Newborn
  <2>3. \A d \in fresh : d # b /\ Spares(r, d)
    <3> SUFFICES ASSUME NEW d \in fresh PROVE d # b /\ Spares(r, d)
      OBVIOUS
    <3>1. d \notin at /\ \A j \in 1..len : s.order[j] # d
      BY <1>1, <1>2, <1>3, <1>4, <2>2 DEF Spares
    <3>2. d # b
      BY <1>5, <1>6, <3>1
    <3> QED BY <1>4, <1>13, <3>1, <3>2 DEF Spares
  <2> QED BY <1>1, <1>11, <1>13, <2>1, <2>3 DEF Turns, GoesOn, FeedInv, FeedTypeOK
<1>17. ASSUME NEW d \in Bookmarks, d \in r.at, d \notin overlaid' PROVE Tracked(d)'
  <2>1. Tracked(d)
    BY <1>10, <1>17 DEF FeedInv, Followed, Touches
  <2>2. \A v \in Writers \ {w} : d \notin writer[v].at
    <3>1. CASE d = b
      BY <1>10, <1>17, <3>1, Untouched
    <3>2. CASE d # b
      BY <1>2, <1>3, <1>13, <1>17, <2>1, <3>2 DEF Tracked, OneAt
    <3> QED BY <3>1, <3>2
  <2>3. writer'[w] = r /\ \A v \in Writers \ {w} : writer'[v] = writer[v] /\ d \notin writer[v].at
    BY <1>13, <2>2, GoesTyped DEF FeedInv
  <2>4. UNCHANGED <<copy, doubt>>
    BY <1>1 DEF GoesOn, told
  <2>5. r.say = writer[w].say
    BY <1>2, <1>3, <1>13
  <2>6. \A c \in Says(r.say, d) : Word(r.say, d, c) = bookmark'[d][c]
    <3>1. CASE d = b
      <4>1. Says(s, b) = {"place"} \cup (IF s.id = Root THEN {} ELSE {"in"})
        BY <1>4, <1>5, <1>6, OrderSays
      <4>2. Word(s, b, "place") = i - 1 /\ Word(s, b, "in") = s.id
        BY <1>4, <1>5, <1>6, OrderSays
      <4> QED BY <1>9, <1>11, <1>13, <3>1, <4>1, <4>2
    <3>2. CASE d # b
      BY <1>1, <1>2, <1>3, <1>11, <1>13, <1>17, <2>1, <3>2 DEF Tracked, Held
    <3> QED BY <3>1, <3>2
  <2>7. \A c \in Columns : bookmark'[d][c] = bookmark[d][c] \/ c \in Says(r.say, d)
    <3>1. CASE d = b
      <4>1. Says(s, b) = {"place"} \cup (IF s.id = Root THEN {} ELSE {"in"})
        BY <1>4, <1>5, <1>6, OrderSays
      <4> QED BY <1>7, <1>9, <1>11, <1>13, <3>1, <4>1
    <3> QED BY <1>11, <3>1
  <2>8. \A c \in Columns : bookmark'[d][c] = bookmark[d][c] \/ Settles(r.say, d, c, bookmark'[d], copy[d].in)
    BY <2>6, <2>7 DEF Settles
  <2> QED BY <1>13, <1>17, <2>1, <2>3, <2>4, <2>5, <2>6, <2>8, Alone
<1>18. Followed'
  BY <1>2, <1>3, <1>11, <1>13, <1>16, <1>17, StepFollowed
<1> QED BY <1>13, <1>15, <1>16, <1>18, StepTyped DEF FeedInv

-----------------------------------------------------------------------------
\* Deletions of folders

LEMMA DeleteFolderKeeps ==
  ASSUME FeedInv, NEW w \in Writers, DeleteFolder(w)
  PROVE  FeedInv'
<1>1. PICK f \in LiveFolders \ {Inbox}, mode \in Modes :
        Goes(w, [pc |-> IF mode = "cascade_soft_delete" THEN "pop" ELSE "move", at |-> {},
                 say |-> [entity |-> "folder", id |-> f, mode |-> mode],
                 to |-> TargetParent(f, mode), todo |-> {f}, now |-> f])
  BY DEF DeleteFolder
<1>2. f \in Folders
  BY DEF LiveFolders, FoldersOf
<1>3. PICK to \in Folders : to = TargetParent(f, mode)
  BY <1>2, LibraryAssumption DEF TargetParent, FeedInv, FeedTypeOK, FolderRow
<1>4. PICK pc \in {"pop", "move"} : pc = IF mode = "cascade_soft_delete" THEN "pop" ELSE "move"
  OBVIOUS
<1>5. PICK r : r = [pc |-> pc, at |-> {}, say |-> [entity |-> "folder", id |-> f, mode |-> mode],
                    to |-> to, todo |-> {f}, now |-> f]
  OBVIOUS
<1>6. /\ r.pc = pc /\ r.say.mode = mode /\ r.at = {} /\ r \in Working /\ Goes(w, r)
  <2>1. r \in Deleting
    BY <1>2, <1>5 DEF Deleting, OfFolder
  <2> QED BY <1>1, <1>3, <1>4, <1>5, <2>1 DEF Working
<1>7. Shaped(r)
  BY <1>4, <1>6 DEF Shaped, Modes
<1>8. Starts(w) /\ UNCHANGED <<folder, bookmark, fresh, overlaid>> /\ writer[w].at = {}
  BY WriterTyped DEF DeleteFolder, library, Starts, FeedInv
<1>9. Turns(w, r)
  BY <1>6, <1>8 DEF Turns, Starts, Spares, FeedInv, FeedTypeOK
<1> QED BY <1>6, <1>7, <1>8, <1>9, NothingYet

LEMMA Onward ==
  ASSUME NEW r \in Deleting, r.pc \in {"lift", "pop", "empty", "drop", "top"},
         r.pc \in {"pop", "empty", "drop"} => r.say.mode = "cascade_soft_delete"
  PROVE  r \in Working /\ Shaped(r) /\ \A b \in Bookmarks \ r.at : Spares(r, b)
BY DEF Working, Shaped, Spares

\* No fresh id is what a folder has: bookmarks of it are not deleted.
LEMMA StepsOn ==
  ASSUME FeedInv, NEW w \in Writers, NEW r \in Working, Goes(w, r), GoesOn, writer[w].pc # "idle",
         folder' \in [Folders -> FolderRow], bookmark' \in [Bookmarks -> BookmarkRow],
         overlaid \subseteq overlaid', overlaid' \subseteq Bookmarks,
         \A b \in fresh : bookmark'[b] = bookmark[b], \A b \in fresh : Spares(r, b)
  PROVE  Turns(w, r)
BY DEF Turns, GoesOn

\* Steps of a deletion that leave the bookmarks.
LEMMA FolderOnly ==
  ASSUME FeedInv, NEW w \in Writers, NEW r \in Working, Shaped(r), Goes(w, r), GoesOn,
         writer[w].pc \notin {"idle", "write"}, r.pc # "write", r.at = writer[w].at, r.say = writer[w].say,
         \A b \in Bookmarks \ r.at : Spares(r, b),
         folder' \in [Folders -> FolderRow], UNCHANGED <<bookmark, overlaid>>
  PROVE  FeedInv'
<1>1. \A b \in fresh : Spares(r, b)
  BY DEF FeedInv, FeedTypeOK, Shapes, Newborn, Spares
<1>2. Turns(w, r)
  BY <1>1, StepsOn DEF FeedInv, FeedTypeOK
<1> QED BY <1>2, GoesOnFollowed

LEMMA MoveChildrenKeeps ==
  ASSUME FeedInv, NEW w \in Writers, MoveChildren(w)
  PROVE  FeedInv'
<1>1. writer[w].pc = "lift" /\ writer[w] \in Deleting /\ GoesOn /\ UNCHANGED <<bookmark, overlaid>>
  BY WriterTyped DEF MoveChildren, FeedInv
<1>2. PICK old \in Deleting : old = writer[w]
  BY <1>1
<1>3. PICK r : r = [old EXCEPT !.pc = "top"]
  OBVIOUS
<1>4. r \in Deleting /\ r.pc = "top" /\ r.at = old.at /\ r.say = old.say
  BY <1>3 DEF Deleting
<1>5. r \in Working /\ Shaped(r) /\ \A b \in Bookmarks \ r.at : Spares(r, b)
  BY <1>4, Onward
<1>6. Goes(w, r)
  BY <1>2, <1>3 DEF MoveChildren
<1>7. folder' \in [Folders -> FolderRow]
  <2>1. folder \in [Folders -> FolderRow]
    BY DEF FeedInv, FeedTypeOK
  <2>2. \A g \in Folders : [folder[g] EXCEPT !.up = old.to] \in FolderRow
    BY <2>1 DEF FolderRow, Deleting
  <2> QED BY <1>2, <2>1, <2>2 DEF MoveChildren
<1> QED BY <1>1, <1>2, <1>4, <1>5, <1>6, <1>7, FolderOnly

LEMMA CascadePopKeeps ==
  ASSUME FeedInv, NEW w \in Writers, CascadePop(w)
  PROVE  FeedInv'
<1>1. writer[w].pc = "pop" /\ writer[w] \in Deleting /\ GoesOn /\ UNCHANGED <<folder, bookmark, overlaid>>
  BY WriterTyped DEF CascadePop, FeedInv, library
<1>2. PICK old \in Deleting : old = writer[w]
  BY <1>1
<1>3. PICK f \in old.todo : Goes(w, [old EXCEPT !.pc = "empty", !.now = f, !.todo = (@ \ {f}) \cup LiveBelow(f)])
  BY <1>2 DEF CascadePop
<1>4. old.at \in SUBSET Bookmarks /\ old.todo \in SUBSET Folders /\ f \in Folders
  BY DEF Deleting
<1>5. PICK todo \in SUBSET Folders : todo = (old.todo \ {f}) \cup LiveBelow(f)
  BY <1>4 DEF LiveBelow
<1>6. PICK r : r = [old EXCEPT !.pc = "empty", !.now = f, !.todo = todo]
  OBVIOUS
<1>7. Goes(w, r)
  BY <1>3, <1>5, <1>6
<1>8. r \in Deleting /\ r.pc = "empty" /\ r.at = old.at /\ r.say = old.say
  BY <1>4, <1>6 DEF Deleting
<1>9. r \in Working /\ Shaped(r) /\ \A b \in Bookmarks \ r.at : Spares(r, b)
  <2>1. old.say.mode = "cascade_soft_delete"
    BY <1>1, <1>2 DEF FeedInv, Shapes, Shaped
  <2> QED BY <1>8, <2>1, Onward
<1>10. folder' \in [Folders -> FolderRow]
  BY <1>1 DEF FeedInv, FeedTypeOK
<1> QED BY <1>1, <1>2, <1>7, <1>8, <1>9, <1>10, FolderOnly

LEMMA BuriedTyped ==
  ASSUME FeedInv, NEW f \in Folders, Buried(f)
  PROVE  folder' \in [Folders -> FolderRow]
<1>1. folder \in [Folders -> FolderRow]
  BY DEF FeedInv, FeedTypeOK
<1>2. [folder[f] EXCEPT !.live = FALSE] \in FolderRow
  BY <1>1 DEF FolderRow
<1> QED BY <1>1, <1>2 DEF Buried

LEMMA CascadeFolderKeeps ==
  ASSUME FeedInv, NEW w \in Writers, CascadeFolder(w)
  PROVE  FeedInv'
<1>1. writer[w].pc = "drop" /\ writer[w] \in Deleting /\ GoesOn /\ UNCHANGED <<bookmark, overlaid>>
  BY WriterTyped DEF CascadeFolder, FeedInv
<1>2. PICK old \in Deleting : old = writer[w]
  BY <1>1
<1>3. old.now \in Folders /\ old.say.mode = "cascade_soft_delete"
  BY <1>1, <1>2 DEF Deleting, FeedInv, Shapes, Shaped
<1>4. PICK pc \in {"top", "pop"} : pc = Turn(old.todo)
  BY DEF Turn
<1>5. PICK r : r = [old EXCEPT !.pc = pc]
  OBVIOUS
<1>6. Goes(w, r)
  BY <1>2, <1>4, <1>5 DEF CascadeFolder
<1>7. r \in Deleting /\ r.pc = pc /\ r.at = old.at /\ r.say = old.say
  BY <1>5 DEF Deleting
<1>8. r \in Working /\ Shaped(r) /\ \A b \in Bookmarks \ r.at : Spares(r, b)
  BY <1>3, <1>7, Onward
<1>9. folder' \in [Folders -> FolderRow]
  BY <1>2, <1>3, BuriedTyped DEF CascadeFolder
<1> QED BY <1>1, <1>2, <1>6, <1>7, <1>8, <1>9, FolderOnly

LEMMA DeleteTopKeeps ==
  ASSUME FeedInv, NEW w \in Writers, DeleteTop(w)
  PROVE  FeedInv'
<1>1. writer[w].pc = "top" /\ writer[w] \in Deleting /\ GoesOn /\ UNCHANGED <<bookmark, overlaid>>
  BY WriterTyped DEF DeleteTop, FeedInv
<1>2. PICK old \in Deleting : old = writer[w]
  BY <1>1
<1>3. PICK s \in OfFolder, at \in SUBSET Bookmarks : s = old.say /\ at = old.at
  BY DEF Deleting
<1>4. PICK r : r = [pc |-> "log", at |-> at, say |-> s]
  OBVIOUS
<1>5. r.pc = "log" /\ r.at = at /\ r.say = s /\ r \in Working
  BY <1>4 DEF Logging, Working, Snapshots
<1>6. Goes(w, r)
  BY <1>2, <1>3, <1>4 DEF DeleteTop, Logs
<1>7. Shaped(r) /\ \A b \in Bookmarks \ r.at : Spares(r, b)
  BY <1>5, FolderSays DEF Shaped, Spares
<1>8. folder' \in [Folders -> FolderRow]
  <2>1. s.id \in Folders
    BY DEF OfFolder
  <2> QED BY <1>2, <1>3, <2>1, BuriedTyped DEF DeleteTop
<1> QED BY <1>1, <1>2, <1>3, <1>5, <1>6, <1>7, <1>8, FolderOnly

\* The steps that change the bookmarks of a folder: the row that is going to be logged says of
\* them only what the mode does.
LEMMA FolderSettles ==
  ASSUME FeedInv, NEW w \in Writers, NEW r \in Working, Shaped(r), Goes(w, r), GoesOn, UNCHANGED folder,
         writer[w].pc \notin {"idle", "write"}, r.pc # "write", NEW s \in OfFolder, s = writer[w].say, r.say = s,
         \A b \in Bookmarks \ r.at : Spares(r, b), r.at \cap fresh = {},
         NEW bs \in SUBSET Bookmarks, r.at = writer[w].at \cup bs, Touches(w, bs),
         bookmark' \in [Bookmarks -> BookmarkRow], \A b \in Bookmarks \ bs : bookmark'[b] = bookmark[b],
         \A b \in bs, c \in Columns :
           \/ bookmark'[b][c] = bookmark[b][c]
           \/ s.mode = "cascade_soft_delete" /\ c = "live"
           \/ s.mode \in {"move_to_parent", "move_to_inbox"} /\ c = "in" /\ bookmark[b].in = s.id
  PROVE  FeedInv'
<1>1. \A b \in fresh : Spares(r, b) /\ bookmark'[b] = bookmark[b]
  BY DEF FeedInv, FeedTypeOK
<1>2. overlaid \subseteq overlaid' /\ overlaid' \subseteq Bookmarks /\ folder' \in [Folders -> FolderRow]
  BY TouchesTyped DEF FeedInv, FeedTypeOK
<1>3. Turns(w, r)
  BY <1>1, <1>2, StepsOn
<1>4. ASSUME NEW b \in Bookmarks, b \in r.at, b \notin overlaid' PROVE Tracked(b)'
  <2>1. Tracked(b)
    BY <1>2, <1>4 DEF FeedInv, Followed
  <2>2. \A v \in Writers \ {w} : b \notin writer[v].at
    <3>1. CASE b \in bs
      BY <1>4, <3>1, Untouched
    <3>2. CASE b \notin bs
      BY <1>4, <2>1, <3>2 DEF Tracked, OneAt
    <3> QED BY <3>1, <3>2
  <2>3. writer'[w] = r /\ \A v \in Writers \ {w} : writer'[v] = writer[v] /\ b \notin writer[v].at
    BY <2>2, GoesTyped DEF FeedInv
  <2>4. UNCHANGED <<copy, doubt>>
    BY DEF GoesOn, told
  <2>5. s.entity = "folder" /\ \A c \in Says(r.say, b) : Word(r.say, b, c) = bookmark'[b][c]
    BY FolderSays
  <2>6. ASSUME NEW c \in Columns
        PROVE  \/ bookmark'[b][c] = bookmark[b][c] \/ c \in doubt[b]
               \/ Settles(r.say, b, c, bookmark'[b], copy[b].in)
    <3>1. CASE s.mode = "cascade_soft_delete" /\ c = "live"
      BY <2>5, <3>1 DEF Settles
    <3>2. CASE s.mode \in {"move_to_parent", "move_to_inbox"} /\ c = "in" /\ bookmark[b].in = s.id
      <4>1. Right(b, c) \/ Settles(s, b, c, bookmark[b], copy[b].in)
        BY <2>1, <2>2 DEF Tracked, Covered, Settling
      <4>2. CASE Right(b, c)
        BY <2>5, <3>2, <4>2 DEF Right, Settles
      <4>3. CASE Settles(s, b, c, bookmark[b], copy[b].in)
        BY <2>5, <3>2, <4>3, FolderSays DEF Settles
      <4> QED BY <4>1, <4>2, <4>3
    <3> QED BY <3>1, <3>2
  <2> QED BY <1>4, <2>1, <2>3, <2>4, <2>5, <2>6, Alone
<1>5. Followed'
  BY <1>3, <1>4, StepFollowed
<1> QED BY <1>3, <1>5, StepTyped DEF FeedInv

LEMMA MoveBookmarksKeeps ==
  ASSUME FeedInv, NEW w \in Writers, MoveBookmarks(w)
  PROVE  FeedInv'
<1>1. /\ writer[w].pc = "move" /\ writer[w] \in Deleting /\ GoesOn /\ UNCHANGED folder
      /\ writer[w].say.mode \in {"move_to_parent", "move_to_inbox"}
  BY WriterTyped DEF MoveBookmarks, FeedInv, Shapes, Shaped
<1>2. PICK old \in Deleting : old = writer[w]
  BY <1>1
<1>3. PICK s \in OfFolder, at \in SUBSET Bookmarks, to \in Folders : s = old.say /\ at = old.at /\ to = old.to
  BY DEF Deleting
<1>4. PICK bs \in SUBSET Bookmarks : bs = LiveIn(s.id)
  BY DEF LiveIn
<1>5. /\ bookmark' = [b \in Bookmarks |-> IF b \in bs THEN [bookmark[b] EXCEPT !.in = to] ELSE bookmark[b]]
      /\ Goes(w, [old EXCEPT !.pc = "lift", !.at = @ \cup bs]) /\ Touches(w, bs)
  BY <1>2, <1>3, <1>4 DEF MoveBookmarks
<1>6. PICK r : r = [old EXCEPT !.pc = "lift", !.at = @ \cup bs]
  OBVIOUS
<1>7. r \in Deleting /\ r.pc = "lift" /\ r.at = at \cup bs /\ r.say = s
  BY <1>3, <1>6 DEF Deleting
<1>8. r \in Working /\ Shaped(r) /\ \A b \in Bookmarks \ r.at : Spares(r, b)
  BY <1>7, Onward
<1>9. /\ bookmark' \in [Bookmarks -> BookmarkRow] /\ \A b \in Bookmarks \ bs : bookmark'[b] = bookmark[b]
      /\ \A b \in bs, c \in Columns : bookmark'[b][c] = bookmark[b][c] \/ (c = "in" /\ bookmark[b].in = s.id)
  <2>1. \A b \in Bookmarks : bookmark[b] \in BookmarkRow
    BY DEF FeedInv, FeedTypeOK
  <2>2. \A b \in Bookmarks : [bookmark[b] EXCEPT !.in = to] \in BookmarkRow
    BY <2>1 DEF BookmarkRow
  <2>3. \A b \in Bookmarks, c \in Columns : [bookmark[b] EXCEPT !.in = to][c] = bookmark[b][c] \/ c = "in"
    BY <2>1 DEF BookmarkRow, Columns
  <2>4. \A b \in bs : bookmark[b].in = s.id
    BY <1>4 DEF LiveIn
  <2> QED BY <1>5, <2>1, <2>2, <2>3, <2>4
<1>10. r.at \cap fresh = {}
  BY <1>2, <1>3, <1>4, <1>7 DEF LiveIn, FeedInv, Shapes, Newborn, Spares
<1>11. Goes(w, r) /\ r.at = writer[w].at \cup bs /\ s = writer[w].say
  BY <1>2, <1>3, <1>5, <1>6, <1>7
<1>12. /\ r.pc # "write" /\ writer[w].pc \notin {"idle", "write"} /\ r.say = s /\ Touches(w, bs)
       /\ s.mode \in {"move_to_parent", "move_to_inbox"}
  BY <1>1, <1>2, <1>3, <1>5, <1>7
<1> QED BY <1>1, <1>8, <1>9, <1>10, <1>11, <1>12, FolderSettles

LEMMA CascadeBookmarksKeeps ==
  ASSUME FeedInv, NEW w \in Writers, CascadeBookmarks(w)
  PROVE  FeedInv'
<1>1. /\ writer[w].pc = "empty" /\ writer[w] \in Deleting /\ GoesOn /\ UNCHANGED folder
      /\ writer[w].say.mode = "cascade_soft_delete"
  BY WriterTyped DEF CascadeBookmarks, FeedInv, Shapes, Shaped
<1>2. PICK old \in Deleting : old = writer[w]
  BY <1>1
<1>3. PICK s \in OfFolder, at \in SUBSET Bookmarks : s = old.say /\ at = old.at
  BY DEF Deleting
<1>4. PICK bs \in SUBSET Bookmarks : bs = LiveIn(old.now)
  BY DEF LiveIn
<1>5. PICK pc \in {"top", "pop", "drop"} : pc = IF old.now = s.id THEN Turn(old.todo) ELSE "drop"
  BY DEF Turn
<1>6. /\ bookmark' = [b \in Bookmarks |-> IF b \in bs THEN [bookmark[b] EXCEPT !.live = FALSE] ELSE bookmark[b]]
      /\ Goes(w, [old EXCEPT !.pc = pc, !.at = @ \cup bs]) /\ Touches(w, bs)
  BY <1>2, <1>3, <1>4, <1>5 DEF CascadeBookmarks
<1>7. PICK r : r = [old EXCEPT !.pc = pc, !.at = @ \cup bs]
  OBVIOUS
<1>8. r \in Deleting /\ r.pc = pc /\ r.at = at \cup bs /\ r.say = s
  BY <1>3, <1>7 DEF Deleting
<1>9. r \in Working /\ Shaped(r) /\ \A b \in Bookmarks \ r.at : Spares(r, b)
  BY <1>1, <1>2, <1>3, <1>8, Onward
<1>10. /\ bookmark' \in [Bookmarks -> BookmarkRow] /\ \A b \in Bookmarks \ bs : bookmark'[b] = bookmark[b]
       /\ \A b \in bs, c \in Columns : bookmark'[b][c] = bookmark[b][c] \/ c = "live"
  <2>1. \A b \in Bookmarks : bookmark[b] \in BookmarkRow
    BY DEF FeedInv, FeedTypeOK
  <2>2. \A b \in Bookmarks : [bookmark[b] EXCEPT !.live = FALSE] \in BookmarkRow
    BY <2>1 DEF BookmarkRow
  <2>3. \A b \in Bookmarks, c \in Columns : [bookmark[b] EXCEPT !.live = FALSE][c] = bookmark[b][c] \/ c = "live"
    BY <2>1 DEF BookmarkRow, Columns
  <2> QED BY <1>6, <2>1, <2>2, <2>3
<1>11. r.at \cap fresh = {}
  BY <1>2, <1>3, <1>4, <1>8 DEF LiveIn, FeedInv, Shapes, Newborn, Spares
<1>12. Goes(w, r) /\ r.at = writer[w].at \cup bs /\ s = writer[w].say /\ s.mode = "cascade_soft_delete"
  BY <1>1, <1>2, <1>3, <1>6, <1>7, <1>8
<1>13. r.pc # "write" /\ writer[w].pc \notin {"idle", "write"} /\ r.say = s /\ Touches(w, bs)
  BY <1>1, <1>5, <1>6, <1>8
<1> QED BY <1>1, <1>9, <1>10, <1>11, <1>12, <1>13, FolderSettles

-----------------------------------------------------------------------------
\* The end of a request, and the client of the feed

LEMMA EndsTyped ==
  ASSUME FeedInv, NEW w \in Writers, writer[w].pc # "idle", Goes(w, NoWriter), UNCHANGED <<library, fresh, writes, feed>>,
         overlaid' \subseteq Bookmarks, op' \in Seq(Snapshots), Len(op') \in {Len(op), Len(op) + 1},
         DOMAIN copy' = Bookmarks, doubt' \in [Bookmarks -> SUBSET Columns],
         \A b \in fresh : "vis" \in doubt'[b]
  PROVE  (FeedTypeOK /\ InBudget /\ FeedComplete /\ Shapes)'
<1>0. FeedTypeOK /\ InBudget /\ FeedComplete /\ Shapes /\ UNCHANGED <<folder, bookmark>>
  BY DEF FeedInv, library
<1>1. /\ writer' \in [Writers -> {NoWriter} \cup Writing \cup Placing \cup Deleting \cup Logging]
      /\ writer'[w] = NoWriter /\ \A v \in Writers \ {w} : writer'[v] = writer[v]
  BY <1>0, GoesTyped
<1>2. Cardinality(AtWork') = Cardinality(AtWork) - 1
  BY <1>1, AtWorkLess DEF NoWriter
<1>3. Cardinality(AtWork') \in Nat
  <2>1. AtWork' \subseteq Writers
    BY DEF AtWork
  <2> QED BY <2>1, FeedAssumption, FS_Subset, FS_CardinalityType
<1>4. Len(op) \in Nat /\ writes \in Nat /\ Cardinality(AtWork) \in Nat
  BY <1>0, AtWorkFinite, FeedAssumption DEF FeedTypeOK
<1>5. InBudget' /\ Len(op') <= writes'
  BY <1>0, <1>2, <1>3, <1>4 DEF InBudget
<1>6. feed' \in [cursor : 0..Len(op'), got : SUBSET (1..Len(op'))]
  BY <1>0, <1>4 DEF FeedTypeOK
<1>7. FeedTypeOK'
  BY <1>0, <1>1, <1>5, <1>6 DEF FeedTypeOK
<1>8. FeedComplete'
  BY <1>0 DEF FeedComplete
<1>9. Shaped(NoWriter) /\ \A b \in Bookmarks : Spares(NoWriter, b)
  BY DEF Shaped, Spares, NoWriter
<1>10. \A v \in Writers : Shaped(writer'[v])
  BY <1>0, <1>1, <1>9 DEF Shapes
<1>11. \A b \in fresh : Newborn(b)'
  <2> SUFFICES ASSUME NEW b \in fresh PROVE Newborn(b)'
    OBVIOUS
  <2>1. b \in Bookmarks /\ Newborn(b)
    BY <1>0 DEF FeedTypeOK, Shapes
  <2> QED BY <1>0, <1>1, <1>9, <2>1 DEF Newborn
<1>12. Shapes'
  BY <1>10, <1>11 DEF Shapes
<1> QED BY <1>5, <1>7, <1>8, <1>12

\* The row that is logged: what it says of the bookmarks that the request was at is so, and it
\* says nothing of others.
LEMMA WriteOpKeeps ==
  ASSUME FeedInv, NEW w \in Writers, WriteOp(w)
  PROVE  FeedInv'
<1>1. writer[w].pc = "log" /\ writer[w] \in Logging /\ Shaped(writer[w]) /\ Goes(w, NoWriter)
  BY WriterTyped DEF WriteOp, FeedInv, Shapes
<1>2. PICK s \in Snapshots, at \in SUBSET Bookmarks : s = writer[w].say /\ at = writer[w].at
  BY <1>1 DEF Logging
<1>3. /\ op' = Append(op, s)
      /\ copy' = [b \in Bookmarks |-> [c \in Columns |-> IF c \in Says(s, b) THEN Word(s, b, c) ELSE copy[b][c]]]
      /\ doubt' = [b \in Bookmarks |-> (doubt[b] \ Says(s, b)) \cup Hints(s, b)]
  BY <1>2 DEF WriteOp, Snapshot
<1>4. UNCHANGED <<library, fresh, writes, feed, overlaid>> /\ bookmark' = bookmark
  BY DEF WriteOp, library
<1>5. \A b \in Bookmarks : b \in at \/ Says(s, b) = {}
  BY <1>1, <1>2 DEF Shaped
<1>6. op' \in Seq(Snapshots) /\ Len(op') = Len(op) + 1
  BY <1>3 DEF FeedInv, FeedTypeOK
<1>7. DOMAIN copy' = Bookmarks /\ doubt' \in [Bookmarks -> SUBSET Columns]
  <2>1. \A b \in Bookmarks : Hints(s, b) \subseteq Columns /\ doubt[b] \subseteq Columns
    BY DEF Hints, FeedInv, FeedTypeOK
  <2> QED BY <1>3, <2>1
<1>8. \A b \in fresh : "vis" \in doubt'[b]
  <2> SUFFICES ASSUME NEW b \in fresh PROVE "vis" \in doubt'[b]
    OBVIOUS
  <2>1. b \in Bookmarks /\ Newborn(b)
    BY DEF FeedInv, FeedTypeOK, Shapes
  <2>2. b \notin at
    BY <1>2, <2>1 DEF Newborn, Spares
  <2> QED BY <1>3, <1>5, <2>1, <2>2 DEF Newborn
<1>9. overlaid' \subseteq Bookmarks
  BY <1>4 DEF FeedInv, FeedTypeOK
<1>10. (FeedTypeOK /\ InBudget /\ FeedComplete /\ Shapes)'
  BY <1>1, <1>4, <1>6, <1>7, <1>8, <1>9, EndsTyped
<1>11. writer'[w] = NoWriter /\ \A v \in Writers \ {w} : writer'[v] = writer[v]
  BY <1>1, GoesTyped DEF FeedInv
<1>12. NoWriter.at = {}
  BY DEF NoWriter
<1>13. ASSUME NEW b \in Bookmarks \ overlaid PROVE Tracked(b)'
  <2>1. Tracked(b)
    BY <1>13 DEF FeedInv, Followed
  <2>2. CASE b \notin at
    <3>1. Says(s, b) = {}
      BY <1>5, <2>2
    <3>2. \A c \in Columns : copy'[b][c] = copy[b][c]
      BY <1>3, <3>1
    <3>3. doubt[b] \subseteq doubt'[b]
      BY <1>3, <3>1
    <3>4. b \notin writer[w].at /\ b \notin writer'[w].at /\ bookmark'[b] = bookmark[b]
      BY <1>2, <1>4, <1>11, <1>12, <2>2
    <3> QED BY <1>11, <2>1, <3>2, <3>3, <3>4, Apart
  <2>3. CASE b \in at
    <3>1. \A v \in Writers \ {w} : b \notin writer[v].at
      BY <1>2, <2>1, <2>3 DEF Tracked, OneAt
    <3>2. \A v \in Writers : b \notin writer'[v].at
      BY <1>11, <1>12, <3>1
    <3>3. OneAt(b)' /\ Held(b)'
      BY <3>2 DEF OneAt, Held
    <3>4. \A c \in Says(s, b) : Word(s, b, c) = bookmark[b][c]
      BY <1>1, <1>2, <2>1, <2>3 DEF Tracked, Held
    <3>5. ASSUME NEW c \in Columns PROVE Right(b, c)'
      <4>1. CASE c \in Says(s, b)
        BY <1>3, <1>4, <3>4, <4>1 DEF Right
      <4>2. CASE c \notin Says(s, b)
        <5>1. CASE Right(b, c)
          BY <1>3, <1>4, <4>2, <5>1 DEF Right
        <5>2. CASE ~Right(b, c)
          <6>1. Settles(s, b, c, bookmark[b], copy[b].in)
            BY <1>2, <2>1, <3>1, <5>2 DEF Tracked, Covered, Settling
          <6>2. c \in Hints(s, b)
            BY <4>2, <6>1 DEF Settles, Hints
          <6> QED BY <1>3, <6>2 DEF Right
        <5> QED BY <5>1, <5>2
      <4> QED BY <4>1, <4>2
    <3> QED BY <3>3, <3>5 DEF Tracked, Covered
  <2> QED BY <2>2, <2>3
<1>14. Followed'
  BY <1>4, <1>13 DEF Followed
<1> QED BY <1>10, <1>14 DEF FeedInv

LEMMA KilledKeeps ==
  ASSUME FeedInv, NEW w \in Writers, Killed(w)
  PROVE  FeedInv'
<1>1. writer[w].pc # "idle" /\ Goes(w, NoWriter) /\ UNCHANGED <<library, bookmark, fresh, op, writes, feed, copy, doubt>>
  BY DEF Killed, GoesOn, library, told
<1>2. writer[w].at \subseteq Bookmarks
  BY WriterTyped DEF FeedInv
<1>3. /\ overlaid \subseteq overlaid' /\ overlaid' \subseteq Bookmarks
      /\ \A b \in writer[w].at : b \in overlaid' \/ writer[w].pc = "write"
  BY <1>2 DEF Killed, FeedInv, FeedTypeOK
<1>4. op' \in Seq(Snapshots) /\ Len(op') = Len(op) /\ DOMAIN copy' = Bookmarks /\ doubt' \in [Bookmarks -> SUBSET Columns]
  BY <1>1 DEF FeedInv, FeedTypeOK
<1>5. \A b \in fresh : "vis" \in doubt'[b]
  BY <1>1 DEF FeedInv, Shapes, Newborn
<1>6. (FeedTypeOK /\ InBudget /\ FeedComplete /\ Shapes)'
  BY <1>1, <1>3, <1>4, <1>5, EndsTyped
<1>7. writer'[w] = NoWriter /\ NoWriter.at = {} /\ \A v \in Writers \ {w} : writer'[v] = writer[v]
  BY <1>1, GoesTyped DEF FeedInv, NoWriter
<1>8. ASSUME NEW b \in Bookmarks \ overlaid' PROVE Tracked(b)'
  <2>1. Tracked(b)
    BY <1>3, <1>8 DEF FeedInv, Followed
  <2>2. CASE b \notin writer[w].at
    BY <1>1, <1>7, <2>1, <2>2, Apart
  <2>3. CASE b \in writer[w].at
    <3>1. writer[w].pc = "write"
      BY <1>3, <1>8, <2>3
    <3>2. \A v \in Writers : b \notin writer'[v].at
      BY <1>7, <2>1, <2>3 DEF Tracked, OneAt
    <3>3. OneAt(b)' /\ Held(b)'
      BY <3>2 DEF OneAt, Held
    <3>4. \A c \in Columns : Right(b, c)
      BY <2>1, <2>3, <3>1 DEF Tracked, OneAt, Covered, Settling
    <3>5. Covered(b)'
      BY <1>1, <3>4 DEF Covered, Right
    <3> QED BY <3>3, <3>5 DEF Tracked
  <2> QED BY <2>2, <2>3
<1>9. Followed'
  BY <1>8 DEF Followed
<1> QED BY <1>6, <1>9 DEF FeedInv

\* A poll takes the rows after the cursor up to the end of its page, and the new cursor is
\* the last of them.
LEMMA PollTyped ==
  ASSUME FeedTypeOK, InBudget, FeedComplete, Poll
  PROVE  (FeedTypeOK /\ InBudget /\ FeedComplete)'
<1> DEFINE rows == {n \in 1..Len(op) : n > feed.cursor /\ n <= feed.cursor + FeedSize}
<1>1. PICK len \in Nat, k \in Nat : len = Len(op) /\ k = feed.cursor /\ k <= len
  BY DEF FeedTypeOK
<1>2. PICK m \in 0..len : m = IF k + FeedSize <= len THEN k + FeedSize ELSE len
  BY FeedAssumption
<1>3. m >= k /\ rows = k + 1 .. m
  BY <1>1, <1>2, FeedAssumption
<1>4. NextCursor(rows) = m
  <2>1. CASE rows = {}
    <3>1. m = k
      <4>1. m > k => k + 1 \in rows
        BY <1>2, <1>3
      <4> QED BY <1>2, <1>3, <2>1, <4>1
    <3> QED BY <1>1, <2>1, <3>1 DEF NextCursor
  <2>2. CASE rows # {}
    <3>1. m \in rows /\ \A n \in rows : n <= m
      BY <1>1, <1>2, <1>3, <2>2
    <3>2. \A x \in rows : (\A n \in rows : n <= x) => x = m
      BY <1>1, <1>2, <1>3, <3>1
    <3>3. NextCursor(rows) = CHOOSE n \in rows : \A x \in rows : x <= n
      BY <2>2 DEF NextCursor
    <3>4. (CHOOSE n \in rows : \A x \in rows : x <= n) = m
      <4> HIDE DEF rows
      <4> QED BY <3>1, <3>2
    <3> QED BY <3>3, <3>4
  <2> QED BY <2>1, <2>2
<1>5. feed' = [cursor |-> m, got |-> feed.got \cup rows]
  BY <1>4 DEF Poll
<1>6. feed.got = 1..k
  BY <1>1 DEF FeedComplete
<1>7. feed.got \cup rows = 1..m
  BY <1>1, <1>2, <1>3, <1>6
<1>8. UNCHANGED <<folder, bookmark, fresh, writer, op, writes, copy, doubt, overlaid>>
  BY DEF Poll, library, told
<1>9. feed' = [cursor |-> m, got |-> 1..m] /\ 1..m \subseteq 1..len
  <2>1. 1..m \subseteq 1..len
    BY <1>2
  <2>2. feed' = [cursor |-> m, got |-> 1..m]
    <3> HIDE DEF rows
    <3> QED BY <1>5, <1>7
  <2> QED BY <2>1, <2>2
<1>10. FeedComplete'
  BY <1>9 DEF FeedComplete
<1>11. feed' \in [cursor : 0..Len(op), got : SUBSET (1..Len(op))]
  BY <1>1, <1>2, <1>9
<1>12. FeedTypeOK'
  BY <1>8, <1>11 DEF FeedTypeOK
<1>13. InBudget'
  BY <1>8 DEF InBudget, AtWork
<1> QED BY <1>10, <1>12, <1>13

LEMMA NothingWritten ==
  ASSUME FeedInv, UNCHANGED <<bookmark, fresh, writer, op, copy, doubt, overlaid>>
  PROVE  Shapes' /\ Followed'
<1>1. Shapes'
  BY DEF FeedInv, Shapes, Newborn
<1>2. \A b \in Bookmarks : Tracked(b) => Tracked(b)'
  BY DEF Tracked, OneAt, Held, Covered, Right, Settling
<1>3. Followed'
  BY <1>2 DEF FeedInv, Followed
<1> QED BY <1>1, <1>3

-----------------------------------------------------------------------------
LEMMA FolderStepKeeps ==
  ASSUME FeedInv, NEW w \in Writers, FolderStep(w)
  PROVE  FeedInv'
BY DeleteFolderKeeps, MoveBookmarksKeeps, MoveChildrenKeeps, CascadePopKeeps, CascadeBookmarksKeeps,
   CascadeFolderKeeps, DeleteTopKeeps DEF FolderStep

LEMMA WriterKeeps ==
  ASSUME FeedInv, NEW w \in Writers, WriterStep(w)
  PROVE  FeedInv'
<1>1. CASE ReadBookmark(w) \/ BatchBookmark(w) \/ MergeBookmark(w) \/ WriteBookmark(w)
  BY <1>1, ReadKeeps, BatchKeeps, MergeKeeps, WriteKeeps
<1>2. CASE CreateBookmark(w) \/ DeleteBookmark(w) \/ Reorder(w) \/ PlaceBookmark(w)
  BY <1>2, CreateKeeps, DeleteKeeps, ReorderKeeps, PlaceKeeps
<1>3. CASE EditFolder(w) \/ FolderStep(w) \/ WriteOp(w) \/ Killed(w)
  BY <1>3, EditFolderKeeps, FolderStepKeeps, WriteOpKeeps, KilledKeeps
<1> QED BY <1>1, <1>2, <1>3 DEF WriterStep

LEMMA FeedStep == FeedInv /\ [FeedNext]_feedVars => FeedInv'
<1> SUFFICES ASSUME FeedInv, [FeedNext]_feedVars PROVE FeedInv'
  OBVIOUS
<1>1. CASE \E w \in Writers : WriterStep(w)
  BY <1>1, WriterKeeps
<1>2. CASE Poll
  <2>1. UNCHANGED <<bookmark, fresh, writer, op, copy, doubt, overlaid>>
    BY <1>2 DEF Poll, library, told
  <2>2. FeedTypeOK /\ InBudget /\ FeedComplete
    BY DEF FeedInv
  <2> QED BY <1>2, <2>1, <2>2, PollTyped, NothingWritten DEF FeedInv
<1>3. CASE UNCHANGED feedVars
  <2>1. UNCHANGED <<folder, bookmark, fresh, writer, op, writes, feed, copy, doubt, overlaid>>
    BY <1>3 DEF feedVars, library, told
  <2>2. FeedTypeOK' /\ InBudget' /\ FeedComplete'
    BY <2>1 DEF FeedInv, FeedTypeOK, InBudget, AtWork, FeedComplete
  <2> QED BY <2>1, <2>2, NothingWritten DEF FeedInv
<1> QED BY <1>1, <1>2, <1>3 DEF FeedNext

LEMMA AlwaysFeedInv == FeedSpec => []FeedInv
BY FeedStarts, FeedStep, PTL DEF FeedSpec

\* Rows, requests, the log and the client's cursor have their types, and no more rows are
\* logged than requests were sent.
THEOREM FeedTypeCorrect == FeedSpec => []FeedTypeOK
<1>1. FeedInv => FeedTypeOK
  BY DEF FeedInv
<1> QED BY <1>1, AlwaysFeedInv, PTL

\* A client of GET /changes has every row up to its cursor. And whoever read the bookmarks at
\* first and took every row of op_logs since for what it says knows each bookmark as it is,
\* whatever requests create, PATCH, batch, import, reorder and delete bookmarks and edit and
\* delete folders: but for the columns of which a row said only that they may be others, and
\* for bookmarks at which two requests overlapped, or one was stopped between its change and
\* its row.
THEOREM FeedIsSound == FeedSpec => []FeedSound
<1>1. FeedInv => FeedSound
  <2> SUFFICES ASSUME FeedInv PROVE FeedTruthful
    BY DEF FeedInv, FeedSound
  <2> QED BY DEF FeedInv, Followed, Tracked, Covered, Right, Settling, FeedTruthful
<1> QED BY <1>1, AlwaysFeedInv, PTL
=============================================================================
