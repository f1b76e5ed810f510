------------------------------- MODULE WebHome --------------------------------
(***************************************************************************)
(* The page (PublicHome) and its session (AuthProvider): it sends requests *)
(* to the Worker and takes their answers in any order.  What a page shows  *)
(* is the library as of some answer; the answers are not numbered, so an   *)
(* old one may replace a new one.                                          *)
(*                                                                         *)
(* A change of state and the effects that React runs after it are one      *)
(* step, and the three requests of a reload are one.                       *)
(***************************************************************************)
EXTENDS WorkerAuth

CONSTANTS MaxActs     \* what the visitor does: clicks, logins, drags

ASSUME ActsAssumption == MaxActs \in Nat

VARIABLES
  page,   \* token and user of AuthProvider, and what is shown
  sent,   \* requests of the page so far
  acts,   \* what the visitor has done so far
  older   \* history: an old picture has replaced a newer one

vars == <<worker, ghosts, net, page, sent, acts, older>>

\* must_change_password of the user, as far as the page knows it
Musts == {"unknown", "yes", "no"}
Must(b) == IF b THEN "yes" ELSE "no"

Nothing == [kind |-> "none", value |-> 0, of |-> 0, preview |-> FALSE]
Picture(kind, value, n) == [kind |-> kind, value |-> value, of |-> n, preview |-> FALSE]
NoDrag == [on |-> FALSE, shown |-> Nothing]
Pictures == [kind : {"none", "public", "home"}, value : Nat, of : Nat, preview : BOOLEAN]

TypeOK ==
  /\ users.there \in BOOLEAN /\ users.must \in BOOLEAN /\ users.pw \in Passwords \cup {NoPassword}
  /\ {inbox, setting, overlapped} \subseteq BOOLEAN /\ data \in Nat /\ valid \subseteq Tokens
  /\ \A r \in net : /\ r.route \in Routes /\ r.token \in Tokens \cup {NoToken} /\ r.n \in 1..sent
                    /\ r.pc \in Bootstrapping \cup {"sent", "update", "answered"}
  /\ \A q, r \in net : q.n = r.n => q = r
  /\ page.token \in Tokens \cup {NoToken} /\ page.must \in Musts
  /\ page.shown \in Pictures /\ page.drag.shown \in Pictures
  /\ page.shown.of <= page.asked /\ page.asked <= sent
  /\ acts <= MaxActs /\ kills <= MaxKills /\ changed \in Passwords \cup {NoPassword}

Mounted(token) ==
  [token |-> token, must |-> "unknown", shown |-> Nothing, asked |-> 1, drag |-> NoDrag]

\* What the page loads: /auth/me if there is a token, and the library.
Init ==
  /\ \/ users = NoUser /\ inbox = FALSE /\ setting = FALSE
     \/ users \in {Row(TRUE, FirstPassword), Row(FALSE, FirstPassword)} /\ inbox = TRUE /\ setting = TRUE
  /\ data = 0 /\ kills = 0 /\ changed = NoPassword /\ overlapped = FALSE /\ acts = 0
  /\ valid \in {Tokens, {"issued"}} /\ older = FALSE
  /\ \E token \in {"stored", NoToken} :
       /\ users = NoUser => token = NoToken
       /\ token = NoToken => valid = Tokens
       /\ page = Mounted(token)
       /\ IF token = NoToken
          THEN net = {Request(1, "public", token, NoBody)} /\ sent = 1
          ELSE net = {Request(1, "home", token, NoBody), Request(2, "me", token, NoBody)} /\ sent = 2

-----------------------------------------------------------------------------
\* Reloads

RouteOf(p) == IF p.token = NoToken THEN "public" ELSE "home"

\* reload depends on the token and on must_change_password and runs whenever it is new; the
\* end of a forced change asks for it once more.
Reloads_Token(old, new) == IF old.token # new.token THEN 1 ELSE 0
Forced(p) == p.token # NoToken /\ p.must = "yes"
Reloads(old, new) ==
  (IF old.token # new.token \/ old.must # new.must THEN 1 ELSE 0)
  + (IF Forced(old) /\ ~Forced(new) /\ new.token # NoToken THEN 1 ELSE 0)

\* The page becomes p, gone are the requests that are answered, and others are sent: those
\* of the effects and, of a handler that goes on, the route more.
Becomes(p, gone, more) ==
  LET k == Reloads(page, p)
      all == k + Cardinality(more)
      Route(i) == IF i <= k THEN RouteOf(p) ELSE CHOOSE route \in more : TRUE
  IN /\ net' = (net \ gone) \cup {Request(sent + i, Route(i), p.token, NoBody) : i \in 1..all}
     /\ sent' = sent + all
     /\ page' = IF all = 0 THEN p ELSE [p EXCEPT !.asked = sent + all]

LoggedOut(p) == [p EXCEPT !.token = NoToken, !.must = "unknown"]
\* onUnauthorized: whatever token the request had.
After401(r) == IF r.answer.status = 401 THEN LoggedOut(page) ELSE page

Answered(route) == {r \in net : r.pc = "answered" /\ r.route = route}

TakeLibrary ==
  /\ \E r \in Answered("public") \cup Answered("home") :
       Becomes(IF r.answer.status = 200
               THEN [page EXCEPT !.shown = Picture(r.route, r.answer.value, r.n)] ELSE After401(r),
               {r}, {})
  /\ older' = (older \/ page'.shown.of < page.shown.of)
  /\ UNCHANGED <<worker, ghosts, acts>>

\* refreshMe: any failure logs out.
TakeMe ==
  /\ \E r \in Answered("me") :
       Becomes(IF r.answer.status = 200 THEN [page EXCEPT !.must = Must(r.answer.value)] ELSE LoggedOut(page),
               {r}, {})
  /\ UNCHANGED <<worker, ghosts, acts, older>>

TakeLogin ==
  /\ \E r \in Answered("login") :
       Becomes(IF r.answer.status = 200
               THEN [page EXCEPT !.token = "issued", !.must = Must(r.answer.value)] ELSE After401(r),
               {r}, {})
  /\ UNCHANGED <<worker, ghosts, acts, older>>

TakeCredentials ==
  /\ \E r \in Answered("credentials") :
       Becomes(IF r.answer.status = 200 THEN [page EXCEPT !.must = Must(r.answer.value)] ELSE After401(r),
               {r}, {})
  /\ UNCHANGED <<worker, ghosts, acts, older>>

\* await api.patch, then await reload in any case: the reload of the time of the click,
\* which was one with a token.
ReloadAfter_Ok(r) == IF r.answer.status = 200 THEN {"home"} ELSE {}
ReloadAfter(r) == {"home"}
TakeEdit ==
  /\ \E r \in Answered("edit") : Becomes(After401(r), {r}, ReloadAfter(r))
  /\ UNCHANGED <<worker, ghosts, acts, older>>

-----------------------------------------------------------------------------
\* The visitor

Acts == acts < MaxActs /\ acts' = acts + 1
Sends(route, body) ==
  /\ net' = net \cup {Request(sent + 1, route, page.token, body)}
  /\ sent' = sent + 1

\* The button is disabled while the answer is awaited.
SubmitLogin ==
  /\ Acts /\ page.token = NoToken /\ \A r \in net : r.route # "login"
  /\ \E pw \in Passwords : Sends("login", [pw |-> pw, new |-> NoPassword])
  /\ UNCHANGED <<worker, ghosts, page, older>>

Logout ==
  /\ Acts /\ page.token # NoToken
  /\ Becomes(LoggedOut(page), {}, {})
  /\ UNCHANGED <<worker, ghosts, older>>

\* This button is not.  The new password is required in a forced change alone, and may be
\* the current one.
SubmitCredentials ==
  /\ Acts /\ page.token # NoToken
  /\ \E pw \in Passwords, new \in Passwords \cup {NoPassword} :
       /\ Forced(page) => new # NoPassword
       /\ Sends("credentials", [pw |-> pw, new |-> new])
  /\ UNCHANGED <<worker, ghosts, page, older>>

ToggleArchived ==
  /\ Acts /\ page.token # NoToken /\ ~Forced(page) /\ page.shown.kind = "home"
  /\ Sends("edit", NoBody)
  /\ UNCHANGED <<worker, ghosts, page, older>>

\* beginDragSnapshot, then the previews
Drag ==
  /\ Acts /\ page.token # NoToken /\ page.shown.kind = "home" /\ ~page.drag.on
  /\ page' = [page EXCEPT !.drag = [on |-> TRUE, shown |-> page.shown], !.shown.preview = TRUE]
  /\ UNCHANGED <<worker, ghosts, net, sent, older>>

Drop ==
  /\ page.drag.on
  /\ page' = [page EXCEPT !.drag = NoDrag]
  /\ Sends("edit", NoBody)
  /\ UNCHANGED <<worker, ghosts, acts, older>>

\* endDrag without a drop
EndDrag ==
  /\ page.drag.on
  /\ page' = [page EXCEPT !.drag = NoDrag, !.shown = page.drag.shown]
  /\ older' = (older \/ page'.shown.of < page.shown.of)
  /\ UNCHANGED <<worker, ghosts, net, sent, acts>>

Take == TakeLibrary \/ TakeMe \/ TakeLogin \/ TakeCredentials \/ TakeEdit
Visit == SubmitLogin \/ Logout \/ SubmitCredentials \/ ToggleArchived \/ Drag \/ Drop \/ EndDrag
Work == \E r \in net : Step(r) /\ UNCHANGED <<page, sent, acts, older>>
Faults == \E r \in net : Fail(r) /\ UNCHANGED <<page, sent, acts, older>>
Next == Take \/ Visit \/ Work \/ Faults

Spec == Init /\ [][Next]_vars

\* The Worker works on what it gets, and an answer reaches the page: nothing else is fair.
FairSpec == Spec /\ WF_vars(Work) /\ WF_vars(Take)

-----------------------------------------------------------------------------
\* Properties

\* "Await reload": when nothing is on its way and the newest reload is the one that is
\* shown, the page shows what its token entitles to, with all that was written, and no
\* preview of a drag is left, however the answers came before.
Settled == net = {} /\ ~page.drag.on /\ page.shown.of = page.asked
PageTrue ==
  /\ TypeOK
  /\ Settled => /\ page.shown.kind = RouteOf(page)
                /\ page.shown.value = data
                /\ ~page.shown.preview

\* F-003: the page gets no private data before a password has been set, in
\* whatever order its requests were answered.
DataAfterChange == (page.shown.kind = "home" /\ users.must) => (overlapped \/ changed # NoPassword)

\* "fetch the real data (the login-time reload was rejected)": a visitor who is logged in
\* and need not change the password sees the library in the end, if no request failed.
HomeAppears ==
  (page.token # NoToken /\ page.must = "no")
    ~> (page.shown.kind = "home" \/ page.token = NoToken \/ kills > 0 \/ overlapped \/ older)
=============================================================================
