--------------------------- MODULE WorkerTags_proofs ---------------------------
(***************************************************************************)
(* A bookmark is what its last undisturbed request asked for and the index *)
(* and a search say the same, for any number of bookmarks, tags, requests  *)
(* that overlap or stop midway, and searches.                              *)
(***************************************************************************)
EXTENDS WorkerTags, TLAPS

-----------------------------------------------------------------------------
\* The inductive invariant

\* The steps of a request on its bookmark.
Working == {"insert", "update", "names", "clear", "tags", "insert_tag", "link", "unindex", "index"}

InHand(r) ==
  /\ r \in Request
  /\ r.op \in Working => r.at \in Bookmarks
  /\ r.at \in Bookmarks => r.op \in Working \cup {"next"} /\ r.text \in Texts
  /\ r.op \in {"link", "rename", "drop"} => r.tag \in Tags
  /\ r.op \in {"insert_tag", "link", "rename"} => r.name \in Names

\* How far a request is that nobody disturbed, when its bookmark says x, has tags with
\* these names and these rows in the index.
Far(r, x, names, rows) ==
  /\ r.op = "insert" => (~r.tagged => r.ask = {}) /\ r.got = {}
  /\ r.op \in {"update", "names"} => (~r.tagged => r.ask = names)
  /\ r.op \in {"names", "clear", "tags", "insert_tag", "link", "unindex", "index", "next"} => x = r.text
  /\ r.op \in {"tags", "insert_tag", "link"} => names = r.got /\ r.got \cup r.todo = r.ask
  /\ r.op \in {"insert_tag", "link"} => r.name \in r.todo
  /\ r.op \in {"next", "unindex", "index"} => names = r.ask
  /\ r.op \in {"unindex", "index"} => r.got = r.ask
  /\ r.op = "index" => rows = <<>>

SoFar(r) ==
  /\ Far(r, text[r.at], NamesOf(r.at), fts[r.at])
  /\ r.op = "link" => tag[r.tag] \in {r.name, "gone"}

Library ==
  /\ row \in [Bookmarks -> {"none", "live", "trash"}]
  /\ text \in [Bookmarks -> Texts]
  /\ tag \in [Tags -> Names \cup {"free", "gone"}]
  /\ \A t, u \in Tags : HasTag(t) /\ tag[t] = tag[u] => t = u
  /\ link \subseteq Bookmarks \X Tags /\ \A l \in link : HasTag(l[2])
  /\ fts \in [Bookmarks -> Seq(FtsRow)]
  /\ \A b \in Bookmarks : row[b] = "none" => (\A t \in Tags : <<b, t>> \notin link) /\ fts[b] = <<>>

Story ==
  /\ meant \in [Bookmarks -> FtsRow]
  /\ settled \subseteq Bookmarks /\ indexed \subseteq settled
  /\ \A b \in settled : text[b] = meant[b].text /\ NamesOf(b) = meant[b].names
  /\ \A b \in indexed : fts[b] = <<[text |-> text[b], names |-> NamesOf(b)]>>

\* A bookmark that is being inserted nobody else knows of.
Requested ==
  /\ req \in [Requests -> Request]
  /\ \A q \in Requests :
       /\ InHand(req[q])
       /\ req[q].op = "insert" => /\ row[req[q].at] = "none"
                                  /\ \A p \in Requests \ {q} : req[p].at # req[q].at
       /\ req[q].at # None =>
            /\ req[q].op # "insert" => row[req[q].at] # "none"
            /\ req[q].at \notin settled
            /\ req[q].alone => SoFar(req[q]) /\ \A p \in Requests \ {q} : req[p].at # req[q].at

Found ==
  /\ find = [pc |-> find.pc, term |-> find.term, total |-> find.total,
             hits |-> find.hits, like |-> find.like, calm |-> find.calm]
  /\ find.pc \in {"idle", "rows", "tags", "like", "count"}
  /\ find.term \in Names \cup Texts \cup {None} /\ find.like \in BOOLEAN /\ find.calm \in BOOLEAN
  /\ find.pc \in {"like", "count"} => find.like
  /\ find.calm /\ ~find.like =>
       /\ find.pc \in {"rows", "tags"} => find.total = Cardinality(FtsHits(find.term))
       /\ find.pc = "tags" => find.hits = FtsHits(find.term)

IInv == Library /\ Story /\ Requested /\ Found /\ begun \in 0..MaxRequests

-----------------------------------------------------------------------------
\* Names

LEMMA NamesAre ==
  ASSUME Library, NEW b \in Bookmarks
  PROVE  /\ NamesOf(b) \subseteq Names
         /\ row[b] = "none" => NamesOf(b) = {}
<1>1. \A u \in Tags : <<b, u>> \in link => tag[u] \in Names
  BY DEF Library, HasTag
<1>2. row[b] = "none" => {u \in Tags : <<b, u>> \in link} = {}
  BY DEF Library
<1> QED BY <1>1, <1>2 DEF NamesOf

LEMMA NamesStay ==
  (tag' = tag /\ link' = link) => \A b : NamesOf(b)' = NamesOf(b)
BY DEF NamesOf

LEMMA IdleInHand == InHand(Idle) /\ Idle.at = None /\ Idle.op = "idle"
BY SortsAssumption DEF InHand, Idle, Request, Op, Working

\* The bookmark a request is at.
LEMMA AtBookmark ==
  ASSUME Requested, NEW q \in Requests, req[q].at # None
  PROVE  req[q].at \in Bookmarks /\ req[q].text \in Texts
BY SortsAssumption DEF Requested, InHand, Request

-----------------------------------------------------------------------------
\* A step of a request on the bookmark it is at

LEMMA OwnStep ==
  ASSUME Library, Story, Requested, Library', NEW q \in Requests, NEW b \in Bookmarks, req[q].at = b,
         NEW r, req' = [req EXCEPT ![q] = r], r.at = b, r.alone = req[q].alone,
         InHand(r), r.op # "insert", UNCHANGED story,
         \A c \in Bookmarks \ {b} : /\ row'[c] = row[c] /\ text'[c] = text[c] /\ fts'[c] = fts[c]
                                    /\ NamesOf(c)' = NamesOf(c),
         \A t \in Tags : tag[t] # "free" => tag'[t] = tag[t],
         row'[b] # "none",
         r.alone /\ SoFar(req[q]) => SoFar(r)'
  PROVE  Story' /\ Requested'
<1> USE SortsAssumption
<1>1. req' \in [Requests -> Request] /\ req'[q] = r /\ \A p \in Requests \ {q} : req'[p] = req[p]
  BY DEF Requested, InHand
<1>2. b \notin settled /\ (r.alone => SoFar(r)' /\ \A p \in Requests \ {q} : req[p].at # b)
  BY DEF Requested
<1>3. Story'
  BY <1>2 DEF Story, story
<1>4. ASSUME NEW p \in Requests \ {q}
      PROVE  /\ InHand(req'[p])
             /\ req'[p].op = "insert" => /\ row'[req'[p].at] = "none"
                                         /\ \A s \in Requests \ {p} : req'[s].at # req'[p].at
             /\ req'[p].at # None =>
                  /\ req'[p].op # "insert" => row'[req'[p].at] # "none"
                  /\ req'[p].at \notin settled'
                  /\ req'[p].alone => SoFar(req[p])' /\ \A s \in Requests \ {p} : req'[s].at # req'[p].at
  <2>1. InHand(req[p]) /\ req'[p] = req[p]
    BY <1>1 DEF Requested
  <2>2. req[p].op = "insert" => req[p].at \in Bookmarks \ {b}
    BY <2>1 DEF InHand, Requested, Working
  <2>3. ASSUME req[p].at # None, req[p].alone PROVE SoFar(req[p])'
    <3>1. SoFar(req[p]) /\ req[p].at \in Bookmarks \ {b}
      BY <2>3, AtBookmark DEF Requested
    <3>2. req[p].op = "link" => req[p].tag \in Tags /\ tag[req[p].tag] # "free"
      BY <2>1, <3>1 DEF InHand, SoFar
    <3> QED BY <2>1, <3>1, <3>2 DEF SoFar
  <2>4. req[p].at # None => req[p].at \in Bookmarks
    BY AtBookmark
  <2>5. \A s \in Requests : req'[s].at = req[s].at
    BY <1>1
  <2>6. req[p].at # None /\ req[p].op # "insert" => row'[req[p].at] # "none"
    BY <2>4 DEF Requested
  <2>7. settled' = settled
    BY DEF story
  <2> QED BY <2>1, <2>2, <2>3, <2>5, <2>6, <2>7 DEF Requested
<1>5. r.alone => SoFar(req[q])'
  BY <1>1, <1>2 DEF SoFar
<1>6. \A s \in Requests : req'[s].at = req[s].at
  BY <1>1
<1>7. Requested'
  BY <1>1, <1>2, <1>4, <1>5, <1>6 DEF Requested, story
<1> QED BY <1>3, <1>7

\* The rows of bookmarks, its tags and its row in the index, in terms of what it had.
LEMMA InsertBookmarkStep ==
  ASSUME Library, Story, Requested, NEW q \in Requests, InsertBookmark(q)
  PROVE  Library' /\ Story' /\ Requested'
<1>1. PICK r0, b : r0 = req[q] /\ b = r0.at
  OBVIOUS
<1>2. PICK r : r = [r0 EXCEPT !.op = AfterRow(r0)]
  OBVIOUS
<1>3. /\ r0.op = "insert" /\ r0 \in Request /\ b \in Bookmarks /\ r0.text \in Texts /\ row[b] = "none"
  BY <1>1, SortsAssumption DEF InsertBookmark, Requested, InHand, Working
<1>4. /\ row' = [row EXCEPT ![b] = "live"] /\ text' = [text EXCEPT ![b] = r0.text]
      /\ req' = [req EXCEPT ![q] = r] /\ UNCHANGED <<tag, link, fts, story>>
  BY <1>1, <1>2 DEF InsertBookmark, Goes
<1>5. /\ r \in Request /\ r.at = b /\ r.alone = r0.alone /\ r.op = (IF r0.tagged THEN "clear" ELSE "unindex")
      /\ r.text = r0.text /\ r.ask = r0.ask /\ r.got = r0.got /\ r.todo = r0.todo
  BY <1>1, <1>2, <1>3 DEF Request, Op, AfterRow
<1>6. InHand(r)
  BY <1>3, <1>5 DEF InHand, Working
<1>7. Library'
  BY <1>3, <1>4 DEF Library, HasTag
<1>8. \A c : NamesOf(c)' = NamesOf(c)
  BY <1>4, NamesStay
<1>9. ASSUME SoFar(r0) PROVE SoFar(r)'
  <2>1. NamesOf(b) = {} /\ text'[b] = r.text
    BY <1>3, <1>4, <1>5, NamesAre DEF Library
  <2>2. Far(r, text'[b], NamesOf(b), fts[b])
    BY <1>3, <1>5, <1>9, <2>1 DEF SoFar, Far
  <2> QED BY <1>4, <1>5, <1>8, <2>2 DEF SoFar
<1>10. \A c \in Bookmarks \ {b} : row'[c] = row[c] /\ text'[c] = text[c] /\ fts'[c] = fts[c] /\ NamesOf(c)' = NamesOf(c)
  BY <1>4, <1>8 DEF Library
<1>11. row'[b] # "none" /\ \A t \in Tags : tag'[t] = tag[t]
  BY <1>3, <1>4 DEF Library
<1>12. r.alone /\ SoFar(req[q]) => SoFar(r)'
  BY <1>1, <1>9
<1>13. req[q].at = b /\ r.alone = req[q].alone /\ r.op # "insert" /\ UNCHANGED story
  BY <1>1, <1>4, <1>5
<1> QED BY <1>3, <1>4, <1>5, <1>6, <1>7, <1>10, <1>11, <1>12, <1>13, OwnStep

LEMMA WriteBookmarkStep ==
  ASSUME Library, Story, Requested, NEW q \in Requests, WriteBookmark(q)
  PROVE  Library' /\ Story' /\ Requested'
<1>1. PICK r0, b : r0 = req[q] /\ b = r0.at
  OBVIOUS
<1>2. PICK r : r = [r0 EXCEPT !.op = "names"]
  OBVIOUS
<1>3. /\ r0.op = "update" /\ r0 \in Request /\ b \in Bookmarks /\ r0.text \in Texts /\ row[b] # "none"
  BY <1>1, SortsAssumption DEF WriteBookmark, Requested, InHand, Working
<1>4. /\ text' = [text EXCEPT ![b] = r0.text]
      /\ req' = [req EXCEPT ![q] = r] /\ UNCHANGED <<row, tag, link, fts, story>>
  BY <1>1, <1>2 DEF WriteBookmark, Goes
<1>5. /\ r \in Request /\ r.at = b /\ r.alone = r0.alone /\ r.op = "names"
      /\ r.text = r0.text /\ r.ask = r0.ask /\ r.tagged = r0.tagged
  BY <1>1, <1>2, <1>3 DEF Request, Op
<1>6. InHand(r)
  BY <1>3, <1>5 DEF InHand, Working
<1>7. Library'
  BY <1>3, <1>4 DEF Library, HasTag
<1>8. \A c : NamesOf(c)' = NamesOf(c)
  BY <1>4, NamesStay
<1>9. ASSUME SoFar(r0) PROVE SoFar(r)'
  <2>1. text'[b] = r.text
    BY <1>3, <1>4, <1>5 DEF Library
  <2>2. Far(r, text'[b], NamesOf(b), fts[b])
    BY <1>1, <1>3, <1>5, <1>9, <2>1 DEF SoFar, Far
  <2> QED BY <1>4, <1>5, <1>8, <2>2 DEF SoFar
<1>10. \A c \in Bookmarks \ {b} : row'[c] = row[c] /\ text'[c] = text[c] /\ fts'[c] = fts[c] /\ NamesOf(c)' = NamesOf(c)
  BY <1>4, <1>8 DEF Library
<1>11. row'[b] # "none" /\ \A t \in Tags : tag'[t] = tag[t]
  BY <1>3, <1>4 DEF Library
<1>12. r.alone /\ SoFar(req[q]) => SoFar(r)'
  BY <1>1, <1>9
<1>13. req[q].at = b /\ r.alone = req[q].alone /\ r.op # "insert" /\ UNCHANGED story
  BY <1>1, <1>4, <1>5
<1> QED BY <1>3, <1>4, <1>5, <1>6, <1>7, <1>10, <1>11, <1>12, <1>13, OwnStep

\* A statement that only reads.
LEMMA ReadStep ==
  ASSUME Library, Story, Requested, NEW q \in Requests, NEW b \in Bookmarks, req[q].at = b, row[b] # "none",
         NEW r, Goes(q, r), UNCHANGED library, r.at = b, r.alone = req[q].alone, InHand(r), r.op # "insert",
         r.alone /\ SoFar(req[q]) => SoFar(r)
  PROVE  Library' /\ Story' /\ Requested'
<1>1. /\ UNCHANGED <<row, text, tag, link, fts, story>> /\ req' = [req EXCEPT ![q] = r]
  BY DEF Goes, library
<1>2. Library'
  BY <1>1 DEF Library, HasTag
<1>3. \A c : NamesOf(c)' = NamesOf(c)
  BY <1>1, NamesStay
<1>4. r.alone /\ SoFar(req[q]) => SoFar(r)'
  BY <1>1, <1>3 DEF SoFar
<1>5. /\ \A c \in Bookmarks \ {b} : row'[c] = row[c] /\ text'[c] = text[c] /\ fts'[c] = fts[c] /\ NamesOf(c)' = NamesOf(c)
      /\ row'[b] # "none" /\ (\A t \in Tags : tag'[t] = tag[t]) /\ UNCHANGED story
  BY <1>1, <1>3
<1> QED BY <1>1, <1>2, <1>4, <1>5, OwnStep

LEMMA TagsForBookmarkStep ==
  ASSUME Library, Story, Requested, NEW q \in Requests, TagsForBookmark(q)
  PROVE  Library' /\ Story' /\ Requested'
<1>1. PICK r0, b : r0 = req[q] /\ b = r0.at
  OBVIOUS
<1>2. PICK r : r = [r0 EXCEPT !.op = AfterRow(r0), !.got = NamesOf(b)]
  OBVIOUS
<1>3. r0.op = "names" /\ r0 \in Request /\ b \in Bookmarks /\ r0.text \in Texts /\ row[b] # "none"
  BY <1>1, SortsAssumption DEF TagsForBookmark, Requested, InHand, Working
<1>4. Goes(q, r) /\ UNCHANGED library
  BY <1>1, <1>2 DEF TagsForBookmark, ReadNames
<1>5. /\ r \in Request /\ r.at = b /\ r.alone = r0.alone /\ r.op = (IF r0.tagged THEN "clear" ELSE "unindex")
      /\ r.text = r0.text /\ r.ask = r0.ask /\ r.got = NamesOf(b)
  BY <1>1, <1>2, <1>3, NamesAre DEF Request, Op, AfterRow
<1>6. InHand(r) /\ r.op # "insert"
  BY <1>3, <1>5 DEF InHand, Working
<1>7. r.alone /\ SoFar(req[q]) => SoFar(r)
  BY <1>1, <1>3, <1>5 DEF SoFar, Far
<1> QED BY <1>1, <1>3, <1>4, <1>5, <1>6, <1>7, ReadStep

LEMMA SelectTagStep ==
  ASSUME Library, Story, Requested, NEW q \in Requests, SelectTag(q)
  PROVE  Library' /\ Story' /\ Requested'
<1>1. PICK r0, b : r0 = req[q] /\ b = r0.at
  OBVIOUS
<1>2. r0.op = "tags" /\ r0 \in Request /\ b \in Bookmarks /\ r0.text \in Texts /\ row[b] # "none"
  BY <1>1, SortsAssumption DEF SelectTag, Requested, InHand, Working
<1>3. PICK n \in r0.todo :
        \/ \E t \in Tags : tag[t] = n /\ Goes(q, [r0 EXCEPT !.op = "link", !.tag = t, !.name = n])
        \/ Goes(q, [r0 EXCEPT !.op = "insert_tag", !.name = n])
  BY <1>1 DEF SelectTag
<1>4. n \in Names /\ UNCHANGED library
  BY <1>2, <1>3 DEF Request, SelectTag
<1>5. ASSUME NEW t \in Tags, tag[t] = n, Goes(q, [r0 EXCEPT !.op = "link", !.tag = t, !.name = n])
      PROVE  Library' /\ Story' /\ Requested'
  <2>1. PICK r : r = [r0 EXCEPT !.op = "link", !.tag = t, !.name = n]
    OBVIOUS
  <2>2. /\ r \in Request /\ r.at = b /\ r.alone = r0.alone /\ r.op = "link" /\ r.tag = t /\ r.name = n
        /\ r.text = r0.text /\ r.ask = r0.ask /\ r.got = r0.got /\ r.todo = r0.todo
    BY <1>1, <1>2, <1>4, <2>1 DEF Request, Op
  <2>3. InHand(r) /\ r.op # "insert"
    BY <1>2, <1>4, <2>2 DEF InHand, Working
  <2>4. r.alone /\ SoFar(req[q]) => SoFar(r)
    BY <1>1, <1>2, <1>3, <1>5, <2>2 DEF SoFar, Far
  <2>5. Goes(q, r)
    BY <1>5, <2>1
  <2> QED BY <1>1, <1>2, <1>4, <2>2, <2>3, <2>4, <2>5, ReadStep
<1>6. ASSUME Goes(q, [r0 EXCEPT !.op = "insert_tag", !.name = n])
      PROVE  Library' /\ Story' /\ Requested'
  <2>1. PICK r : r = [r0 EXCEPT !.op = "insert_tag", !.name = n]
    OBVIOUS
  <2>2. /\ r \in Request /\ r.at = b /\ r.alone = r0.alone /\ r.op = "insert_tag" /\ r.name = n
        /\ r.text = r0.text /\ r.ask = r0.ask /\ r.got = r0.got /\ r.todo = r0.todo
    BY <1>1, <1>2, <1>4, <2>1 DEF Request, Op
  <2>3. InHand(r) /\ r.op # "insert"
    BY <1>2, <1>4, <2>2 DEF InHand, Working
  <2>4. r.alone /\ SoFar(req[q]) => SoFar(r)
    BY <1>1, <1>2, <1>3, <2>2 DEF SoFar, Far
  <2>5. Goes(q, r)
    BY <1>6, <2>1
  <2> QED BY <1>1, <1>2, <1>4, <2>2, <2>3, <2>4, <2>5, ReadStep
<1> QED BY <1>3, <1>5, <1>6

\* Tags that no bookmark has may change.
LEMMA UnusedTag ==
  ASSUME link' = link, \A t \in Tags : (\E b \in Bookmarks : <<b, t>> \in link) => tag'[t] = tag[t]
  PROVE  \A b \in Bookmarks : NamesOf(b)' = NamesOf(b)
BY DEF NamesOf

\* After the tags that are left, or the last one.
LEMMA OnwardStep ==
  ASSUME NEW w \in Request, w.at \in Bookmarks, w.text \in Texts, NEW r, r = [w EXCEPT !.op = Onward(w)]
  PROVE  /\ r \in Request /\ InHand(r) /\ r.op # "insert"
         /\ r.at = w.at /\ r.alone = w.alone /\ r.text = w.text /\ r.ask = w.ask
         /\ r.got = w.got /\ r.todo = w.todo
         /\ r.op = "tags" \/ (r.op \in {"next", "unindex"} /\ r.todo = {})
<1>1. PICK op : op = Onward(w)
  OBVIOUS
<1>2. op = "tags" \/ (op \in {"next", "unindex"} /\ w.todo = {})
  BY <1>1 DEF Onward
<1>3. /\ r \in Request /\ r.op = op
      /\ r.at = w.at /\ r.alone = w.alone /\ r.text = w.text /\ r.ask = w.ask
      /\ r.got = w.got /\ r.todo = w.todo
  BY <1>1, <1>2 DEF Request, Op
<1>4. InHand(r)
  BY <1>2, <1>3 DEF InHand, Working
<1> QED BY <1>2, <1>3, <1>4

LEMMA ClearTagsStep ==
  ASSUME Library, Story, Requested, NEW q \in Requests, ClearTags(q)
  PROVE  Library' /\ Story' /\ Requested'
<1>1. PICK r0, b : r0 = req[q] /\ b = r0.at
  OBVIOUS
<1>2. r0.op = "clear" /\ r0 \in Request /\ b \in Bookmarks /\ r0.text \in Texts /\ row[b] # "none"
  BY <1>1, SortsAssumption DEF ClearTags, Requested, InHand, Working
<1>3. PICK w : w = [r0 EXCEPT !.got = {}, !.todo = r0.ask]
  OBVIOUS
<1>4. PICK r : r = [w EXCEPT !.op = Onward(w)]
  OBVIOUS
<1>5. /\ link' = {l \in link : l[1] # b} /\ UNCHANGED <<row, text, tag, fts, story>>
      /\ req' = [req EXCEPT ![q] = r]
  BY <1>1, <1>3, <1>4 DEF ClearTags, ClearLinks, Goes
<1>6. r0.ask \in SUBSET Names
  BY <1>2 DEF Request
<1>7. /\ r \in Request /\ InHand(r) /\ r.op # "insert"
      /\ r.at = b /\ r.alone = r0.alone /\ r.text = r0.text /\ r.ask = r0.ask
      /\ r.got = {} /\ r.todo = r0.ask
      /\ r.op = "tags" \/ (r.op \in {"next", "unindex"} /\ r.todo = {})
  <2>1. /\ w \in Request /\ w.at = b /\ w.alone = r0.alone /\ w.text = r0.text /\ w.ask = r0.ask
        /\ w.got = {} /\ w.todo = r0.ask
    BY <1>1, <1>2, <1>3, <1>6 DEF Request
  <2> QED BY <1>2, <1>4, <2>1, OnwardStep
<1>8. Library'
  BY <1>5 DEF Library, HasTag
<1>9. NamesOf(b)' = {}
  <2>1. {u \in Tags : <<b, u>> \in link'} = {}
    BY <1>5
  <2> QED BY <2>1 DEF NamesOf
<1>10. \A c \in Bookmarks \ {b} : NamesOf(c)' = NamesOf(c)
  <2>1. \A c \in Bookmarks \ {b}, u \in Tags : <<c, u>> \in link' <=> <<c, u>> \in link
    BY <1>5
  <2> QED BY <1>5, <2>1 DEF NamesOf
<1>11. ASSUME SoFar(r0) PROVE SoFar(r)'
  <2>1. text[b] = r.text
    BY <1>1, <1>2, <1>7, <1>11 DEF SoFar, Far
  <2>2. Far(r, text[b], {}, fts[b])
    BY <1>7, <2>1 DEF Far
  <2> QED BY <1>5, <1>7, <1>9, <2>2 DEF SoFar
<1>12. \A c \in Bookmarks \ {b} : row'[c] = row[c] /\ text'[c] = text[c] /\ fts'[c] = fts[c] /\ NamesOf(c)' = NamesOf(c)
  BY <1>5, <1>10
<1>13. /\ req[q].at = b /\ r.alone = req[q].alone /\ UNCHANGED story /\ row'[b] # "none"
       /\ \A t \in Tags : tag'[t] = tag[t]
       /\ r.alone /\ SoFar(req[q]) => SoFar(r)'
  BY <1>1, <1>2, <1>5, <1>7, <1>11
<1> QED BY <1>2, <1>5, <1>7, <1>8, <1>12, <1>13, OwnStep

LEMMA InsertTagStep ==
  ASSUME Library, Story, Requested, NEW q \in Requests, InsertTag(q)
  PROVE  Library' /\ Story' /\ Requested'
<1>1. PICK r0, b : r0 = req[q] /\ b = r0.at
  OBVIOUS
<1>2. /\ r0.op = "insert_tag" /\ r0 \in Request /\ b \in Bookmarks /\ r0.text \in Texts
      /\ row[b] # "none" /\ r0.name \in Names
  BY <1>1, SortsAssumption DEF InsertTag, Requested, InHand, Working
<1>3. PICK t \in Tags : /\ tag[t] = "free" /\ tag' = [tag EXCEPT ![t] = r0.name]
                        /\ Goes(q, [r0 EXCEPT !.op = "link", !.tag = t])
  BY <1>1 DEF InsertTag
<1>4. PICK r : r = [r0 EXCEPT !.op = "link", !.tag = t]
  OBVIOUS
<1>5. req' = [req EXCEPT ![q] = r] /\ UNCHANGED <<row, text, link, fts, story>> /\ \A u \in Tags : tag[u] # r0.name
  BY <1>1, <1>3, <1>4 DEF InsertTag, Goes
<1>6. /\ r \in Request /\ r.at = b /\ r.alone = r0.alone /\ r.op = "link" /\ r.tag = t /\ r.name = r0.name
      /\ r.text = r0.text /\ r.ask = r0.ask /\ r.got = r0.got /\ r.todo = r0.todo
  BY <1>1, <1>2, <1>4 DEF Request, Op
<1>7. InHand(r) /\ r.op # "insert"
  BY <1>2, <1>6 DEF InHand, Working
<1>8. Library'
  <2>1. tag' \in [Tags -> Names \cup {"free", "gone"}]
    BY <1>2, <1>3 DEF Library
  <2>2. \A u, v \in Tags : tag'[u] \in Names /\ tag'[u] = tag'[v] => u = v
    BY <1>3, <1>5 DEF Library, HasTag
  <2>3. \A l \in link : tag'[l[2]] \in Names
    BY <1>2, <1>3 DEF Library, HasTag
  <2> QED BY <1>5, <2>1, <2>2, <2>3 DEF Library, HasTag
<1>9. \A c \in Bookmarks : NamesOf(c)' = NamesOf(c)
  <2>1. \A u \in Tags, c \in Bookmarks : <<c, u>> \in link => tag[u] # "free"
    BY SortsAssumption DEF Library, HasTag
  <2>2. \A u \in Tags : (\E c \in Bookmarks : <<c, u>> \in link) => tag'[u] = tag[u]
    BY <1>3, <2>1 DEF Library
  <2> QED BY <1>5, <2>2, UnusedTag
<1>10. ASSUME SoFar(r0) PROVE SoFar(r)'
  <2>1. Far(r, text[b], NamesOf(b), fts[b])
    BY <1>1, <1>2, <1>6, <1>10 DEF SoFar, Far
  <2>2. tag'[r.tag] = r.name
    BY <1>3, <1>6 DEF Library
  <2> QED BY <1>2, <1>5, <1>6, <1>9, <2>1, <2>2 DEF SoFar
<1>11. \A c \in Bookmarks \ {b} : row'[c] = row[c] /\ text'[c] = text[c] /\ fts'[c] = fts[c] /\ NamesOf(c)' = NamesOf(c)
  BY <1>5, <1>9
<1>12. /\ req[q].at = b /\ r.alone = req[q].alone /\ UNCHANGED story /\ row'[b] # "none"
       /\ \A u \in Tags : tag[u] # "free" => tag'[u] = tag[u]
       /\ r.alone /\ SoFar(req[q]) => SoFar(r)'
  BY <1>1, <1>2, <1>3, <1>5, <1>6, <1>10 DEF Library
<1> QED BY <1>2, <1>5, <1>6, <1>7, <1>8, <1>11, <1>12, OwnStep

LEMMA LinkTagStep ==
  ASSUME Library, Story, Requested, NEW q \in Requests, LinkTag(q)
  PROVE  Library' /\ Story' /\ Requested'
<1>1. PICK r0, b : r0 = req[q] /\ b = r0.at
  OBVIOUS
<1>2. /\ r0.op = "link" /\ r0 \in Request /\ b \in Bookmarks /\ r0.text \in Texts
      /\ row[b] # "none" /\ r0.name \in Names /\ r0.tag \in Tags /\ HasTag(r0.tag)
  BY <1>1, SortsAssumption DEF LinkTag, Requested, InHand, Working
<1>3. PICK got, todo : got = r0.got \cup {r0.name} /\ todo = r0.todo \ {r0.name}
  OBVIOUS
<1>4. PICK w : w = [r0 EXCEPT !.got = got, !.todo = todo]
  OBVIOUS
<1>5. PICK r : r = [w EXCEPT !.op = Onward(w)]
  OBVIOUS
<1>6. /\ link' = link \cup {<<b, r0.tag>>} /\ UNCHANGED <<row, text, tag, fts, story>>
      /\ req' = [req EXCEPT ![q] = r]
  <2>1. [r0 EXCEPT !.got = @ \cup {r0.name}, !.todo = @ \ {r0.name}] = w
    BY <1>2, <1>3, <1>4 DEF Request
  <2> QED BY <1>1, <1>5, <2>1 DEF LinkTag, Goes
<1>7. got \in SUBSET Names /\ todo \in SUBSET Names
  BY <1>2, <1>3 DEF Request
<1>8. /\ r \in Request /\ InHand(r) /\ r.op # "insert"
      /\ r.at = b /\ r.alone = r0.alone /\ r.text = r0.text /\ r.ask = r0.ask
      /\ r.got = got /\ r.todo = todo
      /\ r.op = "tags" \/ (r.op \in {"next", "unindex"} /\ r.todo = {})
  <2>1. /\ w \in Request /\ w.at = b /\ w.alone = r0.alone /\ w.text = r0.text /\ w.ask = r0.ask
        /\ w.got = got /\ w.todo = todo
    BY <1>1, <1>2, <1>4, <1>7 DEF Request
  <2> QED BY <1>2, <1>5, <2>1, OnwardStep
<1>9. Library'
  <2>1. link' \subseteq Bookmarks \X Tags /\ \A l \in link' : HasTag(l[2])
    BY <1>2, <1>6 DEF Library
  <2>2. \A c \in Bookmarks : row[c] = "none" => \A t \in Tags : <<c, t>> \notin link'
    BY <1>2, <1>6 DEF Library
  <2> QED BY <1>6, <2>1, <2>2 DEF Library, HasTag
<1>10. NamesOf(b)' = NamesOf(b) \cup {tag[r0.tag]}
  <2>1. {u \in Tags : <<b, u>> \in link'} = {u \in Tags : <<b, u>> \in link} \cup {r0.tag}
    BY <1>2, <1>6
  <2> QED BY <1>6, <2>1 DEF NamesOf
<1>11. \A c \in Bookmarks \ {b} : NamesOf(c)' = NamesOf(c)
  <2>1. \A c \in Bookmarks \ {b}, u \in Tags : <<c, u>> \in link' <=> <<c, u>> \in link
    BY <1>6
  <2> QED BY <1>6, <2>1 DEF NamesOf
<1>12. ASSUME SoFar(r0) PROVE SoFar(r)'
  <2>1. tag[r0.tag] = r0.name
    BY <1>2, <1>12, SortsAssumption DEF SoFar, HasTag
  <2>2. /\ text[b] = r0.text /\ NamesOf(b) = r0.got /\ r0.got \cup r0.todo = r0.ask /\ r0.name \in r0.todo
    BY <1>1, <1>2, <1>12 DEF SoFar, Far
  <2>3. got \cup todo = r0.ask
    BY <1>3, <2>2
  <2>4. NamesOf(b)' = got
    BY <1>3, <1>10, <2>1, <2>2
  <2>5. Far(r, text[b], got, fts[b])
    BY <1>8, <2>2, <2>3 DEF Far
  <2> QED BY <1>6, <1>8, <2>4, <2>5 DEF SoFar
<1>13. \A c \in Bookmarks \ {b} : row'[c] = row[c] /\ text'[c] = text[c] /\ fts'[c] = fts[c] /\ NamesOf(c)' = NamesOf(c)
  BY <1>6, <1>11
<1>14. /\ req[q].at = b /\ r.alone = req[q].alone /\ UNCHANGED story /\ row'[b] # "none"
       /\ \A t \in Tags : tag'[t] = tag[t]
       /\ r.alone /\ SoFar(req[q]) => SoFar(r)'
  BY <1>1, <1>2, <1>6, <1>8, <1>12
<1> QED BY <1>2, <1>6, <1>8, <1>9, <1>13, <1>14, OwnStep

LEMMA UnindexStep ==
  ASSUME Library, Story, Requested, NEW q \in Requests, Unindex(q)
  PROVE  Library' /\ Story' /\ Requested'
<1>1. PICK r0, b : r0 = req[q] /\ b = r0.at
  OBVIOUS
<1>2. PICK r : r = [r0 EXCEPT !.op = "index"]
  OBVIOUS
<1>3. r0.op = "unindex" /\ r0 \in Request /\ b \in Bookmarks /\ r0.text \in Texts /\ row[b] # "none"
  BY <1>1, SortsAssumption DEF Unindex, Requested, InHand, Working
<1>4. /\ fts' = [fts EXCEPT ![b] = <<>>] /\ req' = [req EXCEPT ![q] = r] /\ UNCHANGED <<row, text, tag, link, story>>
  BY <1>1, <1>2 DEF Unindex, Unindexed, Goes
<1>5. /\ r \in Request /\ r.at = b /\ r.alone = r0.alone /\ r.op = "index"
      /\ r.text = r0.text /\ r.ask = r0.ask /\ r.got = r0.got
  BY <1>1, <1>2, <1>3 DEF Request, Op
<1>6. InHand(r) /\ r.op # "insert"
  BY <1>3, <1>5 DEF InHand, Working
<1>7. Library'
  <2>1. fts' \in [Bookmarks -> Seq(FtsRow)]
    BY <1>3, <1>4 DEF Library
  <2> QED BY <1>3, <1>4, <2>1 DEF Library, HasTag
<1>8. \A c : NamesOf(c)' = NamesOf(c)
  BY <1>4, NamesStay
<1>9. ASSUME SoFar(r0) PROVE SoFar(r)'
  <2>1. fts'[b] = <<>>
    BY <1>3, <1>4 DEF Library
  <2>2. Far(r, text[b], NamesOf(b), <<>>)
    BY <1>1, <1>3, <1>5, <1>9 DEF SoFar, Far
  <2> QED BY <1>4, <1>5, <1>8, <2>1, <2>2 DEF SoFar
<1>10. \A c \in Bookmarks \ {b} : row'[c] = row[c] /\ text'[c] = text[c] /\ fts'[c] = fts[c] /\ NamesOf(c)' = NamesOf(c)
  BY <1>4, <1>8 DEF Library
<1>11. /\ req[q].at = b /\ r.alone = req[q].alone /\ UNCHANGED story /\ row'[b] # "none"
       /\ \A t \in Tags : tag'[t] = tag[t]
       /\ r.alone /\ SoFar(req[q]) => SoFar(r)'
  BY <1>1, <1>3, <1>4, <1>5, <1>9
<1> QED BY <1>3, <1>4, <1>5, <1>6, <1>7, <1>10, <1>11, OwnStep

-----------------------------------------------------------------------------
\* A request leaves the bookmark it is at, which may be settled then

LEMMA LeaveStep ==
  ASSUME Library, Story, Requested, Library', NEW q \in Requests, NEW b, b = req[q].at,
         NEW r, req' = [req EXCEPT ![q] = r], InHand(r), r.at = None, r.op # "insert",
         UNCHANGED <<row, text>>, \A c \in Bookmarks : NamesOf(c)' = NamesOf(c),
         \A t \in Tags : tag'[t] = tag[t] \/ tag'[t] = "gone",
         \A c \in Bookmarks : c # b => fts'[c] = fts[c] /\ meant'[c] = meant[c],
         meant' \in [Bookmarks -> FtsRow],
         NEW G, G \subseteq {b}, NEW H, H \subseteq G, settled' = settled \cup G, indexed' = indexed \cup H,
         G # {} => /\ b # None /\ req[q].alone
                   /\ text[b] = meant'[b].text /\ NamesOf(b) = meant'[b].names,
         H # {} => fts'[b] = <<[text |-> text[b], names |-> NamesOf(b)]>>
  PROVE  Story' /\ Requested'
<1> USE SortsAssumption
<1>1. req' \in [Requests -> Request] /\ req'[q] = r /\ \A p \in Requests \ {q} : req'[p] = req[p]
  BY DEF Requested, InHand
<1>2. b \notin settled /\ (b # None => b \in Bookmarks)
  BY AtBookmark DEF Requested, Story
<1>3. Story'
  <2>1. settled' \subseteq Bookmarks /\ indexed' \subseteq settled'
    BY <1>2 DEF Story
  <2>2. ASSUME NEW c \in settled' PROVE text'[c] = meant'[c].text /\ NamesOf(c)' = meant'[c].names
    <3>1. CASE c \in settled
      BY <1>2, <3>1 DEF Story
    <3>2. CASE c \in G
      BY <1>2, <3>2
    <3> QED BY <3>1, <3>2
  <2>3. ASSUME NEW c \in indexed' PROVE fts'[c] = <<[text |-> text'[c], names |-> NamesOf(c)']>>
    <3>1. CASE c \in indexed
      BY <1>2, <3>1 DEF Story
    <3>2. CASE c \in H
      BY <1>2, <3>2
    <3> QED BY <3>1, <3>2
  <2> QED BY <2>1, <2>2, <2>3 DEF Story
<1>4. \A s \in Requests : s # q => req'[s].at = req[s].at
  BY <1>1
<1>5. ASSUME NEW p \in Requests \ {q}
      PROVE  /\ InHand(req'[p])
             /\ req'[p].op = "insert" => /\ row'[req'[p].at] = "none"
                                         /\ \A s \in Requests \ {p} : req'[s].at # req'[p].at
             /\ req'[p].at # None =>
                  /\ req'[p].op # "insert" => row'[req'[p].at] # "none"
                  /\ req'[p].at \notin settled'
                  /\ req'[p].alone => SoFar(req[p])' /\ \A s \in Requests \ {p} : req'[s].at # req'[p].at
  <2>1. InHand(req[p]) /\ req'[p] = req[p]
    BY <1>1 DEF Requested
  <2>2. req[p].op = "insert" => req[p].at \in Bookmarks
    BY <2>1 DEF InHand, Working
  <2>3. ASSUME req[p].at # None, req[p].alone PROVE SoFar(req[p])'
    <3>1. SoFar(req[p]) /\ req[p].at \in Bookmarks \ {b}
      BY <2>3, AtBookmark DEF Requested
    <3>2. req[p].op = "link" => req[p].tag \in Tags
      BY <2>1 DEF InHand
    <3> QED BY <2>1, <3>1, <3>2 DEF SoFar
  <2>4. req[p].at # None => req[p].at \notin settled'
    <3>1. CASE G = {}
      BY <3>1 DEF Requested
    <3>2. CASE G # {}
      BY <3>2 DEF Requested
    <3> QED BY <3>1, <3>2
  <2> QED BY <1>1, <1>4, <2>1, <2>2, <2>3, <2>4 DEF Requested
<1>6. Requested'
  <2>1. InHand(req'[q]) /\ req'[q].op # "insert" /\ req'[q].at = None
    BY <1>1
  <2> QED BY <1>1, <1>5, <2>1 DEF Requested
<1> QED BY <1>3, <1>6

LEMMA SettlesAre ==
  ASSUME Requested, NEW q \in Requests
  PROVE  /\ Settles(q) \subseteq {req[q].at}
         /\ Settles(q) # {} => req[q].at # None /\ req[q].alone /\ SoFar(req[q])
BY DEF Settles, Requested

LEMMA WantedIs ==
  ASSUME Requested, NEW q \in Requests, req[q].at # None
  PROVE  Wanted(q) \in FtsRow /\ Wanted(q).text = req[q].text /\ Wanted(q).names = req[q].ask
BY AtBookmark DEF Wanted, FtsRow, Requested, Request

LEMMA IndexStep ==
  ASSUME Library, Story, Requested, NEW q \in Requests, Index(q)
  PROVE  Library' /\ Story' /\ Requested'
<1>1. PICK r0, b, G, row0, want : r0 = req[q] /\ b = r0.at /\ G = Settles(q) /\ row0 = IndexedAs(r0) /\ want = Wanted(q)
  OBVIOUS
<1>2. r0.op = "index" /\ r0 \in Request /\ b \in Bookmarks /\ r0.text \in Texts /\ row[b] # "none" /\ b # None
  BY <1>1, SortsAssumption DEF Index, Requested, InHand, Working
<1>3. /\ fts' = [fts EXCEPT ![b] = Append(fts[b], row0)] /\ req' = [req EXCEPT ![q] = Idle]
      /\ settled' = settled \cup G /\ indexed' = indexed \cup G /\ meant' = [meant EXCEPT ![b] = want]
      /\ UNCHANGED <<row, text, tag, link>>
  BY <1>1, <1>2 DEF Index, Ends, Library
<1>4. row0 \in FtsRow /\ row0 = [text |-> r0.text, names |-> r0.got] /\ want \in FtsRow
      /\ want.text = r0.text /\ want.names = r0.ask
  BY <1>1, <1>2, WantedIs DEF IndexedAs, FtsRow, Request
<1>5. Library'
  <2>1. fts' \in [Bookmarks -> Seq(FtsRow)]
    BY <1>2, <1>3, <1>4 DEF Library
  <2> QED BY <1>2, <1>3, <2>1 DEF Library, HasTag
<1>6. \A c \in Bookmarks : NamesOf(c)' = NamesOf(c)
  BY <1>3, NamesStay
<1>7. ASSUME G # {}
      PROVE  /\ b # None /\ req[q].alone /\ text[b] = meant'[b].text /\ NamesOf(b) = meant'[b].names
             /\ fts'[b] = <<[text |-> text[b], names |-> NamesOf(b)]>>
  <2>1. SoFar(r0) /\ req[q].alone
    BY <1>1, <1>7, SettlesAre
  <2>2. text[b] = r0.text /\ NamesOf(b) = r0.ask /\ r0.got = r0.ask /\ fts[b] = <<>>
    BY <1>1, <1>2, <2>1 DEF SoFar, Far
  <2>3. meant'[b] = want
    BY <1>2, <1>3 DEF Story
  <2>4. fts'[b] = <<row0>>
    BY <1>2, <1>3, <1>4, <2>2 DEF Library
  <2> QED BY <1>2, <1>4, <2>1, <2>2, <2>3, <2>4
<1>8. /\ \A c \in Bookmarks : c # b => fts'[c] = fts[c] /\ meant'[c] = meant[c]
      /\ meant' \in [Bookmarks -> FtsRow]
  BY <1>2, <1>3, <1>4 DEF Library, Story
<1>9. PICK H, r : H = G /\ r = Idle
  OBVIOUS
<1>10. b = req[q].at /\ G \subseteq {b} /\ H \subseteq G /\ \A t \in Tags : tag'[t] = tag[t] \/ tag'[t] = "gone"
  BY <1>1, <1>3, <1>9, SettlesAre
<1>11. /\ InHand(r) /\ r.at = None /\ r.op # "insert" /\ req' = [req EXCEPT ![q] = r]
       /\ settled' = settled \cup G /\ indexed' = indexed \cup H /\ UNCHANGED <<row, text>>
  BY <1>3, <1>9, IdleInHand
<1>12. /\ G # {} => b # None /\ req[q].alone /\ text[b] = meant'[b].text /\ NamesOf(b) = meant'[b].names
       /\ H # {} => fts'[b] = <<[text |-> text[b], names |-> NamesOf(b)]>>
  BY <1>7, <1>9
<1> HIDE DEF InHand
<1> QED BY <1>5, <1>6, <1>8, <1>10, <1>11, <1>12, LeaveStep

\* A request leaves its bookmark, if it is at one, as it is.
LEMMA QuitStep ==
  ASSUME Library, Story, Requested, NEW q \in Requests,
         NEW r, req' = [req EXCEPT ![q] = r], InHand(r), r.at = None, r.op # "insert",
         UNCHANGED library, UNCHANGED story
  PROVE  Library' /\ Story' /\ Requested'
<1>1. PICK b, G : b = req[q].at /\ G = {}
  OBVIOUS
<1>2. UNCHANGED <<row, text, tag, link, fts>>
  BY DEF library
<1>3. Library' /\ \A c \in Bookmarks : NamesOf(c)' = NamesOf(c)
  BY <1>2, NamesStay DEF Library, HasTag
<1>4. /\ \A c \in Bookmarks : c # b => fts'[c] = fts[c] /\ meant'[c] = meant[c]
      /\ meant' \in [Bookmarks -> FtsRow] /\ settled' = settled \cup G /\ indexed' = indexed \cup G
      /\ UNCHANGED <<row, text>>
      /\ \A t \in Tags : tag'[t] = tag[t] \/ tag'[t] = "gone"
  BY <1>1, <1>2 DEF story, Story
<1>5. G \subseteq {b} /\ G \subseteq G /\ G = {}
  BY <1>1
<1> QED BY <1>1, <1>3, <1>4, <1>5, LeaveStep

LEMMA FailsStep ==
  ASSUME Library, Story, Requested, NEW q \in Requests, Fails(q)
  PROVE  Library' /\ Story' /\ Requested'
<1>1. req' = [req EXCEPT ![q] = Idle] /\ UNCHANGED library /\ UNCHANGED story
  BY DEF Fails, Ends, library, story
<1> QED BY <1>1, IdleInHand, QuitStep

LEMMA SetTagsStep ==
  ASSUME Library, Story, Requested, NEW q \in Requests, SetTags(q)
  PROVE  Library' /\ Story' /\ Requested'
<1>1. PICK ids \in SUBSET Bookmarks, ask \in SUBSET Names :
        req' = [req EXCEPT ![q] = [Idle EXCEPT !.op = "next", !.batch = TRUE, !.more = ids, !.ask = ask]]
  BY DEF SetTags
<1>2. PICK r : r = [Idle EXCEPT !.op = "next", !.batch = TRUE, !.more = ids, !.ask = ask]
  OBVIOUS
<1>3. r \in Request /\ r.at = None /\ r.op = "next"
  BY <1>2 DEF Idle, Request, Op
<1>4. InHand(r)
  BY <1>3, SortsAssumption DEF InHand, Working
<1>5. UNCHANGED library /\ UNCHANGED story
  BY DEF SetTags, library, story
<1> QED BY <1>1, <1>2, <1>3, <1>4, <1>5, QuitStep

LEMMA UpdateTagStep ==
  ASSUME Library, Story, Requested, NEW q \in Requests, UpdateTag(q)
  PROVE  Library' /\ Story' /\ Requested'
<1>1. PICK t \in Tags, n \in Names :
        req' = [req EXCEPT ![q] = [Idle EXCEPT !.op = "rename", !.tag = t, !.name = n]]
  BY DEF UpdateTag
<1>2. PICK r : r = [Idle EXCEPT !.op = "rename", !.tag = t, !.name = n]
  OBVIOUS
<1>3. r \in Request /\ r.at = None /\ r.op = "rename" /\ r.tag = t /\ r.name = n
  BY <1>2 DEF Idle, Request, Op
<1>4. InHand(r)
  BY <1>3, SortsAssumption DEF InHand, Working
<1>5. UNCHANGED library /\ UNCHANGED story
  BY DEF UpdateTag, library, story
<1> QED BY <1>1, <1>2, <1>3, <1>4, <1>5, QuitStep

LEMMA DropTagStep ==
  ASSUME Library, Story, Requested, NEW q \in Requests, DropTag(q)
  PROVE  Library' /\ Story' /\ Requested'
<1>1. PICK b, t, G : b = req[q].at /\ t = req[q].tag /\ G = {}
  OBVIOUS
<1>2. /\ t \in Tags /\ tag' = [tag EXCEPT ![t] = "gone"] /\ \A c \in Bookmarks : <<c, t>> \notin link
      /\ req' = [req EXCEPT ![q] = Idle] /\ UNCHANGED <<row, text, link, fts, story>>
  BY <1>1 DEF DropTag, Tagged, Ends, Requested, InHand
<1>3. Library'
  <2>1. tag' \in [Tags -> Names \cup {"free", "gone"}] /\ \A u \in Tags \ {t} : tag'[u] = tag[u]
    BY <1>2 DEF Library
  <2>2. tag'[t] \notin Names
    BY <1>2, SortsAssumption DEF Library
  <2>3. \A u, v \in Tags : tag'[u] \in Names /\ tag'[u] = tag'[v] => u = v
    BY <2>1, <2>2 DEF Library, HasTag
  <2>4. \A l \in link : tag'[l[2]] \in Names
    <3> SUFFICES ASSUME NEW l \in link PROVE tag'[l[2]] \in Names
      OBVIOUS
    <3>1. l = <<l[1], l[2]>> /\ l[1] \in Bookmarks /\ l[2] \in Tags /\ tag[l[2]] \in Names
      BY DEF Library, HasTag
    <3>2. l[2] # t
      BY <1>2, <3>1
    <3> QED BY <2>1, <3>1, <3>2
  <2> QED BY <1>2, <2>1, <2>3, <2>4 DEF Library, HasTag
<1>4. \A c \in Bookmarks : NamesOf(c)' = NamesOf(c)
  <2>1. \A u \in Tags : (\E c \in Bookmarks : <<c, u>> \in link) => tag'[u] = tag[u]
    BY <1>2 DEF Library
  <2> QED BY <1>2, <2>1, UnusedTag
<1>5. /\ \A c \in Bookmarks : c # b => fts'[c] = fts[c] /\ meant'[c] = meant[c]
      /\ meant' \in [Bookmarks -> FtsRow] /\ settled' = settled \cup G /\ indexed' = indexed \cup G
      /\ UNCHANGED <<row, text>> /\ \A u \in Tags : tag'[u] = tag[u] \/ tag'[u] = "gone"
  BY <1>1, <1>2 DEF story, Story, Library
<1>6. G \subseteq {b} /\ G \subseteq G /\ G = {} /\ Idle.op # "insert"
  BY <1>1, IdleInHand
<1> QED BY <1>1, <1>2, <1>3, <1>4, <1>5, <1>6, LeaveStep, IdleInHand

-----------------------------------------------------------------------------
\* A request comes to a bookmark

\* Who disturbs whom is all that changes of what a request carries.
LEMMA SameRequest ==
  ASSUME NEW r \in Request, NEW x \in BOOLEAN, NEW w, w = [r EXCEPT !.alone = x]
  PROVE  /\ w \in Request /\ w.alone = x /\ w.at = r.at /\ w.op = r.op
         /\ InHand(r) => InHand(w)
         /\ \A y, names, rows : Far(r, y, names, rows) => Far(w, y, names, rows)
         /\ w.tag = r.tag /\ w.name = r.name
<1>1. /\ w \in Request /\ w.alone = x /\ w.at = r.at /\ w.op = r.op /\ w.text = r.text /\ w.tagged = r.tagged
      /\ w.ask = r.ask /\ w.todo = r.todo /\ w.got = r.got /\ w.tag = r.tag /\ w.name = r.name
  BY DEF Request
<1>2. InHand(r) => InHand(w)
  BY <1>1 DEF InHand
<1>3. \A y, names, rows : Far(r, y, names, rows) => Far(w, y, names, rows)
  BY <1>1 DEF Far
<1> QED BY <1>1, <1>2, <1>3

LEMMA ArriveStep ==
  ASSUME Library, Story, Requested, NEW q \in Requests, UNCHANGED library,
         NEW r, InHand(r), NEW b \in Bookmarks, r.at = b, Comes(q, r), SoFar(r),
         r.op # "insert" => row[b] # "none",
         r.op = "insert" => row[b] = "none" /\ ~AtWork(q, b),
         NEW a, a = req[q].at, NEW G, G \subseteq {a}, settled' = (settled \cup G) \ {b},
         meant' \in [Bookmarks -> FtsRow], \A c \in Bookmarks : c # a \/ G = {} => meant'[c] = meant[c],
         G # {} => /\ a # None /\ req[q].alone
                   /\ text[a] = meant'[a].text /\ NamesOf(a) = meant'[a].names
  PROVE  Library' /\ Story' /\ Requested'
<1> USE SortsAssumption
<1>1. UNCHANGED <<row, text, tag, link, fts>>
  BY DEF library
<1>2. \A c : NamesOf(c)' = NamesOf(c)
  BY <1>1, NamesStay
<1>3. Library'
  BY <1>1 DEF Library, HasTag
<1>4. a \notin settled /\ (a # None => a \in Bookmarks) /\ indexed' = indexed \ {b}
  BY AtBookmark DEF Requested, Story, Comes
<1>5. Story'
  <2>1. settled' \subseteq Bookmarks /\ indexed' \subseteq settled'
    BY <1>4 DEF Story
  <2>2. ASSUME NEW c \in settled' PROVE text'[c] = meant'[c].text /\ NamesOf(c)' = meant'[c].names
    <3>1. CASE c \in settled
      BY <1>1, <1>2, <1>4, <3>1 DEF Story
    <3>2. CASE c \in G
      BY <1>1, <1>2, <1>4, <3>2
    <3> QED BY <3>1, <3>2
  <2>3. ASSUME NEW c \in indexed' PROVE fts'[c] = <<[text |-> text'[c], names |-> NamesOf(c)']>>
    BY <1>1, <1>2, <1>4, <2>3 DEF Story
  <2> QED BY <2>1, <2>2, <2>3 DEF Story
<1>6. PICK w, x : x = ~AtWork(q, b) /\ w = [r EXCEPT !.alone = x]
  OBVIOUS
<1>7. x \in BOOLEAN
  BY <1>6 DEF AtWork
<1>8. /\ w \in Request /\ w.alone = x /\ w.at = b /\ w.op = r.op /\ InHand(w)
      /\ w.tag = r.tag /\ w.name = r.name
      /\ \A y, names, rows : Far(r, y, names, rows) => Far(w, y, names, rows)
  <2>1. r \in Request
    BY DEF InHand
  <2>2. w = [r EXCEPT !.alone = x]
    BY <1>6
  <2>3. w.alone = x /\ w.at = r.at /\ w.op = r.op /\ w.tag = r.tag /\ w.name = r.name /\ w \in Request /\ InHand(w)
    BY <1>7, <2>1, <2>2, SameRequest
  <2>4. \A y, names, rows : Far(r, y, names, rows) => Far(w, y, names, rows)
    BY <1>7, <2>1, <2>2, SameRequest
  <2> QED BY <2>3, <2>4
<1>9. /\ req'[q] = w
      /\ \A p \in Requests \ {q} : req'[p] = IF req[p].at = b THEN [req[p] EXCEPT !.alone = FALSE] ELSE req[p]
      /\ DOMAIN req' = Requests
      /\ req' = [p \in Requests |-> req'[p]]
  BY <1>6 DEF Comes
<1>10. \A p \in Requests \ {q} : /\ req'[p] \in Request /\ req'[p].at = req[p].at /\ req'[p].op = req[p].op
                                 /\ InHand(req'[p])
                                 /\ req'[p].alone => req'[p] = req[p] /\ req[p].at # b
  <2> SUFFICES ASSUME NEW p \in Requests \ {q}
               PROVE  /\ req'[p] \in Request /\ req'[p].at = req[p].at /\ req'[p].op = req[p].op
                      /\ InHand(req'[p])
                      /\ req'[p].alone => req'[p] = req[p] /\ req[p].at # b
    OBVIOUS
  <2>1. PICK old, new : old = req[p] /\ new = req'[p]
    OBVIOUS
  <2>2. InHand(old) /\ old \in Request
    BY <2>1 DEF Requested, InHand
  <2>3. CASE old.at = b
    <3>1. PICK x0 \in BOOLEAN : x0 = FALSE
      OBVIOUS
    <3>2. new = [old EXCEPT !.alone = x0]
      BY <1>9, <2>1, <2>3, <3>1
    <3>3. new \in Request /\ new.alone = x0 /\ new.at = old.at /\ new.op = old.op /\ InHand(new)
      BY <2>2, <3>2, SameRequest
    <3> QED BY <2>1, <3>1, <3>3
  <2>4. CASE old.at # b
    BY <1>9, <2>1, <2>2, <2>4
  <2> QED BY <2>3, <2>4
<1>11. req' \in [Requests -> Request]
  BY <1>8, <1>9, <1>10
<1>12. ASSUME NEW p \in Requests \ {q}
       PROVE  /\ InHand(req'[p])
              /\ req'[p].op = "insert" => /\ row'[req'[p].at] = "none"
                                          /\ \A s \in Requests \ {p} : req'[s].at # req'[p].at
              /\ req'[p].at # None =>
                   /\ req'[p].op # "insert" => row'[req'[p].at] # "none"
                   /\ req'[p].at \notin settled'
                   /\ req'[p].alone => SoFar(req[p])' /\ \A s \in Requests \ {p} : req'[s].at # req'[p].at
  <2>1. \A s \in Requests \ {q} : req'[s].at = req[s].at
    BY <1>10
  <2>2. req[p].op = "insert" => row[req[p].at] = "none" /\ req[p].at # b
    BY DEF Requested, AtWork
  <2>3. req'[q].at = b
    BY <1>8, <1>9
  <2>4. req[p].at # None => req[p].at \notin settled'
    <3>1. CASE G = {}
      BY <3>1 DEF Requested
    <3>2. CASE G # {}
      BY <3>2 DEF Requested
    <3> QED BY <3>1, <3>2
  <2>5. ASSUME req'[p].at # None, req'[p].alone PROVE SoFar(req[p])' /\ \A s \in Requests \ {p} : req'[s].at # req'[p].at
    <3>1. req'[p] = req[p] /\ req[p].at # b
      BY <1>10, <2>5
    <3>2. SoFar(req[p]) /\ \A s \in Requests \ {p} : req[s].at # req[p].at
      BY <2>5, <3>1 DEF Requested
    <3>3. SoFar(req[p])'
      BY <1>1, <1>2, <3>1, <3>2 DEF SoFar
    <3> QED BY <2>1, <2>3, <3>1, <3>2, <3>3
  <2>6. req[p].op = "insert" => \A s \in Requests \ {p} : req'[s].at # req[p].at
    BY <2>1, <2>2, <2>3 DEF Requested
  <2>7. req[p].at # None /\ req[p].op # "insert" => row[req[p].at] # "none"
    BY DEF Requested
  <2> QED BY <1>1, <1>10, <2>2, <2>4, <2>5, <2>6, <2>7
<1>13. /\ InHand(req'[q])
       /\ req'[q].op = "insert" => /\ row'[req'[q].at] = "none"
                                   /\ \A s \in Requests \ {q} : req'[s].at # req'[q].at
       /\ req'[q].op # "insert" => row'[req'[q].at] # "none"
       /\ req'[q].at \notin settled'
       /\ req'[q].alone => SoFar(req[q])' /\ \A s \in Requests \ {q} : req'[s].at # req'[q].at
  <2>1. x => \A s \in Requests \ {q} : req'[s].at # b
    BY <1>6, <1>10 DEF AtWork
  <2>2. SoFar(req[q])'
    <3>1. Far(w, text[b], NamesOf(b), fts[b])
      BY <1>8 DEF SoFar
    <3>2. w.op = "link" => tag[w.tag] \in {w.name, "gone"}
      BY <1>8 DEF SoFar
    <3> QED BY <1>1, <1>2, <1>8, <1>9, <3>1, <3>2 DEF SoFar
  <2>3. r.op = "insert" => x
    BY <1>6
  <2> QED BY <1>1, <1>8, <1>9, <2>1, <2>2, <2>3
<1>14. Requested'
  BY <1>11, <1>12, <1>13 DEF Requested
<1> QED BY <1>3, <1>5, <1>14

LEMMA CreateBookmarkStep ==
  ASSUME Library, Story, Requested, NEW q \in Requests, CreateBookmark(q)
  PROVE  Library' /\ Story' /\ Requested'
<1>1. PICK b \in Bookmarks, x \in Texts, ask \in SUBSET Names :
        /\ row[b] = "none" /\ ~AtWork(q, b)
        /\ Comes(q, [Idle EXCEPT !.op = "insert", !.at = b, !.text = x, !.tagged = ask # {}, !.ask = ask])
        /\ settled' = settled \ {b}
  BY DEF CreateBookmark
<1>2. PICK r, tagged, a, G :
        /\ tagged = (ask # {}) /\ a = req[q].at /\ G = {}
        /\ r = [Idle EXCEPT !.op = "insert", !.at = b, !.text = x, !.tagged = tagged, !.ask = ask]
  OBVIOUS
<1>3. /\ r \in Request /\ r.op = "insert" /\ r.at = b /\ r.text = x /\ r.ask = ask /\ r.tagged = (ask # {}) /\ r.got = {}
  BY <1>2 DEF Idle, Request, Op
<1>4. InHand(r)
  BY <1>3 DEF InHand, Working
<1>5. SoFar(r)
  BY <1>3 DEF SoFar, Far
<1>6. /\ Comes(q, r) /\ UNCHANGED library /\ UNCHANGED meant
      /\ G \subseteq {a} /\ settled' = (settled \cup G) \ {b} /\ G = {}
  BY <1>1, <1>2 DEF CreateBookmark
<1>7. meant' \in [Bookmarks -> FtsRow] /\ \A c \in Bookmarks : c # a \/ G = {} => meant'[c] = meant[c]
  BY <1>6 DEF Story
<1>8. a = req[q].at /\ r.at = b /\ r.op = "insert" /\ row[b] = "none" /\ ~AtWork(q, b)
  BY <1>1, <1>2, <1>3
<1> QED BY <1>4, <1>5, <1>6, <1>7, <1>8, ArriveStep

LEMMA UpdateBookmarkStep ==
  ASSUME Library, Story, Requested, NEW q \in Requests, UpdateBookmark(q)
  PROVE  Library' /\ Story' /\ Requested'
<1>1. PICK b \in Bookmarks, x \in Texts, tagged \in BOOLEAN, ask \in SUBSET Names :
        /\ row[b] = "live" /\ (~tagged => ask = NamesOf(b))
        /\ Comes(q, [Idle EXCEPT !.op = "update", !.at = b, !.text = x, !.tagged = tagged, !.ask = ask])
        /\ settled' = settled \ {b}
  BY DEF UpdateBookmark
<1>2. PICK r, a, G :
        /\ a = req[q].at /\ G = {}
        /\ r = [Idle EXCEPT !.op = "update", !.at = b, !.text = x, !.tagged = tagged, !.ask = ask]
  OBVIOUS
<1>3. /\ r \in Request /\ r.op = "update" /\ r.at = b /\ r.text = x /\ r.ask = ask /\ r.tagged = tagged
  BY <1>2 DEF Idle, Request, Op
<1>4. InHand(r)
  BY <1>3 DEF InHand, Working
<1>5. SoFar(r)
  BY <1>1, <1>3 DEF SoFar, Far
<1>6. /\ Comes(q, r) /\ UNCHANGED library /\ UNCHANGED meant
      /\ G \subseteq {a} /\ settled' = (settled \cup G) \ {b} /\ G = {}
  BY <1>1, <1>2 DEF UpdateBookmark
<1>7. meant' \in [Bookmarks -> FtsRow] /\ \A c \in Bookmarks : c # a \/ G = {} => meant'[c] = meant[c]
  BY <1>6 DEF Story
<1>8. a = req[q].at /\ r.at = b /\ r.op # "insert" /\ row[b] # "none"
  BY <1>1, <1>2, <1>3
<1> QED BY <1>4, <1>5, <1>6, <1>7, <1>8, ArriveStep

\* What the loop over the ids settles when it goes on.
LEMMA NextSettles ==
  ASSUME Library, Story, Requested, NEW q \in Requests, req[q].op = "next",
         NEW a, a = req[q].at, NEW G, G = Settles(q),
         meant' = IF G = {} THEN meant ELSE [meant EXCEPT ![a] = Wanted(q)]
  PROVE  /\ G \subseteq {a} /\ meant' \in [Bookmarks -> FtsRow]
         /\ \A c \in Bookmarks : c # a \/ G = {} => meant'[c] = meant[c]
         /\ G # {} => /\ a # None /\ req[q].alone
                      /\ text[a] = meant'[a].text /\ NamesOf(a) = meant'[a].names
<1>1. G \subseteq {a} /\ (G # {} => a # None /\ req[q].alone /\ SoFar(req[q]))
  BY SettlesAre
<1>2. CASE G = {}
  BY <1>1, <1>2 DEF Story
<1>3. CASE G # {}
  <2>1. PICK want : want = Wanted(q)
    OBVIOUS
  <2>2. a \in Bookmarks /\ want \in FtsRow /\ want.text = req[q].text /\ want.names = req[q].ask
    BY <1>1, <1>3, <2>1, AtBookmark, WantedIs
  <2>3. meant' = [meant EXCEPT ![a] = want]
    BY <1>3, <2>1
  <2>4. text[a] = req[q].text /\ NamesOf(a) = req[q].ask
    BY <1>1, <1>3 DEF SoFar, Far
  <2> QED BY <1>1, <1>3, <2>2, <2>3, <2>4 DEF Story
<1> QED BY <1>2, <1>3

LEMMA NextIdStep ==
  ASSUME Library, Story, Requested, NEW q \in Requests, NextId(q)
  PROVE  Library' /\ Story' /\ Requested'
<1>1. PICK r0, a, G : r0 = req[q] /\ a = req[q].at /\ G = Settles(q)
  OBVIOUS
<1>2. /\ r0.op = "next" /\ r0 \in Request /\ UNCHANGED library
      /\ meant' = IF G = {} THEN meant ELSE [meant EXCEPT ![a] = Wanted(q)]
  BY <1>1 DEF NextId, Requested, InHand
<1>3. /\ G \subseteq {a} /\ meant' \in [Bookmarks -> FtsRow]
      /\ \A c \in Bookmarks : c # a \/ G = {} => meant'[c] = meant[c]
      /\ G # {} => /\ a # None /\ req[q].alone
                   /\ text[a] = meant'[a].text /\ NamesOf(a) = meant'[a].names
  BY <1>1, <1>2, NextSettles
<1>4. UNCHANGED <<row, text, tag, link, fts>>
  BY <1>2 DEF library
<1>5. Library' /\ \A c \in Bookmarks : NamesOf(c)' = NamesOf(c)
  BY <1>4, NamesStay DEF Library, HasTag
\* It leaves for nothing, or for the next id.
<1>6. ASSUME NEW r, req' = [req EXCEPT ![q] = r], InHand(r), r.at = None, r.op # "insert",
             settled' = settled \cup G, UNCHANGED indexed
      PROVE  Library' /\ Story' /\ Requested'
  <2>1. PICK H : H = {}
    OBVIOUS
  <2>2. /\ H \subseteq G /\ indexed' = indexed \cup H /\ H = {} /\ UNCHANGED <<row, text>>
        /\ \A c \in Bookmarks : c # a => fts'[c] = fts[c] /\ meant'[c] = meant[c]
        /\ \A t \in Tags : tag'[t] = tag[t] \/ tag'[t] = "gone"
    BY <1>3, <1>4, <1>6, <2>1
  <2> QED BY <1>1, <1>3, <1>5, <1>6, <2>2, LeaveStep
<1>7. CASE req[q].more = {} /\ Ends(q) /\ settled' = settled \cup Settles(q) /\ UNCHANGED indexed
  BY <1>1, <1>6, <1>7, IdleInHand DEF Ends
<1>8. ASSUME NEW b \in req[q].more, row[b] # "live",
             req' = [req EXCEPT ![q] = [req[q] EXCEPT !.more = @ \ {b}, !.at = None]],
             settled' = settled \cup Settles(q), UNCHANGED indexed
      PROVE  Library' /\ Story' /\ Requested'
  <2>1. PICK rest : rest = [req[q] EXCEPT !.more = @ \ {b}, !.at = None]
    OBVIOUS
  <2>2. rest \in Request /\ rest.op = "next" /\ rest.at = None
    BY <1>1, <1>2, <2>1 DEF Request
  <2>3. InHand(rest)
    BY <2>2, SortsAssumption DEF InHand, Working
  <2> QED BY <1>1, <1>6, <1>8, <2>1, <2>2, <2>3
<1>9. ASSUME NEW b \in req[q].more, row[b] = "live",
             Comes(q, [[req[q] EXCEPT !.more = @ \ {b}, !.at = None] EXCEPT !.op = "clear", !.at = b, !.text = text[b]]),
             settled' = (settled \cup Settles(q)) \ {b}
      PROVE  Library' /\ Story' /\ Requested'
  <2>1. PICK rest : rest = [req[q] EXCEPT !.more = @ \ {b}, !.at = None]
    OBVIOUS
  <2>2. rest \in Request /\ b \in Bookmarks
    BY <1>1, <1>2, <2>1 DEF Request
  <2>3. PICK r, x : x = text[b] /\ r = [rest EXCEPT !.op = "clear", !.at = b, !.text = x]
    OBVIOUS
  <2>4. x \in Texts
    BY <2>2, <2>3 DEF Library
  <2>5. r \in Request /\ r.op = "clear" /\ r.at = b /\ r.text = x
    BY <2>2, <2>3, <2>4 DEF Request, Op
  <2>6. InHand(r)
    BY <2>2, <2>4, <2>5 DEF InHand, Working
  <2>7. SoFar(r)
    BY <2>3, <2>5 DEF SoFar, Far
  <2>8. Comes(q, r) /\ settled' = (settled \cup G) \ {b} /\ row[b] # "none" /\ r.op # "insert"
    BY <1>1, <1>9, <2>1, <2>3, <2>5
  <2> HIDE DEF InHand, SoFar
  <2> QED BY <1>1, <1>2, <1>3, <2>2, <2>5, <2>6, <2>7, <2>8, ArriveStep
<1> QED
  <2>1. CASE \E b \in req[q].more :
               LET rest == [req[q] EXCEPT !.more = @ \ {b}, !.at = None]
               IN IF row[b] = "live"
                  THEN /\ Comes(q, [rest EXCEPT !.op = "clear", !.at = b, !.text = text[b]])
                       /\ settled' = (settled \cup Settles(q)) \ {b}
                  ELSE /\ req' = [req EXCEPT ![q] = rest]
                       /\ settled' = settled \cup Settles(q) /\ UNCHANGED indexed
    BY <1>8, <1>9, <2>1
  <2> QED BY <1>7, <2>1 DEF NextId

-----------------------------------------------------------------------------
\* What is done to a tag, and to a bookmark as a whole

\* Whoever is at work on a bookmark may have read the row of the tag before.
LEMMA DisturbStep ==
  ASSUME Library, Story, Requested, Library', NEW q \in Requests, NEW r, Disturbs(q, r),
         InHand(r), r.at = None, r.op # "insert", UNCHANGED <<row, settled>>, Story'
  PROVE  Requested'
<1> USE SortsAssumption
<1>1. /\ req'[q] = r /\ req' = [p \in Requests |-> req'[p]]
      /\ \A p \in Requests \ {q} : req'[p] = IF req[p].at # None THEN [req[p] EXCEPT !.alone = FALSE] ELSE req[p]
  BY DEF Disturbs
<1>2. \A p \in Requests \ {q} : /\ req'[p] \in Request /\ req'[p].at = req[p].at /\ req'[p].op = req[p].op
                                /\ InHand(req'[p]) /\ (req'[p].at # None => ~req'[p].alone)
  <2> SUFFICES ASSUME NEW p \in Requests \ {q}
               PROVE  /\ req'[p] \in Request /\ req'[p].at = req[p].at /\ req'[p].op = req[p].op
                      /\ InHand(req'[p]) /\ (req'[p].at # None => ~req'[p].alone)
    OBVIOUS
  <2>1. PICK old, new : old = req[p] /\ new = req'[p]
    OBVIOUS
  <2>2. InHand(old) /\ old \in Request
    BY <2>1 DEF Requested, InHand
  <2>3. CASE old.at # None
    <3>1. PICK x0 \in BOOLEAN : x0 = FALSE
      OBVIOUS
    <3>2. new = [old EXCEPT !.alone = x0]
      BY <1>1, <2>1, <2>3, <3>1
    <3>3. new \in Request /\ new.alone = x0 /\ new.at = old.at /\ new.op = old.op /\ InHand(new)
      BY <2>2, <3>2, SameRequest
    <3> QED BY <2>1, <3>1, <3>3
  <2>4. CASE old.at = None
    BY <1>1, <2>1, <2>2, <2>4
  <2> QED BY <2>3, <2>4
<1>3. req' \in [Requests -> Request]
  BY <1>1, <1>2 DEF InHand
<1>4. ASSUME NEW p \in Requests
      PROVE  /\ InHand(req'[p])
             /\ req'[p].op = "insert" => /\ row'[req'[p].at] = "none"
                                         /\ \A s \in Requests \ {p} : req'[s].at # req'[p].at
             /\ req'[p].at # None =>
                  /\ req'[p].op # "insert" => row'[req'[p].at] # "none"
                  /\ req'[p].at \notin settled'
                  /\ ~req'[p].alone
  <2>1. CASE p = q
    BY <1>1, <2>1
  <2>2. CASE p # q
    <3>1. req[p].op = "insert" => req[p].at \in Bookmarks
      BY DEF Requested, InHand, Working
    <3>2. \A s \in Requests : req'[s].at = req[s].at \/ req'[s].at = None
      BY <1>1, <1>2
    <3>3. req[p].op = "insert" => \A s \in Requests \ {p} : req'[s].at # req[p].at
      BY <3>1, <3>2 DEF Requested
    <3> QED BY <1>2, <2>2, <3>3 DEF Requested
  <2> QED BY <2>1, <2>2
<1> QED BY <1>3, <1>4 DEF Requested

LEMMA WriteTagStep ==
  ASSUME Library, Story, Requested, NEW q \in Requests, WriteTag(q)
  PROVE  Library' /\ Story' /\ Requested'
<1>1. PICK t, n : t = req[q].tag /\ n = req[q].name
  OBVIOUS
<1>2. t \in Tags /\ n \in Names /\ UNCHANGED <<row, text, link, fts, begun, settled>>
  BY <1>1 DEF WriteTag, Requested, InHand
<1>3. CASE HasTag(t) /\ n # tag[t]
  <2>1. /\ \A u \in Tags : tag[u] # n
        /\ tag' = [tag EXCEPT ![t] = n] /\ Disturbs(q, Idle)
        /\ meant' = [b \in Bookmarks |-> [meant[b] EXCEPT !.names = Renamed(meant[b].names, tag[t], n)]]
        /\ indexed' = indexed \ Tagged(t)
    BY <1>1, <1>3 DEF WriteTag
  <2>2. tag' \in [Tags -> Names \cup {"free", "gone"}] /\ tag'[t] = n /\ \A u \in Tags \ {t} : tag'[u] = tag[u]
    BY <1>2, <2>1 DEF Library
  <2>3. Library'
    <3>1. \A u, v \in Tags : tag'[u] \in Names /\ tag'[u] = tag'[v] => u = v
      BY <2>1, <2>2 DEF Library, HasTag
    <3>2. \A l \in link : tag'[l[2]] \in Names
      <4> SUFFICES ASSUME NEW l \in link PROVE tag'[l[2]] \in Names
        OBVIOUS
      <4>1. l[2] \in Tags /\ tag[l[2]] \in Names
        BY DEF Library, HasTag
      <4> QED BY <1>2, <2>2, <4>1
    <3> QED BY <1>2, <2>2, <3>1, <3>2 DEF Library, HasTag
  <2>4. PICK m : m = tag[t]
    OBVIOUS
  <2>5. \A b \in Bookmarks : NamesOf(b)' = Renamed(NamesOf(b), m, n)
    <3> SUFFICES ASSUME NEW b \in Bookmarks PROVE NamesOf(b)' = Renamed(NamesOf(b), m, n)
      OBVIOUS
    <3>1. PICK S : S = {u \in Tags : <<b, u>> \in link}
      OBVIOUS
    <3>2. NamesOf(b) = {tag[u] : u \in S} /\ NamesOf(b)' = {tag'[u] : u \in S} /\ S \subseteq Tags
      BY <1>2, <3>1 DEF NamesOf
    <3>3. m \in {tag[u] : u \in S} <=> t \in S
      BY <1>2, <1>3, <2>4, <3>2 DEF Library, HasTag
    <3>4. \A u \in S \ {t} : tag[u] # m
      BY <1>2, <1>3, <2>4, <3>2 DEF Library, HasTag
    <3>5. CASE t \in S
      <4>1. {tag'[u] : u \in S} = ({tag[u] : u \in S} \ {m}) \cup {n}
        BY <2>2, <2>4, <3>2, <3>4, <3>5
      <4> QED BY <3>2, <3>3, <3>5, <4>1 DEF Renamed
    <3>6. CASE t \notin S
      <4>1. {tag'[u] : u \in S} = {tag[u] : u \in S}
        BY <2>2, <3>2, <3>6
      <4> QED BY <3>2, <3>3, <3>6, <4>1 DEF Renamed
    <3> QED BY <3>5, <3>6
  <2>6. \A b \in Bookmarks : b \notin Tagged(t) => NamesOf(b)' = NamesOf(b)
    BY <1>2, <2>2 DEF Tagged, NamesOf
  <2>7. \A b \in Bookmarks : /\ meant'[b] \in FtsRow /\ meant'[b].text = meant[b].text
                             /\ meant'[b].names = Renamed(meant[b].names, m, n)
    BY <1>2, <2>1, <2>4 DEF Story, FtsRow, Renamed
  <2>8. Story'
    <3>1. meant' \in [Bookmarks -> FtsRow]
      BY <2>1, <2>7
    <3>2. \A b \in settled : text[b] = meant'[b].text /\ NamesOf(b)' = meant'[b].names
      BY <2>5, <2>7 DEF Story
    <3>3. indexed' \subseteq settled /\ indexed' \subseteq indexed /\ \A b \in indexed' : NamesOf(b)' = NamesOf(b)
      BY <2>1, <2>6 DEF Story
    <3>4. \A b \in indexed' : fts[b] = <<[text |-> text[b], names |-> NamesOf(b)']>>
      BY <3>3 DEF Story
    <3> QED BY <1>2, <3>1, <3>2, <3>3, <3>4 DEF Story
  <2> QED BY <1>2, <2>1, <2>3, <2>8, DisturbStep, IdleInHand
<1>4. CASE ~(HasTag(t) /\ n # tag[t])
  <2>1. Ends(q) /\ UNCHANGED library /\ UNCHANGED story
    BY <1>1, <1>2, <1>4 DEF WriteTag, library, story
  <2> QED BY <2>1, QuitStep, IdleInHand DEF Ends
<1> QED BY <1>3, <1>4

LEMMA DeleteTagStep ==
  ASSUME Library, Story, Requested, NEW q \in Requests, DeleteTag(q)
  PROVE  Library' /\ Story' /\ Requested'
<1>1. PICK t \in Tags :
        /\ link' = {l \in link : l[2] # t}
        /\ Disturbs(q, [Idle EXCEPT !.op = "drop", !.tag = t])
        /\ meant' = [b \in Bookmarks |-> [meant[b] EXCEPT !.names = @ \ {tag[t]}]]
        /\ indexed' = indexed \ Tagged(t)
  BY DEF DeleteTag
<1>2. UNCHANGED <<row, text, tag, fts, settled>>
  BY DEF DeleteTag
<1>3. PICK r, m : r = [Idle EXCEPT !.op = "drop", !.tag = t] /\ m = tag[t]
  OBVIOUS
<1>4. r \in Request /\ r.at = None /\ r.op = "drop" /\ r.tag = t
  BY <1>3 DEF Idle, Request, Op
<1>5. InHand(r)
  BY <1>4, SortsAssumption DEF InHand, Working
<1>6. Library'
  BY <1>1, <1>2 DEF Library, HasTag
<1>7. \A b \in Bookmarks : NamesOf(b)' = NamesOf(b) \ {m}
  <2> SUFFICES ASSUME NEW b \in Bookmarks PROVE NamesOf(b)' = NamesOf(b) \ {m}
    OBVIOUS
  <2>1. PICK S : S = {u \in Tags : <<b, u>> \in link}
    OBVIOUS
  <2>2. {u \in Tags : <<b, u>> \in link'} = S \ {t}
    BY <1>1, <2>1
  <2>3. NamesOf(b) = {tag[u] : u \in S} /\ NamesOf(b)' = {tag[u] : u \in S \ {t}} /\ S \subseteq Tags
    BY <1>2, <2>1, <2>2 DEF NamesOf
  <2>4. \A u \in S : tag[u] \in Names
    BY <2>1 DEF Library, HasTag
  <2>5. \A u \in S \ {t} : tag[u] # m
    BY <1>1, <1>3, <2>3, <2>4 DEF Library, HasTag
  <2> QED BY <1>3, <2>3, <2>5
<1>8. \A b \in Bookmarks : b \notin Tagged(t) => NamesOf(b)' = NamesOf(b)
  <2> SUFFICES ASSUME NEW b \in Bookmarks, <<b, t>> \notin link PROVE NamesOf(b)' = NamesOf(b)
    BY DEF Tagged
  <2>1. \A u \in Tags : <<b, u>> \in link' <=> <<b, u>> \in link
    BY <1>1
  <2> QED BY <1>2, <2>1 DEF NamesOf
<1>9. \A b \in Bookmarks : /\ meant'[b] \in FtsRow /\ meant'[b].text = meant[b].text
                           /\ meant'[b].names = meant[b].names \ {m}
  BY <1>1, <1>3 DEF Story, FtsRow
<1>10. Story'
  <2>1. meant' \in [Bookmarks -> FtsRow]
    BY <1>1, <1>9
  <2>2. \A b \in settled : text[b] = meant'[b].text /\ NamesOf(b)' = meant'[b].names
    BY <1>7, <1>9 DEF Story
  <2>3. indexed' \subseteq settled /\ indexed' \subseteq indexed /\ \A b \in indexed' : NamesOf(b)' = NamesOf(b)
    BY <1>1, <1>8 DEF Story
  <2>4. \A b \in indexed' : fts[b] = <<[text |-> text[b], names |-> NamesOf(b)']>>
    BY <2>3 DEF Story
  <2> QED BY <1>2, <2>1, <2>2, <2>3, <2>4 DEF Story
<1> QED
  <2>1. Disturbs(q, r) /\ r.op # "insert" /\ UNCHANGED <<row, settled>>
    BY <1>1, <1>2, <1>3, <1>4
  <2> QED BY <1>4, <1>5, <1>6, <1>10, <2>1, DisturbStep

\* A tag that no bookmark has is inserted, or a bookmark is put in the trash: no request
\* sees to it.
LEMMA AsideStep ==
  ASSUME Library, Story, Requested, CreateTag \/ DeleteBookmark
  PROVE  Library' /\ Story' /\ Requested'
<1> USE SortsAssumption
<1>1. UNCHANGED <<text, link, fts, req, meant, settled, indexed>>
  BY DEF CreateTag, DeleteBookmark, story
<1>2. /\ row' \in [Bookmarks -> {"none", "live", "trash"}]
      /\ \A b \in Bookmarks : row'[b] = "none" <=> row[b] = "none"
  BY DEF CreateTag, DeleteBookmark, Library
<1>3. /\ tag' \in [Tags -> Names \cup {"free", "gone"}]
      /\ \A t \in Tags : tag[t] # "free" => tag'[t] = tag[t]
      /\ \A t, u \in Tags : tag'[t] \in Names /\ tag'[t] = tag'[u] => t = u
  <2>1. CASE CreateTag
    <3>1. PICK t \in Tags, n \in Names : tag[t] = "free" /\ (\A u \in Tags : tag[u] # n) /\ tag' = [tag EXCEPT ![t] = n]
      BY <2>1 DEF CreateTag
    <3>2. tag' \in [Tags -> Names \cup {"free", "gone"}] /\ tag'[t] = n /\ \A u \in Tags \ {t} : tag'[u] = tag[u]
      BY <3>1 DEF Library
    <3> QED BY <3>1, <3>2 DEF Library, HasTag
  <2>2. CASE DeleteBookmark
    BY <2>2 DEF DeleteBookmark, Library, HasTag
  <2> QED BY <2>1, <2>2
<1>4. \A l \in link : l[2] \in Tags /\ tag[l[2]] \in Names /\ tag'[l[2]] = tag[l[2]]
  BY <1>3 DEF Library, HasTag
<1>5. Library'
  BY <1>1, <1>2, <1>3, <1>4 DEF Library, HasTag
<1>6. \A b \in Bookmarks : NamesOf(b)' = NamesOf(b)
  <2>1. \A t \in Tags : (\E b \in Bookmarks : <<b, t>> \in link) => tag'[t] = tag[t]
    <3> SUFFICES ASSUME NEW t \in Tags, NEW b \in Bookmarks, <<b, t>> \in link PROVE tag'[t] = tag[t]
      OBVIOUS
    <3>1. <<b, t>>[2] = t
      OBVIOUS
    <3> QED BY <1>4, <3>1
  <2> QED BY <1>1, <2>1, UnusedTag
<1>7. Story'
  BY <1>1, <1>6 DEF Story
<1>8. ASSUME NEW q \in Requests, req[q].at # None, req[q].alone PROVE SoFar(req[q])'
  <2>1. SoFar(req[q]) /\ req[q].at \in Bookmarks
    BY <1>8, AtBookmark DEF Requested
  <2>2. req[q].op = "link" => req[q].tag \in Tags /\ tag[req[q].tag] # "free"
    BY <2>1 DEF SoFar, Requested, InHand
  <2> QED BY <1>1, <1>3, <1>6, <2>1, <2>2 DEF SoFar
<1>9. \A q \in Requests : req[q].at \in Bookmarks \/ req[q].at = None
  BY AtBookmark
<1>10. \A q \in Requests : req[q].op = "insert" => req[q].at \in Bookmarks
  BY DEF Requested, InHand, Working
<1>11. Requested'
  BY <1>1, <1>2, <1>8, <1>9, <1>10 DEF Requested
<1> QED BY <1>5, <1>7, <1>11

-----------------------------------------------------------------------------
\* A search

LEMMA HitsStay == library' = library => \A term : FtsHits(term)' = FtsHits(term)
BY DEF library, FtsHits

LEMMA FoundKeeps ==
  ASSUME Found, Watched \/ (Search /\ UNCHANGED library)
  PROVE  Found'
<1>1. PICK f, g : f = find /\ g = find'
  OBVIOUS
<1>2. /\ f = [pc |-> f.pc, term |-> f.term, total |-> f.total, hits |-> f.hits, like |-> f.like, calm |-> f.calm]
      /\ f.pc \in {"idle", "rows", "tags", "like", "count"}
      /\ f.term \in Names \cup Texts \cup {None} /\ f.like \in BOOLEAN /\ f.calm \in BOOLEAN
      /\ f.pc \in {"like", "count"} => f.like
      /\ f.calm /\ ~f.like =>
           /\ f.pc \in {"rows", "tags"} => f.total = Cardinality(FtsHits(f.term))
           /\ f.pc = "tags" => f.hits = FtsHits(f.term)
  BY <1>1 DEF Found
<1> DEFINE Good ==
      /\ g = [pc |-> g.pc, term |-> g.term, total |-> g.total, hits |-> g.hits, like |-> g.like, calm |-> g.calm]
      /\ g.pc \in {"idle", "rows", "tags", "like", "count"}
      /\ g.term \in Names \cup Texts \cup {None} /\ g.like \in BOOLEAN /\ g.calm \in BOOLEAN
      /\ g.pc \in {"like", "count"} => g.like
      /\ g.calm /\ ~g.like =>
           /\ g.pc \in {"rows", "tags"} => g.total = Cardinality(FtsHits(g.term)')
           /\ g.pc = "tags" => g.hits = FtsHits(g.term)'
<1>3. CASE Watched
  <2>1. CASE f.pc = "idle"
    <3>1. g = f
      BY <1>1, <1>3, <2>1 DEF Watched
    <3>2. Good
      BY <1>2, <2>1, <3>1
    <3> QED BY <1>1, <3>2 DEF Found, FtsHits
  <2>2. CASE f.pc # "idle"
    <3>1. PICK c \in BOOLEAN : c = (f.calm /\ library' = library)
      BY <1>2
    <3>2. g = [f EXCEPT !.calm = c]
      BY <1>1, <1>2, <1>3, <2>2, <3>1 DEF Watched
    <3>3. /\ g = [pc |-> f.pc, term |-> f.term, total |-> f.total, hits |-> f.hits, like |-> f.like, calm |-> c]
      BY <1>2, <3>2
    <3>4. g.pc = f.pc /\ g.term = f.term /\ g.total = f.total /\ g.hits = f.hits /\ g.like = f.like /\ g.calm = c
      BY <3>3
    <3>5. c => f.calm /\ FtsHits(f.term)' = FtsHits(f.term)
      BY <3>1, HitsStay
    <3>6. Good
      BY <1>2, <3>3, <3>4, <3>5
    <3> QED BY <1>1, <3>6 DEF Found, FtsHits
  <2> QED BY <2>1, <2>2
<1>4. CASE Search /\ UNCHANGED library
  <2>0. \A term : FtsHits(term)' = FtsHits(term)
    BY <1>4, HitsStay
  <2>1. CASE SearchCount
    <3>1. PICK term \in Names \cup Texts :
            find' = [NoSearch EXCEPT !.pc = "rows", !.term = term, !.total = Cardinality(FtsHits(term))]
      BY <2>1 DEF SearchCount
    <3>2. PICK n : n = Cardinality(FtsHits(term))
      OBVIOUS
    <3>3. g = [pc |-> "rows", term |-> term, total |-> n, hits |-> {}, like |-> FALSE, calm |-> TRUE]
      BY <1>1, <3>1, <3>2 DEF NoSearch
    <3>4. g.pc = "rows" /\ g.term = term /\ g.total = n /\ g.hits = {} /\ g.like = FALSE /\ g.calm = TRUE
      BY <3>3
    <3>5. Good
      BY <2>0, <3>2, <3>3, <3>4
    <3> QED BY <1>1, <3>5 DEF Found, FtsHits
  <2>2. CASE SearchRows
    <3>1. PICK hits : hits = FtsHits(f.term)
      OBVIOUS
    <3>2. f.pc = "rows" /\ g = [f EXCEPT !.pc = "tags", !.hits = hits]
      BY <1>1, <2>2, <3>1 DEF SearchRows
    <3>3. g = [pc |-> "tags", term |-> f.term, total |-> f.total, hits |-> hits, like |-> f.like, calm |-> f.calm]
      BY <1>2, <3>2
    <3>4. g.pc = "tags" /\ g.term = f.term /\ g.total = f.total /\ g.hits = hits /\ g.like = f.like /\ g.calm = f.calm
      BY <3>3
    <3>5. Good
      BY <1>2, <2>0, <3>1, <3>2, <3>3, <3>4
    <3> QED BY <1>1, <3>5 DEF Found, FtsHits
  <2>3. CASE FallsBack
    <3>1. g = [pc |-> "like", term |-> f.term, total |-> f.total, hits |-> f.hits, like |-> TRUE, calm |-> f.calm]
      BY <1>1, <1>2, <2>3 DEF FallsBack
    <3>2. g.pc = "like" /\ g.term = f.term /\ g.total = f.total /\ g.hits = f.hits /\ g.like = TRUE /\ g.calm = f.calm
      BY <3>1
    <3>3. Good
      BY <1>2, <3>1, <3>2
    <3> QED BY <1>1, <3>3 DEF Found, FtsHits
  <2>4. CASE LikeRows
    <3>1. PICK hits : hits = LikeHits(f.term)
      OBVIOUS
    <3>2. f.like /\ g = [pc |-> "count", term |-> f.term, total |-> f.total, hits |-> hits, like |-> f.like, calm |-> f.calm]
      BY <1>1, <1>2, <2>4, <3>1 DEF LikeRows
    <3>3. g.pc = "count" /\ g.term = f.term /\ g.total = f.total /\ g.hits = hits /\ g.like = f.like /\ g.calm = f.calm
      BY <3>2
    <3>4. Good
      BY <1>2, <3>2, <3>3
    <3> QED BY <1>1, <3>4 DEF Found, FtsHits
  <2>5. CASE LikeCount
    <3>1. PICK n : n = Cardinality(LikeHits(f.term))
      OBVIOUS
    <3>2. f.like /\ g = [pc |-> "tags", term |-> f.term, total |-> n, hits |-> f.hits, like |-> f.like, calm |-> f.calm]
      BY <1>1, <1>2, <2>5, <3>1 DEF LikeCount
    <3>3. g.pc = "tags" /\ g.term = f.term /\ g.total = n /\ g.hits = f.hits /\ g.like = f.like /\ g.calm = f.calm
      BY <3>2
    <3>4. Good
      BY <1>2, <3>2, <3>3
    <3> QED BY <1>1, <3>4 DEF Found, FtsHits
  <2>6. CASE Answers
    <3>1. g = NoSearch
      BY <1>1, <2>6 DEF Answers
    <3>2. Good
      BY <3>1 DEF NoSearch
    <3> QED BY <1>1, <3>2 DEF Found, FtsHits
  <2> QED BY <1>4, <2>1, <2>2, <2>3, <2>4, <2>5, <2>6 DEF Search
<1> QED BY <1>3, <1>4

-----------------------------------------------------------------------------
\* The theorems

LEMMA InitHolds == Init => IInv
<1> SUFFICES ASSUME Init PROVE IInv
  OBVIOUS
<1> USE SortsAssumption
<1>1. tag \in [Tags -> Names \cup {"free"}] /\ link \subseteq Present \X {t \in Tags : HasTag(t)}
  BY DEF Init
<1>2. \A b \in Bookmarks : NamesOf(b) \subseteq Names
  BY <1>1 DEF NamesOf, HasTag
<1>3. \A b \in Bookmarks : RowOf(b) \in FtsRow /\ RowOf(b).text = text[b] /\ RowOf(b).names = NamesOf(b)
                           /\ RowOf(b) = [text |-> text[b], names |-> NamesOf(b)]
  BY <1>2 DEF RowOf, FtsRow, Init
<1>4. Library
  <2>1. fts \in [Bookmarks -> Seq(FtsRow)]
    BY <1>3 DEF Init
  <2>2. \A b \in Bookmarks : row[b] = "none" => (\A t \in Tags : <<b, t>> \notin link) /\ fts[b] = <<>>
    BY <1>1 DEF Init
  <2> QED BY <1>1, <2>1, <2>2, BoundAssumption DEF Init, Library
<1>5. Story
  <2>1. meant \in [Bookmarks -> FtsRow] /\ \A b \in Bookmarks : meant[b] = RowOf(b)
    BY <1>3 DEF Init
  <2>2. \A b \in Present : b \in Bookmarks /\ fts[b] = <<RowOf(b)>>
    BY BoundAssumption DEF Init
  <2>3. settled = Present /\ indexed = Present
    BY DEF Init
  <2>4. \A b \in indexed : fts[b] = <<[text |-> text[b], names |-> NamesOf(b)]>>
    BY <1>3, <2>2, <2>3
  <2> QED BY <1>3, <2>1, <2>2, <2>3, <2>4 DEF Story
<1>6. Requested
  BY IdleInHand DEF Init, Requested, InHand
<1>7. Found
  <2>1. find = [pc |-> "idle", term |-> None, total |-> 0, hits |-> {}, like |-> FALSE, calm |-> TRUE]
    BY DEF Init, NoSearch
  <2> QED BY <2>1 DEF Found
<1>8. begun \in 0..MaxRequests
  BY BoundAssumption DEF Init
<1> QED BY <1>4, <1>5, <1>6, <1>7, <1>8 DEF IInv

LEMMA CountKeeps ==
  ASSUME begun \in 0..MaxRequests, Next  PROVE begun' \in 0..MaxRequests
<1> USE BoundAssumption
<1>1. Counted => begun' \in 0..MaxRequests
  BY DEF Counted
<1>2. UNCHANGED begun => begun' \in 0..MaxRequests
  OBVIOUS
<1>3. ASSUME NEW q \in Requests, Write(q) PROVE Counted \/ UNCHANGED begun
  <2>1. CASE CreateBookmark(q) \/ InsertBookmark(q) \/ UpdateBookmark(q) \/ WriteBookmark(q) \/ TagsForBookmark(q)
    BY <2>1 DEF CreateBookmark, InsertBookmark, UpdateBookmark, WriteBookmark, TagsForBookmark, Goes
  <2>2. CASE ClearTags(q) \/ SelectTag(q) \/ InsertTag(q) \/ LinkTag(q) \/ Unindex(q) \/ Index(q)
    BY <2>2 DEF ClearTags, SelectTag, InsertTag, LinkTag, Unindex, Index, Goes
  <2>3. CASE SetTags(q) \/ NextId(q) \/ UpdateTag(q) \/ WriteTag(q) \/ DeleteTag(q) \/ DropTag(q) \/ Fails(q)
    BY <2>3 DEF SetTags, NextId, UpdateTag, WriteTag, DeleteTag, DropTag, Fails
  <2> QED BY <1>3, <2>1, <2>2, <2>3 DEF Write
<1>4. CreateTag \/ DeleteBookmark => Counted
  BY DEF CreateTag, DeleteBookmark
<1>5. Search => Counted \/ UNCHANGED begun
  BY DEF Search, SearchCount
<1> QED BY <1>1, <1>2, <1>3, <1>4, <1>5 DEF Next

LEMMA WriteKeeps ==
  ASSUME Library, Story, Requested, NEW q \in Requests, Write(q)
  PROVE  Library' /\ Story' /\ Requested'
<1>1. CASE CreateBookmark(q) \/ InsertBookmark(q) \/ UpdateBookmark(q) \/ WriteBookmark(q) \/ TagsForBookmark(q)
  BY <1>1, CreateBookmarkStep, InsertBookmarkStep, UpdateBookmarkStep, WriteBookmarkStep, TagsForBookmarkStep
<1>2. CASE ClearTags(q) \/ SelectTag(q) \/ InsertTag(q) \/ LinkTag(q) \/ Unindex(q) \/ Index(q)
  BY <1>2, ClearTagsStep, SelectTagStep, InsertTagStep, LinkTagStep, UnindexStep, IndexStep
<1>3. CASE SetTags(q) \/ NextId(q) \/ UpdateTag(q) \/ WriteTag(q) \/ DeleteTag(q) \/ DropTag(q) \/ Fails(q)
  BY <1>3, SetTagsStep, NextIdStep, UpdateTagStep, WriteTagStep, DeleteTagStep, DropTagStep, FailsStep
<1> QED BY <1>1, <1>2, <1>3 DEF Write

LEMMA StepKeeps == IInv /\ [Next]_vars => IInv'
<1> SUFFICES ASSUME IInv, [Next]_vars PROVE IInv'
  OBVIOUS
<1>1. CASE UNCHANGED vars
  <2>1. UNCHANGED <<row, text, tag, link, fts, req, begun, find, meant, settled, indexed>>
    BY <1>1 DEF vars
  <2>2. (\A b : NamesOf(b)' = NamesOf(b)) /\ \A term : FtsHits(term)' = FtsHits(term)
    BY <2>1, NamesStay, HitsStay DEF library
  <2>3. \A q \in Requests : SoFar(req[q])' <=> SoFar(req[q])
    BY <2>1, <2>2 DEF SoFar
  <2> QED BY <2>1, <2>2, <2>3 DEF IInv, Library, Story, Requested, Found, HasTag
<1>2. CASE Next
  <2>1. Library' /\ Story' /\ Requested'
    <3>1. CASE Search
      <4>1. UNCHANGED <<row, text, tag, link, fts, req, meant, settled, indexed>>
        BY <3>1 DEF Search, library, story
      <4>2. \A b : NamesOf(b)' = NamesOf(b)
        BY <4>1, NamesStay
      <4>3. \A q \in Requests : SoFar(req[q])' <=> SoFar(req[q])
        BY <4>1, <4>2 DEF SoFar
      <4> QED BY <4>1, <4>2, <4>3 DEF IInv, Library, Story, Requested, HasTag
    <3>2. CASE (\E q \in Requests : Write(q)) \/ DeleteBookmark \/ CreateTag
      BY <3>2, WriteKeeps, AsideStep DEF IInv
    <3> QED BY <1>2, <3>1, <3>2 DEF Next
  <2>2. Found'
    BY <1>2, FoundKeeps DEF Next, Search, IInv
  <2>3. begun' \in 0..MaxRequests
    BY <1>2, CountKeeps DEF IInv
  <2> QED BY <2>1, <2>2, <2>3 DEF IInv
<1> QED BY <1>1, <1>2

LEMMA Invariant == Spec => []IInv
BY InitHolds, StepKeeps, PTL DEF Spec

\* A bookmark is what its last request asked for, text and tags, when that ran to its end with
\* nobody else at work on the bookmark or on a tag, however many requests overlap and stop.
THEOREM KeptAsAsked == Spec => []AsAsked
<1>1. IInv => AsAsked
  BY DEF IInv, Library, Story, Requested, Found, AsAsked, TypeOK
<1> QED BY <1>1, Invariant, PTL

\* The index has one true row of such a bookmark, and a search over such bookmarks that nothing
\* is written next to finds exactly those that say the term, each once, and counts them.
THEOREM SearchIsTrue == Spec => []SearchTrue
<1>1. IInv => SearchTrue
  <2> SUFFICES ASSUME IInv PROVE SearchTrue
    OBVIOUS
  <2>1. IndexTrue
    BY DEF IInv, Story, IndexTrue, RowOf
  <2>2. FindsAll
    <3>1. PICK live, term, hits : live = {b \in Bookmarks : row[b] = "live"} /\ term = find.term /\ hits = find.hits
      OBVIOUS
    <3>2. SUFFICES ASSUME find.pc = "tags", find.calm, ~find.like, live \subseteq indexed
                   PROVE  /\ {i.bookmark : i \in Items} = {b \in live : Says(RowOf(b), term)}
                          /\ \A h, k \in hits : h[1] = k[1] => h = k
                          /\ find.total = Cardinality(hits)
                          /\ \A i \in Items : term = text[i.bookmark] \/ term \in i.names
      BY <3>1 DEF FindsAll
    <3>3. hits = FtsHits(term) /\ find.total = Cardinality(hits)
      BY <3>1, <3>2 DEF IInv, Found
    <3>4. \A b \in live : fts[b] = <<RowOf(b)>> /\ DOMAIN fts[b] = {1} /\ fts[b][1] = RowOf(b)
      BY <2>1, <3>2 DEF IndexTrue
    <3>5. hits = {<<b, 1>> : b \in {c \in live : Says(RowOf(c), term)}}
      <4>1. hits = UNION {{<<b, i>> : i \in {j \in DOMAIN fts[b] : Says(fts[b][j], term)}} : b \in live}
        BY <3>1, <3>3 DEF FtsHits
      <4>2. \A b \in live : {j \in DOMAIN fts[b] : Says(fts[b][j], term)} = IF Says(RowOf(b), term) THEN {1} ELSE {}
        BY <3>4
      <4> QED BY <4>1, <4>2
    <3>6. PICK S : S = {c \in live : Says(RowOf(c), term)}
      OBVIOUS
    <3>7. Items = {[bookmark |-> b, names |-> NamesOf(b)] : b \in S} /\ {i.bookmark : i \in Items} = S
      <4> DEFINE Item(b) == [bookmark |-> b, names |-> NamesOf(b)]
      <4>1. \A b : Item(b).bookmark = b
        OBVIOUS
      <4>2. Items = {Item(h[1]) : h \in hits} /\ Items = {[bookmark |-> h[1], names |-> NamesOf(h[1])] : h \in hits}
        BY <3>1 DEF Items
      <4> HIDE DEF Item
      <4>3. \A h \in hits : h[1] \in S
        BY <3>5, <3>6
      <4>4. \A b \in S : <<b, 1>> \in hits /\ <<b, 1>>[1] = b
        BY <3>5, <3>6
      <4>5. Items \subseteq {Item(b) : b \in S}
        BY <4>2, <4>3
      <4>6. {Item(b) : b \in S} \subseteq Items
        <5> SUFFICES ASSUME NEW b \in S PROVE Item(b) \in Items
          OBVIOUS
        <5>1. PICK h \in hits : h[1] = b
          BY <4>4
        <5> QED BY <4>2, <5>1
      <4>7. Items = {Item(b) : b \in S}
        BY <4>5, <4>6
      <4>8. {i.bookmark : i \in Items} = S
        BY <4>1, <4>7
      <4> QED BY <4>7, <4>8 DEF Item
    <3>8. \A h, k \in hits : h[1] = k[1] => h = k
      BY <3>5
    <3>9. \A i \in Items : term = text[i.bookmark] \/ term \in i.names
      BY <3>6, <3>7 DEF Says, RowOf
    <3> QED BY <3>3, <3>6, <3>7, <3>8, <3>9
  <2> QED BY <2>1, <2>2 DEF SearchTrue
<1> QED BY <1>1, Invariant, PTL
=============================================================================
