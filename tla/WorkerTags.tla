------------------------------ MODULE WorkerTags ------------------------------
(***************************************************************************)
(* Bookmarks, their tags and the search index of the Worker runtime: the   *)
(* tables bookmarks, tags, bookmark_tags and bookmarks_fts, the requests   *)
(* that write them, one D1 statement at a time, and a search.              *)
(*                                                                         *)
(* The order of a list, its pages, the colours of tags and the folders     *)
(* (see FolderTree) are left out.                                          *)
(***************************************************************************)
EXTENDS Integers, Sequences, FiniteSets

CONSTANTS
  Bookmarks, Tags,   \* ids, which are uuids: a row is inserted under each at most once
  Names,             \* of tags
  Texts,             \* what a title, a URL and a description may say together
  Present,           \* bookmarks that are there at first
  Requests,          \* requests in flight at the same time
  MaxRequests        \* how many there are in all

None == "none"
ASSUME SortsAssumption ==
  None \notin Bookmarks \cup Tags \cup Names \cup Texts /\ Names \cap {"free", "gone"} = {}
ASSUME BoundAssumption == Present \subseteq Bookmarks /\ MaxRequests \in Nat

VARIABLES
  row,       \* the row of each bookmark id, by its deleted_at
  text,      \* its title, url and description
  tag,       \* the name in the row of each tag id
  link,      \* the rows of bookmark_tags
  fts,       \* the rows of bookmarks_fts, by bookmark_id
  req,       \* what each request is about to do
  begun,     \* requests so far
  find,      \* a search
  meant,     \* history: what each bookmark was to be
  settled,   \* history: bookmarks whose last request ran to its end with no other at work on them
  indexed    \* history: those whose tags were not renamed, deleted or set by a batch since

library == <<row, text, tag, link, fts>>
story == <<meant, settled, indexed>>
vars == <<row, text, tag, link, fts, req, begun, find, meant, settled, indexed>>

Op == {"idle", "insert", "update", "names", "clear", "tags", "insert_tag", "link", "next",
       "unindex", "index", "rename", "drop"}

\* The bookmark it is at, those still to do, what it writes there; the tags asked for, still
\* to attach and attached; the tag in hand.
Request ==
  [op : Op, at : Bookmarks \cup {None}, more : SUBSET Bookmarks, batch : BOOLEAN,
   text : Texts \cup {None}, tagged : BOOLEAN, ask : SUBSET Names, todo : SUBSET Names,
   got : SUBSET Names, tag : Tags \cup {None}, name : Names \cup {None}, alone : BOOLEAN]
Idle ==
  [op |-> "idle", at |-> None, more |-> {}, batch |-> FALSE, text |-> None, tagged |-> FALSE,
   ask |-> {}, todo |-> {}, got |-> {}, tag |-> None, name |-> None, alone |-> FALSE]
NoSearch == [pc |-> "idle", term |-> None, total |-> 0, hits |-> {}, like |-> FALSE, calm |-> TRUE]

FtsRow == [text : Texts, names : SUBSET Names]
HasTag(t) == tag[t] \in Names
NamesOf(b) == {tag[t] : t \in {u \in Tags : <<b, u>> \in link}}

\* INSERT puts text and names of one row; the UNIQUE and FOREIGN KEY constraints of 0001 and 0005.
TypeOK ==
  /\ row \in [Bookmarks -> {"none", "live", "trash"}]
  /\ text \in [Bookmarks -> Texts]
  /\ tag \in [Tags -> Names \cup {"free", "gone"}]
  /\ \A t, u \in Tags : HasTag(t) /\ tag[t] = tag[u] => t = u
  /\ link \subseteq Bookmarks \X Tags /\ \A l \in link : HasTag(l[2])
  /\ fts \in [Bookmarks -> Seq(FtsRow)]
  /\ req \in [Requests -> Request] /\ begun \in 0..MaxRequests
  /\ find.pc \in {"idle", "rows", "tags", "like", "count"}
  /\ find.term \in Names \cup Texts \cup {None} /\ find.like \in BOOLEAN /\ find.calm \in BOOLEAN
  /\ meant \in [Bookmarks -> FtsRow]
  /\ settled \subseteq Bookmarks /\ indexed \subseteq settled

RowOf(b) == [text |-> text[b], names |-> NamesOf(b)]

Init ==
  /\ row = [b \in Bookmarks |-> IF b \in Present THEN "live" ELSE "none"]
  /\ text \in [Bookmarks -> Texts]
  /\ tag \in [Tags -> Names \cup {"free"}]
  /\ \A t, u \in Tags : HasTag(t) /\ tag[t] = tag[u] => t = u
  /\ link \in SUBSET (Present \X {t \in Tags : HasTag(t)})
  /\ fts = [b \in Bookmarks |-> IF b \in Present THEN <<RowOf(b)>> ELSE <<>>]
  /\ req = [q \in Requests |-> Idle] /\ begun = 0
  /\ find = NoSearch
  /\ meant = [b \in Bookmarks |-> RowOf(b)]
  /\ settled = Present /\ indexed = Present

-----------------------------------------------------------------------------
\* Requests and their history

Counted == begun < MaxRequests /\ begun' = begun + 1
AtWork(q, b) == \E p \in Requests \ {q} : req[p].at = b

\* Request q goes on as r says, now at r.at; one that was there before is not alone any more.
Comes(q, r) ==
  /\ req' = [p \in Requests |->
       IF p = q THEN [r EXCEPT !.alone = ~AtWork(q, r.at)]
       ELSE IF req[p].at = r.at THEN [req[p] EXCEPT !.alone = FALSE] ELSE req[p]]
  /\ indexed' = indexed \ {r.at}

Goes(q, r) == req' = [req EXCEPT ![q] = r] /\ UNCHANGED <<begun, story>>
Ends(q) == req' = [req EXCEPT ![q] = Idle]

\* A statement on a row of tags: whoever is at work with tags may have read it before.
Disturbs(q, r) ==
  req' = [p \in Requests |-> IF p = q THEN r
                             ELSE IF req[p].at # None THEN [req[p] EXCEPT !.alone = FALSE] ELSE req[p]]
Tagged(t) == {b \in Bookmarks : <<b, t>> \in link}

\* What the bookmark of a request is to be in the end.
Wanted(q) == [text |-> req[q].text, names |-> req[q].ask]
Settles(q) == IF req[q].at # None /\ req[q].alone THEN {req[q].at} ELSE {}

-----------------------------------------------------------------------------
\* setBookmarkTags

\* After one name: the next, or what comes after the tags.
Onward(r) == IF r.todo # {} THEN "tags" ELSE IF r.batch THEN "next" ELSE "unindex"

ClearLinks_Keep(b) == link
ClearLinks(b) == {l \in link : l[1] # b}
ClearTags(q) ==
  /\ req[q].op = "clear"
  /\ link' = ClearLinks(req[q].at)
  /\ LET r == [req[q] EXCEPT !.got = {}, !.todo = req[q].ask]
     IN Goes(q, [r EXCEPT !.op = Onward(r)])
  /\ UNCHANGED <<row, text, tag, fts>>

SelectTag(q) ==
  /\ req[q].op = "tags"
  /\ \E n \in req[q].todo :
       \/ \E t \in Tags : tag[t] = n /\ Goes(q, [req[q] EXCEPT !.op = "link", !.tag = t, !.name = n])
       \/ /\ \A t \in Tags : tag[t] # n
          /\ Goes(q, [req[q] EXCEPT !.op = "insert_tag", !.name = n])
  /\ UNCHANGED library

\* Nobody has inserted the name since it was looked for: else UNIQUE(user_id, name).
InsertTag(q) ==
  /\ req[q].op = "insert_tag" /\ \A t \in Tags : tag[t] # req[q].name
  /\ \E t \in Tags :
       /\ tag[t] = "free"
       /\ tag' = [tag EXCEPT ![t] = req[q].name]
       /\ Goes(q, [req[q] EXCEPT !.op = "link", !.tag = t])
  /\ UNCHANGED <<row, text, link, fts>>

\* INSERT OR IGNORE; the foreign key wants the tag to be there still.
LinkTag(q) ==
  /\ req[q].op = "link" /\ HasTag(req[q].tag)
  /\ link' = link \cup {<<req[q].at, req[q].tag>>}
  /\ LET r == [req[q] EXCEPT !.got = @ \cup {req[q].name}, !.todo = @ \ {req[q].name}]
     IN Goes(q, [r EXCEPT !.op = Onward(r)])
  /\ UNCHANGED <<row, text, tag, fts>>

-----------------------------------------------------------------------------
\* syncFts

Unindexed_Keep(b) == fts
Unindexed(b) == [fts EXCEPT ![b] = <<>>]
Unindex(q) ==
  /\ req[q].op = "unindex"
  /\ fts' = Unindexed(req[q].at)
  /\ Goes(q, [req[q] EXCEPT !.op = "index"])
  /\ UNCHANGED <<row, text, tag, link>>

IndexedAs(r) == [text |-> r.text, names |-> r.got]
Index(q) ==
  /\ req[q].op = "index"
  /\ fts' = [fts EXCEPT ![req[q].at] = Append(@, IndexedAs(req[q]))]
  /\ Ends(q)
  /\ settled' = settled \cup Settles(q) /\ indexed' = indexed \cup Settles(q)
  /\ meant' = [meant EXCEPT ![req[q].at] = Wanted(q)]
  /\ UNCHANGED <<row, text, tag, link, begun>>

-----------------------------------------------------------------------------
\* POST, PATCH and DELETE of bookmarks, POST /bookmarks/batch with set_tags

CreateBookmark(q) ==
  /\ req[q] = Idle /\ Counted
  /\ \E b \in Bookmarks, x \in Texts, ask \in SUBSET Names :
       /\ row[b] = "none" /\ ~AtWork(q, b)
       /\ Comes(q, [Idle EXCEPT !.op = "insert", !.at = b, !.text = x, !.tagged = ask # {}, !.ask = ask])
       /\ settled' = settled \ {b}
  /\ UNCHANGED <<library, meant>>

AfterRow(r) == IF r.tagged THEN "clear" ELSE "unindex"
InsertBookmark(q) ==
  /\ req[q].op = "insert"
  /\ row' = [row EXCEPT ![req[q].at] = "live"]
  /\ text' = [text EXCEPT ![req[q].at] = req[q].text]
  /\ Goes(q, [req[q] EXCEPT !.op = AfterRow(req[q])])
  /\ UNCHANGED <<tag, link, fts>>

\* What the body leaves out is written as it was read; without tags they stay.
UpdateBookmark(q) ==
  /\ req[q] = Idle /\ Counted
  /\ \E b \in Bookmarks, x \in Texts, tagged \in BOOLEAN, ask \in SUBSET Names :
       /\ row[b] = "live" /\ (~tagged => ask = NamesOf(b))
       /\ Comes(q, [Idle EXCEPT !.op = "update", !.at = b, !.text = x, !.tagged = tagged, !.ask = ask])
       /\ settled' = settled \ {b}
  /\ UNCHANGED <<library, meant>>

WriteBookmark(q) ==
  /\ req[q].op = "update"
  /\ text' = [text EXCEPT ![req[q].at] = req[q].text]
  /\ Goes(q, [req[q] EXCEPT !.op = "names"])
  /\ UNCHANGED <<row, tag, link, fts>>

\* tagsForBookmark
ReadNames_None(b) == {}
ReadNames(b) == NamesOf(b)
TagsForBookmark(q) ==
  /\ req[q].op = "names"
  /\ Goes(q, [req[q] EXCEPT !.op = AfterRow(req[q]), !.got = ReadNames(req[q].at)])
  /\ UNCHANGED library

DeleteBookmark ==
  /\ Counted
  /\ \E b \in Bookmarks : row[b] # "none" /\ row' = [row EXCEPT ![b] = "trash"]
  /\ UNCHANGED <<text, tag, link, fts, req, story>>

SetTags(q) ==
  /\ req[q] = Idle /\ Counted
  /\ \E ids \in SUBSET Bookmarks \ {{}}, ask \in SUBSET Names :
       req' = [req EXCEPT ![q] = [Idle EXCEPT !.op = "next", !.batch = TRUE, !.more = ids, !.ask = ask]]
  /\ UNCHANGED <<library, story>>

\* The loop over the ids passes over one that is not live.
NextId(q) ==
  /\ req[q].op = "next"
  /\ meant' = IF Settles(q) = {} THEN meant ELSE [meant EXCEPT ![req[q].at] = Wanted(q)]
  /\ \/ \E b \in req[q].more :
          LET rest == [req[q] EXCEPT !.more = @ \ {b}, !.at = None]
          IN IF row[b] = "live"
             THEN /\ Comes(q, [rest EXCEPT !.op = "clear", !.at = b, !.text = text[b]])
                  /\ settled' = (settled \cup Settles(q)) \ {b}
             ELSE /\ req' = [req EXCEPT ![q] = rest]
                  /\ settled' = settled \cup Settles(q) /\ UNCHANGED indexed
     \/ /\ req[q].more = {} /\ Ends(q)
        /\ settled' = settled \cup Settles(q) /\ UNCHANGED indexed
  /\ UNCHANGED <<library, begun>>

-----------------------------------------------------------------------------
\* POST, PATCH and DELETE of tags

CreateTag ==
  /\ Counted
  /\ \E t \in Tags, n \in Names :
       /\ tag[t] = "free" /\ \A u \in Tags : tag[u] # n
       /\ tag' = [tag EXCEPT ![t] = n]
  /\ UNCHANGED <<row, text, link, fts, req, story>>

\* A body without a name writes the name that was read.
UpdateTag(q) ==
  /\ req[q] = Idle /\ Counted
  /\ \E t \in Tags, n \in Names :
       /\ HasTag(t)
       /\ req' = [req EXCEPT ![q] = [Idle EXCEPT !.op = "rename", !.tag = t, !.name = n]]
  /\ UNCHANGED <<library, story>>

\* The rows that now say n for what they called m.
Renamed(names, m, n) == IF m \in names THEN (names \ {m}) \cup {n} ELSE names

WriteTag(q) ==
  /\ req[q].op = "rename"
  /\ LET t == req[q].tag
         n == req[q].name
     IN IF HasTag(t) /\ n # tag[t]
        THEN /\ \A u \in Tags : tag[u] # n
             /\ tag' = [tag EXCEPT ![t] = n]
             /\ Disturbs(q, Idle)
             /\ meant' = [b \in Bookmarks |-> [meant[b] EXCEPT !.names = Renamed(@, tag[t], n)]]
             /\ indexed' = indexed \ Tagged(t)
        ELSE Ends(q) /\ UNCHANGED <<tag, meant, indexed>>
  /\ UNCHANGED <<row, text, link, fts, begun, settled>>

\* Its first statement is its first step.
DeleteTag(q) ==
  /\ req[q] = Idle /\ Counted
  /\ \E t \in Tags :
       /\ tag[t] # "free"
       /\ link' = {l \in link : l[2] # t}
       /\ Disturbs(q, [Idle EXCEPT !.op = "drop", !.tag = t])
       /\ meant' = [b \in Bookmarks |-> [meant[b] EXCEPT !.names = @ \ {tag[t]}]]
       /\ indexed' = indexed \ Tagged(t)
  /\ UNCHANGED <<row, text, tag, fts, settled>>

\* The foreign key wants no bookmark to have got the tag meanwhile.
DropTag(q) ==
  /\ req[q].op = "drop" /\ Tagged(req[q].tag) = {}
  /\ tag' = [tag EXCEPT ![req[q].tag] = "gone"]
  /\ Ends(q)
  /\ UNCHANGED <<row, text, link, fts, begun, story>>

\* A statement throws, as those above that a constraint refuses do; the Worker is killed;
\* syncFts swallows what it meets and the request goes on to its answer.
Fails(q) ==
  /\ req[q] # Idle /\ Ends(q)
  /\ UNCHANGED <<library, begun, story>>

-----------------------------------------------------------------------------
\* GET /bookmarks?q=

Says(r, term) == r.text = term \/ term \in r.names

\* bookmarks_fts MATCH, joined with the live rows of bookmarks
FtsHits(term) ==
  UNION {{<<b, i>> : i \in {j \in DOMAIN fts[b] : Says(fts[b][j], term)}} :
           b \in {c \in Bookmarks : row[c] = "live"}}
\* title LIKE ? OR url LIKE ? OR description LIKE ?
LikeHits(term) == {<<b, 1>> : b \in {c \in Bookmarks : row[c] = "live" /\ text[c] = term}}

SearchCount ==
  /\ find.pc = "idle" /\ Counted
  /\ \E term \in Names \cup Texts :
       find' = [NoSearch EXCEPT !.pc = "rows", !.term = term, !.total = Cardinality(FtsHits(term))]

SearchRows ==
  /\ find.pc = "rows"
  /\ find' = [find EXCEPT !.pc = "tags", !.hits = FtsHits(find.term)]

\* Anything the index throws is caught.
FallsBack ==
  /\ find.pc \in {"rows", "tags"} /\ ~find.like
  /\ find' = [find EXCEPT !.pc = "like", !.like = TRUE]

LikeRows ==
  /\ find.pc = "like"
  /\ find' = [find EXCEPT !.pc = "count", !.hits = LikeHits(find.term)]

LikeCount ==
  /\ find.pc = "count"
  /\ find' = [find EXCEPT !.pc = "tags", !.total = Cardinality(LikeHits(find.term))]

\* tagsForBookmarks, and the answer
Items == {[bookmark |-> h[1], names |-> NamesOf(h[1])] : h \in find.hits}
Answers == find.pc = "tags" /\ find' = NoSearch

Search ==
  /\ SearchCount \/ ((SearchRows \/ FallsBack \/ LikeRows \/ LikeCount \/ Answers) /\ UNCHANGED begun)
  /\ UNCHANGED <<library, req, story>>

-----------------------------------------------------------------------------
Write(q) ==
  \/ CreateBookmark(q) \/ InsertBookmark(q) \/ UpdateBookmark(q) \/ WriteBookmark(q)
  \/ TagsForBookmark(q) \/ ClearTags(q) \/ SelectTag(q) \/ InsertTag(q) \/ LinkTag(q)
  \/ Unindex(q) \/ Index(q) \/ SetTags(q) \/ NextId(q)
  \/ UpdateTag(q) \/ WriteTag(q) \/ DeleteTag(q) \/ DropTag(q) \/ Fails(q)

\* A search that something is written next to is not calm.
Watched ==
  find' = IF find.pc = "idle" THEN find ELSE [find EXCEPT !.calm = @ /\ library' = library]

Next ==
  \/ ((\E q \in Requests : Write(q)) \/ DeleteBookmark \/ CreateTag) /\ Watched
  \/ Search

Spec == Init /\ [][Next]_vars

-----------------------------------------------------------------------------
\* Properties

\* A bookmark is what its last request asked for, the text as well as the tags, when that
\* request ran to its end with no other at work on the bookmark or on a tag, whatever was
\* renamed, deleted, killed or refused around it.
AsAsked ==
  TypeOK /\ \A b \in settled : text[b] = meant[b].text /\ NamesOf(b) = meant[b].names

\* Then it has one row in the index, which says the same, until its tags are changed by
\* another way than a request for the bookmark.
IndexTrue == \A b \in indexed : fts[b] = <<RowOf(b)>>

\* "search across title, URL, description, and tags": with such bookmarks alone, a search
\* that nothing is written next to finds what says the term, each once, with its tags.
FindsAll ==
  LET live == {b \in Bookmarks : row[b] = "live"}
  IN find.pc = "tags" /\ find.calm /\ ~find.like /\ live \subseteq indexed =>
       /\ {i.bookmark : i \in Items} = {b \in live : Says(RowOf(b), find.term)}
       /\ \A h, k \in find.hits : h[1] = k[1] => h = k
       /\ find.total = Cardinality(find.hits)
       /\ \A i \in Items : find.term = text[i.bookmark] \/ find.term \in i.names

\* Both: the index says what the bookmarks do, and a search what the index does.
SearchTrue == IndexTrue /\ FindsAll
=============================================================================
