-------------------------- MODULE ImportMerge_proofs --------------------------
(***************************************************************************)
(* Proofs about ImportMerge: the folders of an import are those its file   *)
(* names, what it reports as imported is there, and to import again what   *)
(* is already there changes nothing, for every file, library and number of *)
(* imports.                                                                *)
(*                                                                         *)
(* IInv holds four things of each import.  Good: how far it is in the file *)
(* and which folders it has.  Stands: these are rows at the places that    *)
(* the file says, unless the user moved them.  Works: the items before the *)
(* present one are live, or lost to the user.  Undisturbed: while nobody   *)
(* overlaps it, what it has read of the bookmarks is still so, and each of *)
(* its URLs is where the last item with it says.                           *)
(***************************************************************************)
EXTENDS ImportMerge, WellFoundedInduction, TLAPS

\* Items, by the ids and the paths that were made.
Made(ids, item) == item.export # "none" /\ ids[item.export] # 0
Cached(cache, q) == \A k \in 1..Len(q) : cache[SubSeq(q, 1, k)] # 0
Spot(ids, cache, item) ==
  IF Made(ids, item) THEN ids[item.export] ELSE IF item.path = <<>> THEN Inbox ELSE cache[item.path]
Settled(j, m) == Made(j.ids, file.items[m]) \/ Cached(j.cache, file.items[m].path)
SpotAt(j, m) == Spot(j.ids, j.cache, file.items[m])

\* What of the file an import has gone through.
Placed(j) ==
  /\ j.pc = "idle" => j = NoJob
  /\ j.pc \in {"identity", "rest"} => j.n = 0
  /\ j.pc \in {"walk", "create"} => Missing(j) # {} /\ (j.n = 0 => j.p \in 1..Len(file.paths))
  /\ j.pc \in {"check", "lookup", "update", "insert"} => j.n # 0 /\ Settled(j, j.n)
  /\ j.pc \in Running => j.n <= Len(file.items)
  /\ j.pc = "ok" => j.n = Len(file.items) + 1
  /\ \A m \in 1..Len(file.items) : m < j.n => Settled(j, m)

\* Folders by identity: parents first, and what is left in the end is in a cycle.
IdsOK(j) ==
  /\ \A e \in Exports : j.ids[e] # 0 => e \in file.exports
  /\ \A e \in file.exports : j.ids[e] # 0 /\ HasParent(e) /\ ~Caught(e) => j.ids[file.up[e]] # 0
  /\ j.pc = "identity" => \A e \in file.exports : j.ids[e] # 0 => ~Caught(e)
  /\ j.pc = "rest" => \A e \in file.exports : j.ids[e] = 0 => Caught(e)

\* Folders by path: those above first, and of the list no path twice.
CacheOK(j) ==
  /\ \A q \in Paths : j.cache[q] # 0 /\ Len(q) > 1 => j.cache[SubSeq(q, 1, Len(q) - 1)] # 0
  /\ j.pc \in {"walk", "create"} /\ j.n = 0 =>
       \A q \in Paths : j.cache[q] # 0 =>
         \E m \in 1..j.p : \E k \in 1..Len(file.paths[m]) : q = SubSeq(file.paths[m], 1, k)

\* The folders an import has made or found: where the file says, and live, but for
\* those the user has deleted or moved.
Points(j) ==
  (\A e \in Exports : j.ids[e] \in {0} \cup Ids) /\ (\A q \in Paths : j.cache[q] \in {0} \cup Ids)
TreeOf(j) ==
  \A e \in file.exports :
    j.ids[e] # 0 /\ j.ids[e] \notin moved =>
      folders[j.ids[e]].parent = IF HasParent(e) /\ ~Caught(e) THEN j.ids[file.up[e]] ELSE Root
PathsOf(j) ==
  \A q \in Paths :
    j.cache[q] # 0 /\ j.cache[q] \notin moved =>
      /\ folders[j.cache[q]].live
      /\ folders[j.cache[q]].name = NameOf(q) /\ folders[j.cache[q]].parent = ParentIn(j, q)
Stands(j) == Points(j) /\ TreeOf(j) /\ PathsOf(j)

UrlAt(m) == file.items[m].url

\* The items that import i, at j, has gone through.
Works(i, j) ==
  /\ \A m \in 1..Len(file.items) : m < j.n => UrlAt(m) \in lost[i] \/ IsLive(UrlAt(m))
  /\ j.pc = "update" =>
       /\ j.hit \in DOMAIN bookmarks /\ bookmarks[j.hit].url = UrlAt(j.n)
       /\ bookmarks[j.hit].live \/ UrlAt(j.n) \in lost[i]

\* The last item with a URL so far has its bookmark where the file says.
LastSoFar(j, m) == m < j.n /\ \A l \in m+1..j.n-1 : UrlAt(l) # UrlAt(m)
Landed(i, j) ==
  \A m \in 1..Len(file.items) : LastSoFar(j, m) =>
      \/ UrlAt(m) \in lost[i] \/ SpotAt(j, m) \in moved
      \/ HitsIn(UrlAt(m), SpotAt(j, m)) # {}

\* An import that nobody overlaps knows what it is about to write beside.
Steady(i, j) ==
  /\ \A k \in Imports \ {i} : job[k].pc \notin Running
  /\ j.pc = "insert" => Hits(UrlAt(j.n)) = {}
  /\ j.pc = "update" /\ moved = {} /\ HitsIn(UrlAt(j.n), SpotAt(j, j.n)) # {} =>
       bookmarks[j.hit].home = SpotAt(j, j.n)
  /\ j.strategy = "merge" => Landed(i, j)

Undisturbed(i, j) == i \in alone /\ j.pc \in Running => Steady(i, j)

\* The folder that is being deleted, and where its content goes.
Removal == removal.pc # "idle" => removal.at \in moved /\ removal.to \in Ids

Good(j) == j \in Job /\ Placed(j) /\ IdsOK(j) /\ CacheOK(j)

IInv ==
  /\ TypeOK /\ Removal /\ Inbox \in Ids
  /\ \A i \in Imports : Good(job[i]) /\ Stands(job[i]) /\ Works(i, job[i]) /\ Undisturbed(i, job[i])

\* What an import keeps whatever it is about to do.
Core(j) ==
  /\ j \in Job
  /\ \A e \in Exports : j.ids[e] # 0 => e \in file.exports
  /\ \A e \in file.exports : j.ids[e] # 0 /\ HasParent(e) /\ ~Caught(e) => j.ids[file.up[e]] # 0
  /\ \A q \in Paths : j.cache[q] # 0 /\ Len(q) > 1 => j.cache[SubSeq(q, 1, Len(q) - 1)] # 0
  /\ \A m \in 1..Len(file.items) : m < j.n => Settled(j, m)

\* The paths that were made are those of the list up to p.
Listed(j) ==
  \A q \in Paths : j.cache[q] # 0 =>
    \E m \in 1..j.p : \E k \in 1..Len(file.paths[m]) : q = SubSeq(file.paths[m], 1, k)

\* What it has made stays when it goes on from j to r.
Carries(j, r) == r \in Job /\ r.ids = j.ids /\ r.cache = j.cache /\ r.strategy = j.strategy

-----------------------------------------------------------------------------
\* Numbers and sequences

\* Of a set of numbers with a member there is a least one, and if they are bounded a
\* greatest one.
LEMMA LeastOne ==
  ASSUME NEW S, S \subseteq Nat, S # {}
  PROVE  Min(S) \in S /\ \A y \in S : Min(S) <= y
<1>1. PICK x \in S : \A y \in S : ~ (<<y, x>> \in OpToRel(<, Nat))
  BY NatLessThanWellFounded, WFMin
<1>2. \A y \in S : ~ (y < x)
  BY <1>1 DEF OpToRel
<1>3. \A y \in S : x <= y
  BY <1>2
<1> QED BY <1>1, <1>3 DEF Min

LEMMA GreatestOne ==
  ASSUME NEW S, NEW n \in Nat, S \subseteq 1..n, S # {}
  PROVE  Max(S) \in S /\ \A y \in S : Max(S) >= y
<1> DEFINE T == {x \in Nat : \A y \in S : y <= x}
<1>1. n \in T
  OBVIOUS
<1>2. PICK x \in T : \A y \in T : ~ (<<y, x>> \in OpToRel(<, Nat))
  BY <1>1, NatLessThanWellFounded, WFMin
<1>3. \A y \in T : ~ (y < x)
  BY <1>2 DEF OpToRel
<1>4. x \in S
  <2> SUFFICES ASSUME x \notin S PROVE FALSE
    OBVIOUS
  <2>1. PICK y \in S : TRUE
    OBVIOUS
  <2>2. x - 1 \in Nat /\ \A z \in S : z <= x - 1
    BY <2>1
  <2> QED BY <1>3, <2>2
<1>5. x \in S /\ \A y \in S : x >= y
  BY <1>4
<1> QED BY <1>5 DEF Max

\* The beginnings of a path.
LEMMA Beginnings ==
  ASSUME NEW q \in Seq(STRING), NEW k \in 1..Len(q)
  PROVE  /\ SubSeq(q, 1, k) \in Seq(STRING) /\ Len(SubSeq(q, 1, k)) = k
         /\ \A m \in 1..k : SubSeq(q, 1, k)[m] = q[m] /\ SubSeq(SubSeq(q, 1, k), 1, m) = SubSeq(q, 1, m)
         /\ SubSeq(q, 1, Len(q)) = q
OBVIOUS

LEMMA PathFacts ==
  ASSUME NEW q \in Paths
  PROVE  /\ q \in Seq(STRING) /\ Len(q) \in Nat \ {0}
         /\ \A k \in 1..Len(q) : SubSeq(q, 1, k) \in Paths /\ Len(SubSeq(q, 1, k)) = k
         /\ \A k \in 1..Len(q) : \A m \in 1..k : SubSeq(SubSeq(q, 1, k), 1, m) = SubSeq(q, 1, m)
         /\ SubSeq(q, 1, Len(q)) = q
<1>1. q \in Seq(STRING) /\ Len(q) \in Nat \ {0}
  BY NamesAssumption, PathsAssumption
<1>2. \A k \in 1..Len(q) : SubSeq(q, 1, k) \in Paths
  BY PathsAssumption
<1>3. SubSeq(q, 1, Len(q)) = q
  BY <1>1, Beginnings
<1> QED BY <1>1, <1>2, <1>3, Beginnings

-----------------------------------------------------------------------------
\* An import between two statements

LEMMA FileFacts ==
  ASSUME file \in Files
  PROVE  /\ file.exports \subseteq Exports /\ file.up \in [Exports -> Exports \cup {"none"}]
         /\ file.paths \in Seq(Paths) /\ file.items \in Seq(FileItem)
         /\ Len(file.paths) \in Nat /\ Len(file.items) \in Nat
         /\ \A m \in 1..Len(file.paths) : file.paths[m] \in Paths
         /\ \A m, n \in 1..Len(file.paths) :
              m < n => Len(file.paths[m]) <= Len(file.paths[n]) /\ file.paths[m] # file.paths[n]
         /\ \A n \in 1..Len(file.items) :
              /\ file.items[n].url \in Urls /\ file.items[n].path \in Paths \cup {<<>>}
              /\ file.items[n].export \in Exports \cup {"none"}
         /\ "none" \notin Exports
<1>1. IsFile(file)
  BY FilesAssumption
<1>2. \A n \in 1..Len(file.items) : file.items[n] \in FileItem
  BY <1>1 DEF IsFile
<1>3. \A n \in 1..Len(file.items) :
              /\ file.items[n].url \in Urls /\ file.items[n].path \in Paths \cup {<<>>}
              /\ file.items[n].export \in Exports \cup {"none"}
  BY <1>2 DEF FileItem
<1> QED BY <1>1, <1>3, EditsAssumption DEF IsFile

LEMMA GoodIsCore == ASSUME NEW j, Good(j) PROVE Core(j)
BY DEF Good, Core, Placed, IdsOK, CacheOK

\* The path an import is at, and whether it is made.
LEMMA GoalFacts ==
  ASSUME NEW j \in Job, file \in Files, j.n <= Len(file.items), j.n = 0 => j.p \in 1..Len(file.paths)
  PROVE  /\ Goal(j) \in Paths \cup {<<>>} /\ (j.n = 0 => Goal(j) = file.paths[j.p] /\ Goal(j) \in Paths)
         /\ j.n # 0 => Goal(j) = file.items[j.n].path
         /\ Len(Goal(j)) \in Nat
         /\ Missing(j) \subseteq 1..Len(Goal(j))
         /\ Missing(j) = {} <=> Cached(j.cache, Goal(j))
<1>1. j.n \in Nat
  BY DEF Job
<1>2. CASE j.n = 0
  <2>1. Goal(j) = file.paths[j.p]
    BY <1>2 DEF Goal
  <2>2. Goal(j) \in Paths
    BY <1>2, <2>1, FileFacts
  <2>3. Len(Goal(j)) \in Nat
    BY <2>2, PathFacts
  <2> QED BY <1>2, <2>1, <2>2, <2>3 DEF Missing, Cached
<1>3. CASE j.n # 0
  <2>1. Goal(j) = file.items[j.n].path
    BY <1>3 DEF Goal
  <2>2. Goal(j) \in Paths \cup {<<>>}
    BY <1>1, <1>3, <2>1, FileFacts
  <2>3. Len(Goal(j)) \in Nat
    BY <2>2, PathFacts
  <2> QED BY <1>3, <2>1, <2>2, <2>3 DEF Missing, Cached
<1> QED BY <1>2, <1>3

LEMMA ItemFacts ==
  ASSUME NEW j \in Job, file \in Files, j.n # 0
  PROVE  /\ ByExport(j) <=> Made(j.ids, file.items[j.n])
         /\ Target(j) = SpotAt(j, j.n)
<1>1. ByExport(j) <=> Made(j.ids, file.items[j.n])
  BY DEF ByExport, Made
<1>2. Goal(j) = file.items[j.n].path
  BY DEF Goal
<1>3. Target(j) = SpotAt(j, j.n)
  <2>1. CASE ByExport(j)
    BY <1>1, <2>1 DEF Target, SpotAt, Spot
  <2>2. CASE ~ByExport(j) /\ Goal(j) = <<>>
    BY <1>1, <1>2, <2>2 DEF Target, SpotAt, Spot
  <2>3. CASE ~ByExport(j) /\ Goal(j) # <<>>
    BY <1>1, <1>2, <2>3 DEF Target, SpotAt, Spot
  <2> QED BY <2>1, <2>2, <2>3
<1> QED BY <1>1, <1>3

\* What an import has made for an item stays made, and the same.
LEMMA NextItemGood ==
  ASSUME NEW j, file \in Files, Core(j), j.n \in 0..Len(file.items), j.n # 0 => Settled(j, j.n)
  PROVE  /\ Good(NextItem(j)) /\ Carries(j, NextItem(j)) /\ NextItem(j).n = j.n + 1
         /\ NextItem(j).pc \in {"ok", "check", "walk"}
<1>0. PICK k : k = [j EXCEPT !.n = @ + 1, !.hit = 0]
  OBVIOUS
<1>1. PICK r : r = NextItem(j)
  OBVIOUS
<1>2. j \in Job
  BY DEF Core
<1>3. k \in Job /\ k.ids = j.ids /\ k.cache = j.cache /\ k.strategy = j.strategy /\ k.n = j.n + 1
  <2>1. j.n + 1 \in Nat
    BY <1>2 DEF Job
  <2>2. k \in Job
    BY <1>0, <1>2, <2>1 DEF Job
  <2> QED BY <1>0, <1>2, <2>2 DEF Job
<1>4. \E p \in {"ok", "check", "walk"} : r = [k EXCEPT !.pc = p]
  BY <1>0, <1>1 DEF NextItem
<1>5. /\ r \in Job /\ r.ids = j.ids /\ r.cache = j.cache /\ r.strategy = j.strategy
      /\ r.n = j.n + 1 /\ r.pc \in {"ok", "check", "walk"}
  BY <1>3, <1>4 DEF Job, Running, Finished
<1>6. \A m \in 1..Len(file.items) : m < r.n => Settled(r, m)
  BY <1>2, <1>5 DEF Core, Settled, Job
<1>7. r.n # 0 /\ j.n \in Nat /\ r.n \in Nat /\ Len(file.items) \in Nat
  BY <1>2, <1>5, FileFacts DEF Job
<1>8. CASE r.n > Len(file.items)
  <2>1. r.pc = "ok"
    BY <1>0, <1>1, <1>3, <1>5, <1>8 DEF NextItem, Job
  <2>2. r.n = Len(file.items) + 1
    BY <1>5, <1>7, <1>8
  <2>3. Placed(r)
    BY <1>6, <2>1, <2>2 DEF Placed, Running
  <2>4. IdsOK(r) /\ CacheOK(r)
    BY <1>5, <2>1 DEF IdsOK, CacheOK, Core
  <2> QED BY <1>1, <1>5, <2>3, <2>4 DEF Good, Carries
<1>9. CASE r.n <= Len(file.items)
  <2>1. r.pc = (IF ByExport(k) \/ Missing(k) = {} THEN "check" ELSE "walk")
    <3>1. ~(k.n > Len(file.items))
      BY <1>3, <1>5, <1>7, <1>9
    <3>2. r = [k EXCEPT !.pc = IF ByExport(k) \/ Missing(k) = {} THEN "check" ELSE "walk"]
      BY <1>0, <1>1, <3>1 DEF NextItem
    <3> QED BY <1>3, <3>2 DEF Job
  <2>2. r.pc = "check" => Settled(r, r.n)
    <3> SUFFICES ASSUME r.pc = "check" PROVE Settled(r, r.n)
      OBVIOUS
    <3>1. ByExport(k) \/ Missing(k) = {}
      BY <2>1
    <3>2. ByExport(k) <=> Made(k.ids, file.items[k.n])
      BY <1>3, <1>5, <1>7, ItemFacts
    <3>3. Missing(k) = {} <=> Cached(k.cache, file.items[k.n].path)
      BY <1>3, <1>5, <1>7, <1>9, GoalFacts
    <3> QED BY <1>3, <1>5, <3>1, <3>2, <3>3 DEF Settled
  <2>3. r.pc = "walk" => Missing(r) # {}
    <3>1. Goal(r) = Goal(k)
      BY <1>3, <1>5 DEF Goal
    <3>2. Missing(r) = Missing(k)
      BY <1>3, <1>5, <3>1 DEF Missing
    <3> QED BY <2>1, <3>2
  <2>4. r.pc # "ok"
    BY <2>1
  <2>5. Placed(r)
    BY <1>5, <1>6, <1>7, <1>9, <2>2, <2>3, <2>4 DEF Placed
  <2>6. IdsOK(r) /\ CacheOK(r)
    BY <1>5, <1>7 DEF IdsOK, CacheOK, Core
  <2> QED BY <1>1, <1>5, <2>5, <2>6 DEF Good, Carries
<1> QED BY <1>7, <1>8, <1>9

\* After a folder of a path.
LEMMA OnwardGood ==
  ASSUME NEW j, file \in Files, Core(j), j.n \in 0..Len(file.items),
         j.n = 0 => j.p \in 1..Len(file.paths) /\ Listed(j)
  PROVE  /\ Good(Onward(j)) /\ Carries(j, Onward(j)) /\ Onward(j).pc \in {"ok", "check", "walk"}
         /\ Onward(j).n = j.n \/ (j.n = 0 /\ Onward(j).n = 1)
<1>1. PICK r : r = Onward(j)
  OBVIOUS
<1>2. j \in Job /\ j.n \in Nat
  BY DEF Core, Job
<1>3. /\ Goal(j) \in Paths \cup {<<>>} /\ (j.n # 0 => Goal(j) = file.items[j.n].path)
      /\ Missing(j) = {} <=> Cached(j.cache, Goal(j))
  BY <1>2, GoalFacts
<1>a. ASSUME NEW c \in {"check", "walk"}, r = [j EXCEPT !.pc = c],
             c = "walk" => Missing(j) # {}, c = "check" => j.n # 0 /\ Missing(j) = {}
      PROVE  Good(r) /\ Carries(j, r) /\ r.pc \in {"ok", "check", "walk"} /\ r.n = j.n
  <2>1. /\ r \in Job /\ r.ids = j.ids /\ r.cache = j.cache /\ r.strategy = j.strategy
        /\ r.n = j.n /\ r.p = j.p /\ r.pc = c
    BY <1>2, <1>a DEF Job, Running
  <2>2. \A m \in 1..Len(file.items) : m < r.n => Settled(r, m)
    BY <2>1 DEF Core, Settled
  <2>3. Missing(r) = Missing(j)
    BY <2>1 DEF Missing, Goal
  <2>4. c = "check" => Settled(r, r.n)
    BY <1>3, <1>a, <2>1 DEF Settled
  <2>5. r.n <= Len(file.items)
    BY <2>1
  <2>6. Placed(r)
    BY <1>a, <2>1, <2>2, <2>3, <2>4, <2>5 DEF Placed
  <2>7. IdsOK(r)
    BY <2>1 DEF IdsOK, Core
  <2>8. CacheOK(r)
    BY <2>1 DEF CacheOK, Core, Listed
  <2> QED BY <2>1, <2>6, <2>7, <2>8 DEF Good, Carries
<1>4. CASE Missing(j) # {}
  <2>1. r = [j EXCEPT !.pc = "walk"]
    BY <1>1, <1>4 DEF Onward
  <2> QED BY <1>1, <1>4, <1>a, <2>1
<1>5. CASE Missing(j) = {} /\ j.n > 0
  <2>1. r = [j EXCEPT !.pc = "check"]
    BY <1>1, <1>5 DEF Onward
  <2> QED BY <1>1, <1>5, <1>a, <2>1
<1>6. CASE Missing(j) = {} /\ j.n = 0 /\ j.p < Len(file.paths)
  <2>0. j.p \in 1..Len(file.paths) /\ Listed(j) /\ j.p + 1 \in 1..Len(file.paths) /\ Len(file.paths) \in Nat
    BY <1>6, FileFacts
  <2>1. r = [j EXCEPT !.p = @ + 1, !.pc = "walk"]
    BY <1>1, <1>2, <1>6 DEF Onward
  <2>2. /\ r \in Job /\ r.ids = j.ids /\ r.cache = j.cache /\ r.strategy = j.strategy
        /\ r.n = 0 /\ r.p = j.p + 1 /\ r.pc = "walk"
    <3>1. j.p + 1 \in Nat
      BY <2>0
    <3>2. r \in Job
      BY <1>2, <2>1, <3>1 DEF Job, Running
    <3> QED BY <1>2, <1>6, <2>1, <3>2 DEF Job
  <2>3. PICK q : q = file.paths[r.p]
    OBVIOUS
  <2>4. q \in Paths /\ Len(q) \in Nat \ {0} /\ SubSeq(q, 1, Len(q)) = q
    BY <2>0, <2>2, <2>3, FileFacts, PathFacts
  <2>5. j.cache[q] = 0
    <3> SUFFICES ASSUME j.cache[q] # 0 PROVE FALSE
      OBVIOUS
    <3>1. PICK m \in 1..j.p : \E k \in 1..Len(file.paths[m]) : q = SubSeq(file.paths[m], 1, k)
      BY <2>0, <2>4 DEF Listed
    <3>2. PICK k \in 1..Len(file.paths[m]) : q = SubSeq(file.paths[m], 1, k)
      BY <3>1
    <3>3. m \in 1..Len(file.paths) /\ m < r.p /\ r.p \in 1..Len(file.paths)
      BY <2>0, <2>2
    <3>4. Len(file.paths[m]) <= Len(q) /\ file.paths[m] # q /\ file.paths[m] \in Paths
      BY <2>3, <3>3, FileFacts
    <3>5. Len(q) = k /\ SubSeq(file.paths[m], 1, Len(file.paths[m])) = file.paths[m] /\ Len(file.paths[m]) \in Nat
      BY <3>2, <3>4, PathFacts
    <3>6. k = Len(file.paths[m])
      BY <3>4, <3>5
    <3> QED BY <3>2, <3>4, <3>5, <3>6
  <2>6. Len(q) \in Missing(r)
    <3>1. Goal(r) = q
      BY <2>2, <2>3 DEF Goal
    <3>2. SubSeq(Goal(r), 1, Len(q)) = q
      BY <2>4, <3>1, Zenon
    <3>3. r.cache[SubSeq(Goal(r), 1, Len(q))] = 0
      BY <2>2, <2>5, <3>2, Zenon
    <3>4. Len(q) \in 1..Len(Goal(r))
      BY <2>4, <3>1
    <3> QED BY <3>3, <3>4 DEF Missing
  <2>7. Placed(r)
    <3>1. r.p \in 1..Len(file.paths) /\ r.n <= Len(file.items)
      BY <2>0, <2>2, FileFacts
    <3>2. \A m \in 1..Len(file.items) : m < r.n => Settled(r, m)
      BY <1>6, <2>2 DEF Core, Settled
    <3> QED BY <2>2, <2>6, <3>1, <3>2 DEF Placed
  <2>8. IdsOK(r)
    BY <2>2 DEF IdsOK, Core
  <2>9. CacheOK(r)
    <3>1. ASSUME NEW p \in Paths, r.cache[p] # 0
          PROVE  \E m \in 1..r.p : \E k \in 1..Len(file.paths[m]) : p = SubSeq(file.paths[m], 1, k)
      <4>1. PICK m \in 1..j.p : \E k \in 1..Len(file.paths[m]) : p = SubSeq(file.paths[m], 1, k)
        BY <2>0, <2>2, <3>1 DEF Listed
      <4>2. m \in 1..r.p
        BY <2>0, <2>2
      <4> QED BY <4>1, <4>2
    <3> QED BY <2>2, <3>1 DEF CacheOK, Core
  <2> QED BY <1>1, <1>6, <2>2, <2>7, <2>8, <2>9 DEF Good, Carries
<1>7. CASE Missing(j) = {} /\ j.n = 0 /\ ~(j.p < Len(file.paths))
  <2>1. r = NextItem(j)
    BY <1>1, <1>7 DEF Onward
  <2> QED BY <1>1, <1>7, <2>1, NextItemGood
<1> QED BY <1>2, <1>4, <1>5, <1>6, <1>7

\* Folders by identity: those left when none can be inserted below its parent go on up
\* for ever.
LEMMA AfterExportedGood ==
  ASSUME NEW j, file \in Files, Core(j), j.n = 0, \A e \in file.exports : j.ids[e] # 0 => ~Caught(e)
  PROVE  /\ Good(AfterExported(j)) /\ Carries(j, AfterExported(j))
         /\ AfterExported(j).pc \in {"ok", "check", "walk", "identity", "rest"}
         /\ AfterExported(j).n \in {0, 1}
<1>1. PICK r : r = AfterExported(j)
  OBVIOUS
<1>2. j \in Job /\ 0 \in 0..Len(file.items) /\ Len(file.items) \in Nat
  BY FileFacts DEF Core
<1>3. CASE Left(j) = {}
  <2>1. r = NextItem(j)
    BY <1>1, <1>3 DEF AfterExported
  <2> QED BY <1>1, <1>2, <2>1, NextItemGood
<1>4. CASE Left(j) # {}
  <2>1. PICK c \in {"identity", "rest"} : c = (IF Insertable(j) = {} THEN "rest" ELSE "identity")
    OBVIOUS
  <2>2. r = [j EXCEPT !.pc = c]
    BY <1>1, <1>4, <2>1 DEF AfterExported
  <2>3. /\ r \in Job /\ r.ids = j.ids /\ r.cache = j.cache /\ r.strategy = j.strategy
        /\ r.n = 0 /\ r.pc = c
    BY <1>2, <2>2 DEF Job, Running
  <2>4. c = "rest" => \A e \in file.exports : j.ids[e] = 0 => Caught(e)
    <3> SUFFICES ASSUME Insertable(j) = {}, NEW e \in file.exports, j.ids[e] = 0 PROVE Caught(e)
      BY <2>1
    <3>1. Left(j) \in SUBSET file.exports /\ e \in Left(j)
      BY DEF Left
    <3>2. \A x \in Left(j) : HasParent(x) /\ file.up[x] \in Left(j)
      BY DEF Insertable, Left, HasParent
    <3> QED BY <3>1, <3>2 DEF Caught
  <2>5. IdsOK(r)
    BY <2>3, <2>4 DEF IdsOK, Core
  <2>6. CacheOK(r)
    BY <2>1, <2>3 DEF CacheOK, Core
  <2>7. \A m \in 1..Len(file.items) : m < r.n => Settled(r, m)
    BY <2>3 DEF Core, Settled
  <2>8. Placed(r)
    BY <1>2, <2>1, <2>3, <2>7 DEF Placed
  <2> QED BY <1>1, <2>1, <2>3, <2>5, <2>6, <2>8 DEF Good, Carries
<1> QED BY <1>3, <1>4

\* The folder that is next on a path: those above it are made, itself is not.
LEMMA PrefixFacts ==
  ASSUME NEW j, file \in Files, Good(j), j.pc \in {"walk", "create"}
  PROVE  /\ Prefix(j) \in Paths /\ j.cache[Prefix(j)] = 0
         /\ Len(Prefix(j)) > 1 => j.cache[SubSeq(Prefix(j), 1, Len(Prefix(j)) - 1)] # 0
         /\ \E k \in 1..Len(Goal(j)) : Prefix(j) = SubSeq(Goal(j), 1, k)
         /\ j.n = 0 => Goal(j) = file.paths[j.p]
<1>1. j \in Job /\ Missing(j) # {} /\ (j.n = 0 => j.p \in 1..Len(file.paths)) /\ j.n <= Len(file.items)
  BY DEF Good, Placed, Running
<1>2. /\ Goal(j) \in Paths \cup {<<>>} /\ Len(Goal(j)) \in Nat /\ Missing(j) \subseteq 1..Len(Goal(j))
      /\ j.n = 0 => Goal(j) = file.paths[j.p]
  BY <1>1, GoalFacts
<1>3. Missing(j) \subseteq Nat
  BY <1>2
<1>4. PICK k : k = Min(Missing(j))
  OBVIOUS
<1>5. k \in Missing(j) /\ \A y \in Missing(j) : k <= y
  BY <1>1, <1>3, <1>4, LeastOne
<1>6. k \in 1..Len(Goal(j)) /\ Goal(j) \in Paths
  BY <1>2, <1>5
<1>7. PICK q : q = Prefix(j)
  OBVIOUS
<1>8. q = SubSeq(Goal(j), 1, k)
  BY <1>4, <1>7 DEF Prefix
<1>9. q \in Paths /\ Len(q) = k
  BY <1>6, <1>8, PathFacts
<1>10. j.cache[q] = 0
  BY <1>5, <1>8 DEF Missing
<1>11. ASSUME Len(q) > 1 PROVE j.cache[SubSeq(q, 1, Len(q) - 1)] # 0
  <2>1. k - 1 \in 1..Len(Goal(j)) /\ k - 1 \in 1..k /\ k - 1 < k
    BY <1>6, <1>9, <1>11
  <2>2. k - 1 \notin Missing(j)
    BY <1>2, <1>5, <2>1
  <2>3. j.cache[SubSeq(Goal(j), 1, k - 1)] # 0
    BY <2>1, <2>2 DEF Missing
  <2>4. SubSeq(q, 1, k - 1) = SubSeq(Goal(j), 1, k - 1)
    BY <1>6, <1>8, <2>1, PathFacts
  <2> QED BY <1>9, <2>3, <2>4
<1> QED BY <1>2, <1>6, <1>7, <1>8, <1>9, <1>10, <1>11

\* The job with this folder in the cache.
LEMMA CacheGrows ==
  ASSUME NEW j, NEW f \in Nat \ {0}, file \in Files, Good(j), j.pc \in {"walk", "create"},
         NEW k, k = [j EXCEPT !.cache[Prefix(j)] = f]
  PROVE  /\ Core(k) /\ k.n = j.n /\ k.ids = j.ids /\ k.strategy = j.strategy /\ k.pc = j.pc
         /\ k.cache = [j.cache EXCEPT ![Prefix(j)] = f]
         /\ k.n \in 0..Len(file.items)
         /\ k.n = 0 => k.p \in 1..Len(file.paths) /\ Listed(k)
<1>1. PICK q : q = Prefix(j)
  OBVIOUS
<1>2. /\ q \in Paths /\ j.cache[q] = 0 /\ (Len(q) > 1 => j.cache[SubSeq(q, 1, Len(q) - 1)] # 0)
      /\ \E m \in 1..Len(Goal(j)) : q = SubSeq(Goal(j), 1, m)
      /\ j.n = 0 => Goal(j) = file.paths[j.p]
  BY <1>1, PrefixFacts
<1>3. j \in Job /\ Core(j)
  BY GoodIsCore DEF Good
<1>4. k = [j EXCEPT !.cache = [j.cache EXCEPT ![q] = f]] /\ j.cache \in [Paths -> Nat]
  BY <1>1, <1>3 DEF Job
<1>5. PICK c : c = [j.cache EXCEPT ![q] = f]
  OBVIOUS
<1>6. c \in [Paths -> Nat] /\ c[q] = f /\ \A x \in Paths : x # q => c[x] = j.cache[x]
  BY <1>2, <1>4, <1>5
<1>7. /\ k \in Job /\ k.cache = c /\ k.ids = j.ids /\ k.n = j.n /\ k.p = j.p
      /\ k.strategy = j.strategy /\ k.pc = j.pc
  BY <1>3, <1>4, <1>5, <1>6 DEF Job
<1>8. \A x \in Paths : j.cache[x] # 0 => c[x] # 0
  BY <1>2, <1>6
<1>9. \A x \in Paths : c[x] # 0 /\ Len(x) > 1 => c[SubSeq(x, 1, Len(x) - 1)] # 0
  <2> SUFFICES ASSUME NEW x \in Paths, c[x] # 0, Len(x) > 1 PROVE c[SubSeq(x, 1, Len(x) - 1)] # 0
    OBVIOUS
  <2>1. Len(x) - 1 \in 1..Len(x) /\ Len(x) \in Nat
    BY PathFacts
  <2>2. SubSeq(x, 1, Len(x) - 1) \in Paths
    BY <2>1, PathsAssumption
  <2>3. j.cache[SubSeq(x, 1, Len(x) - 1)] # 0
    BY <1>2, <1>3, <1>6 DEF Core
  <2> QED BY <1>8, <2>2, <2>3
<1>10. \A m \in 1..Len(file.items) : m < k.n => Settled(k, m)
  <2> SUFFICES ASSUME NEW m \in 1..Len(file.items), m < k.n PROVE Settled(k, m)
    OBVIOUS
  <2>1. Settled(j, m) /\ file.items[m].path \in Paths \cup {<<>>}
    BY <1>3, <1>7, FileFacts DEF Core
  <2>2. CASE Made(j.ids, file.items[m])
    BY <1>7, <2>2 DEF Settled
  <2>3. CASE Cached(j.cache, file.items[m].path)
    <3>1. \A n \in 1..Len(file.items[m].path) : SubSeq(file.items[m].path, 1, n) \in Paths
      BY <2>1, PathsAssumption
    <3>2. Cached(c, file.items[m].path)
      BY <1>8, <2>3, <3>1 DEF Cached
    <3> QED BY <1>7, <3>2 DEF Settled
  <2> QED BY <2>1, <2>2, <2>3 DEF Settled
<1>11. Core(k)
  BY <1>3, <1>7, <1>9, <1>10 DEF Core
<1>12. j.n <= Len(file.items) /\ (j.n = 0 => j.p \in 1..Len(file.paths) /\ Listed(j)) /\ j.n \in Nat
  BY <1>3 DEF Good, Placed, CacheOK, Listed, Running, Job
<1>13. k.n = 0 => Listed(k)
  <2> SUFFICES ASSUME k.n = 0, NEW x \in Paths, k.cache[x] # 0
               PROVE  \E m \in 1..k.p : \E n \in 1..Len(file.paths[m]) : x = SubSeq(file.paths[m], 1, n)
    BY DEF Listed
  <2>1. CASE x = q
    <3>1. j.p \in 1..j.p
      BY <1>7, <1>12
    <3> QED BY <1>2, <1>7, <2>1, <3>1
  <2>2. CASE x # q
    BY <1>6, <1>7, <1>12, <2>2 DEF Listed
  <2> QED BY <2>1, <2>2
<1>14. k.n \in 0..Len(file.items)
  BY <1>7, <1>12, FileFacts
<1> QED BY <1>1, <1>5, <1>7, <1>11, <1>12, <1>13, <1>14

\* A folder for an export id.
LEMMA IdsGrow ==
  ASSUME NEW j, NEW f \in Nat \ {0}, NEW e \in Left(j), file \in Files, Good(j),
         j.pc \in {"identity", "rest"},
         Caught(e) \/ (HasParent(e) => j.ids[file.up[e]] # 0),
         NEW k, k = [j EXCEPT !.ids[e] = f]
  PROVE  /\ Core(k) /\ k.n = j.n /\ k.cache = j.cache /\ k.strategy = j.strategy /\ k.pc = j.pc
         /\ k.ids = [j.ids EXCEPT ![e] = f] /\ e \in Exports /\ j.ids[e] = 0
<1>1. j \in Job /\ Core(j) /\ j.n = 0
  BY GoodIsCore DEF Good, Placed
<1>2. e \in file.exports /\ e \in Exports /\ j.ids[e] = 0 /\ j.ids \in [Exports -> Nat]
  BY <1>1, FileFacts DEF Left, Job
<1>3. PICK c : c = [j.ids EXCEPT ![e] = f]
  OBVIOUS
<1>4. c \in [Exports -> Nat] /\ c[e] = f /\ \A x \in Exports : x # e => c[x] = j.ids[x]
  BY <1>2, <1>3
<1>5. k = [j EXCEPT !.ids = c]
  BY <1>3
<1>6. /\ k \in Job /\ k.ids = c /\ k.cache = j.cache /\ k.n = 0 /\ k.strategy = j.strategy /\ k.pc = j.pc
  BY <1>1, <1>4, <1>5 DEF Job
<1>7. \A x \in Exports : j.ids[x] # 0 => c[x] # 0
  BY <1>4
<1>8. \A x \in Exports : c[x] # 0 => x \in file.exports
  BY <1>1, <1>2, <1>4 DEF Core
<1>9. \A x \in file.exports : HasParent(x) => file.up[x] \in Exports
  BY FileFacts DEF HasParent
<1>10. \A x \in file.exports : c[x] # 0 /\ HasParent(x) /\ ~Caught(x) => c[file.up[x]] # 0
  <2> SUFFICES ASSUME NEW x \in file.exports, c[x] # 0, HasParent(x), ~Caught(x) PROVE c[file.up[x]] # 0
    OBVIOUS
  <2>1. x \in Exports
    BY FileFacts
  <2>2. j.ids[file.up[x]] # 0
    BY <1>1, <1>4, <2>1 DEF Core
  <2> QED BY <1>7, <1>9, <2>2
<1>11. \A m \in 1..Len(file.items) : m < k.n => Settled(k, m)
  BY <1>6, FileFacts
<1>12. Core(k)
  BY <1>1, <1>6, <1>8, <1>10, <1>11 DEF Core
<1> QED BY <1>1, <1>2, <1>3, <1>6, <1>12

\* A folder below one that is not caught is not caught itself.
LEMMA NotCaught ==
  ASSUME NEW e, HasParent(e) => ~Caught(file.up[e]) PROVE ~Caught(e)
BY DEF Caught

-----------------------------------------------------------------------------
\* What each statement does to its import

\* It starts with nothing made.
LEMMA BegunGood ==
  ASSUME NEW s \in {"skip_duplicate", "merge"}, file \in Files
  PROVE  /\ Good(Begun(s)) /\ Begun(s).n \in {0, 1}
         /\ Begun(s).pc \in {"ok", "check", "walk", "identity", "rest"}
         /\ \A e \in Exports : Begun(s).ids[e] = 0
         /\ \A q \in Paths : Begun(s).cache[q] = 0
<1>1. PICK j : j = [NoJob EXCEPT !.strategy = s]
  OBVIOUS
<1>2. /\ j \in Job /\ j.n = 0 /\ j.p = 0 /\ j.strategy = s
      /\ j.ids = [e \in Exports |-> 0] /\ j.cache = [q \in Paths |-> 0]
  BY <1>1 DEF NoJob, Job
<1>3. (\A e \in Exports : j.ids[e] = 0) /\ (\A q \in Paths : j.cache[q] = 0)
  BY <1>2
<1>4. file.exports \subseteq Exports /\ Len(file.items) \in Nat /\ Len(file.paths) \in Nat
  BY FileFacts
<1>5. Core(j)
  BY <1>2, <1>3, <1>4 DEF Core
<1>6. PICK r : r = Begun(s)
  OBVIOUS
<1>7. ASSUME Carries(j, r)
      PROVE  (\A e \in Exports : r.ids[e] = 0) /\ (\A q \in Paths : r.cache[q] = 0)
  BY <1>3, <1>7 DEF Carries
<1>8. CASE file.exports # {}
  <2>1. r = AfterExported(j)
    BY <1>1, <1>6, <1>8 DEF Begun
  <2>2. Good(r) /\ Carries(j, r) /\ r.pc \in {"ok", "check", "walk", "identity", "rest"} /\ r.n \in {0, 1}
    BY <1>2, <1>3, <1>4, <1>5, <2>1, AfterExportedGood
  <2> QED BY <1>6, <1>7, <2>2
<1>9. CASE file.exports = {} /\ file.paths # <<>>
  <2>1. r = [j EXCEPT !.pc = "walk", !.p = 1]
    BY <1>1, <1>6, <1>9 DEF Begun
  <2>2. /\ r \in Job /\ r.n = 0 /\ r.p = 1 /\ r.pc = "walk" /\ r.ids = j.ids /\ r.cache = j.cache
        /\ r.strategy = j.strategy
    BY <1>2, <2>1 DEF Job, Running
  <2>3. 1 \in 1..Len(file.paths)
    <3>1. file.paths \in Seq(Paths)
      BY FileFacts
    <3> QED BY <1>9, <3>1
  <2>4. file.paths[1] \in Paths /\ Len(file.paths[1]) \in Nat \ {0}
    BY <2>3, FileFacts, PathFacts
  <2>5. Goal(r) = file.paths[1]
    BY <2>2 DEF Goal
  <2>6. 1 \in Missing(r)
    <3>1. 1 \in 1..Len(file.paths[1]) /\ SubSeq(file.paths[1], 1, 1) \in Paths
      BY <2>4, PathFacts
    <3> QED BY <1>3, <2>2, <2>5, <3>1 DEF Missing
  <2>7. Placed(r)
    BY <1>4, <2>2, <2>3, <2>6 DEF Placed
  <2>8. IdsOK(r)
    BY <1>3, <1>4, <2>2 DEF IdsOK
  <2>9. CacheOK(r)
    BY <1>3, <2>2 DEF CacheOK
  <2> QED BY <1>6, <1>7, <2>2, <2>7, <2>8, <2>9 DEF Good, Carries
<1>10. CASE file.exports = {} /\ file.paths = <<>>
  <2>1. r = NextItem(j)
    BY <1>1, <1>6, <1>10 DEF Begun
  <2>2. Good(r) /\ Carries(j, r) /\ r.pc \in {"ok", "check", "walk"} /\ r.n = j.n + 1
    BY <1>2, <1>4, <1>5, <2>1, NextItemGood
  <2> QED BY <1>2, <1>6, <1>7, <2>2
<1> QED BY <1>8, <1>9, <1>10

\* A folder for export id e: below its parent, unless it is caught in a cycle.
MadeById(i, j, e, r) ==
  /\ job' = [job EXCEPT ![i] = r] /\ Good(r)
  /\ folders' = Append(folders, [name |-> e, live |-> TRUE,
       parent |-> IF HasParent(e) /\ ~Caught(e) THEN j.ids[file.up[e]] ELSE Root])
  /\ r.ids = [j.ids EXCEPT ![e] = Len(folders')] /\ r.cache = j.cache /\ r.strategy = j.strategy
  /\ r.n \in {0, 1} /\ r.pc \in {"ok", "check", "walk", "identity", "rest"}
  /\ j.pc \in Running

\* Of a folder by identity, below its parent.
LEMMA ExportedStep ==
  ASSUME NEW i \in Imports, file \in Files, Good(job[i]), job \in [Imports -> Job],
         folders \in Seq(FolderRow), InsertExported(i)
  PROVE  \E e \in Left(job[i]) : \E r : MadeById(i, job[i], e, r)
<1>0. PICK j : j = job[i]
  OBVIOUS
<1>1. Good(j) /\ j.pc = "identity"
  BY <1>0 DEF InsertExported
<1>v. j.pc \in {"identity", "rest"} /\ Good(j)
  BY <1>1
<1>2. PICK e \in Insertable(j) :
        /\ folders' = Append(folders, [name |-> e, live |-> TRUE,
                parent |-> IF HasParent(e) THEN j.ids[file.up[e]] ELSE Root])
        /\ job' = [job EXCEPT ![i] = AfterExported([j EXCEPT !.ids[e] = Len(folders')])]
  BY <1>0 DEF InsertExported
<1>3. PICK f : f = Len(folders')
  OBVIOUS
<1>4. f \in Nat \ {0}
  <2>1. Len(folders') = Len(folders) + 1
    BY <1>2
  <2> QED BY <1>3, <2>1
<1>5. PICK k : k = [j EXCEPT !.ids[e] = f]
  OBVIOUS
<1>6. e \in Left(j) /\ (HasParent(e) => j.ids[file.up[e]] # 0)
  BY <1>2 DEF Insertable
<1>w. Caught(e) \/ (HasParent(e) => j.ids[file.up[e]] # 0)
  BY <1>6
<1>7. /\ Core(k) /\ k.n = j.n /\ k.cache = j.cache /\ k.strategy = j.strategy
      /\ k.ids = [j.ids EXCEPT ![e] = f] /\ e \in Exports /\ j.ids[e] = 0
  <2>1. Core(k)
    BY <1>v, <1>4, <1>5, <1>6, <1>w, IdsGrow
  <2>2. k.n = j.n /\ k.cache = j.cache
    BY <1>v, <1>4, <1>5, <1>6, <1>w, IdsGrow
  <2>3. k.strategy = j.strategy
    BY <1>v, <1>4, <1>5, <1>6, <1>w, IdsGrow
  <2>4. k.ids = [j.ids EXCEPT ![e] = f]
    BY <1>v, <1>4, <1>5, <1>6, <1>w, IdsGrow
  <2>5. e \in Exports /\ j.ids[e] = 0
    BY <1>v, <1>4, <1>5, <1>6, <1>w, IdsGrow
  <2> QED BY <2>1, <2>2, <2>3, <2>4, <2>5
<1>8. \A x \in file.exports : j.ids[x] # 0 => ~Caught(x)
  BY <1>1 DEF Good, IdsOK
<1>9. ~Caught(e)
  <2>1. HasParent(e) => file.up[e] \in file.exports
    BY DEF HasParent
  <2> QED BY <1>6, <1>8, <2>1, NotCaught
<1>14. j.n = 0
  BY <1>1 DEF Good, Placed
<1>10. \A x \in file.exports : k.ids[x] # 0 => ~Caught(x)
  <2>1. j.ids \in [Exports -> Nat] /\ file.exports \subseteq Exports
    BY <1>1, FileFacts DEF Good, Job
  <2> QED BY <1>7, <1>8, <1>9, <2>1
<1>11. PICK r : r = AfterExported(k)
  OBVIOUS
<1>12. Good(r) /\ Carries(k, r) /\ r.pc \in {"ok", "check", "walk", "identity", "rest"} /\ r.n \in {0, 1}
  BY <1>7, <1>10, <1>11, <1>14, AfterExportedGood
<1>13. job' = [job EXCEPT ![i] = r]
  BY <1>2, <1>3, <1>5, <1>11
<1>15. folders' = Append(folders, [name |-> e, live |-> TRUE,
         parent |-> IF HasParent(e) /\ ~Caught(e) THEN j.ids[file.up[e]] ELSE Root])
  BY <1>2, <1>9
<1>16. MadeById(i, j, e, r)
  BY <1>1, <1>3, <1>7, <1>12, <1>13, <1>15 DEF MadeById, Carries, Running
<1> QED BY <1>0, <1>6, <1>16

\* Of one that is caught, at the top.
LEMMA RestStep ==
  ASSUME NEW i \in Imports, file \in Files, Good(job[i]), job \in [Imports -> Job],
         folders \in Seq(FolderRow), InsertRest(i)
  PROVE  \E e \in Left(job[i]) : \E r : MadeById(i, job[i], e, r)
<1>0. PICK j : j = job[i]
  OBVIOUS
<1>1. Good(j) /\ j.pc = "rest"
  BY <1>0 DEF InsertRest
<1>v. j.pc \in {"identity", "rest"} /\ Good(j)
  BY <1>1
<1>2. PICK e \in Left(j) :
        /\ folders' = Append(folders, [name |-> e, parent |-> Root, live |-> TRUE])
        /\ job' = [job EXCEPT ![i] =
             IF Left([j EXCEPT !.ids[e] = Len(folders')]) = {} THEN NextItem([j EXCEPT !.ids[e] = Len(folders')])
             ELSE [j EXCEPT !.ids[e] = Len(folders')]]
  BY <1>0 DEF InsertRest
<1>3. PICK f : f = Len(folders')
  OBVIOUS
<1>4. f \in Nat \ {0}
  <2>1. Len(folders') = Len(folders) + 1
    BY <1>2
  <2> QED BY <1>3, <2>1
<1>5. PICK k : k = [j EXCEPT !.ids[e] = f]
  OBVIOUS
<1>6. \A x \in file.exports : j.ids[x] = 0 => Caught(x)
  BY <1>1 DEF Good, IdsOK
<1>7. Caught(e)
  BY <1>6 DEF Left
<1>w. Caught(e) \/ (HasParent(e) => j.ids[file.up[e]] # 0)
  BY <1>7
<1>8. /\ Core(k) /\ k.n = j.n /\ k.cache = j.cache /\ k.strategy = j.strategy /\ k.pc = j.pc
      /\ k.ids = [j.ids EXCEPT ![e] = f] /\ e \in Exports /\ j.ids[e] = 0
  <2>1. Core(k)
    BY <1>v, <1>4, <1>5, <1>w, IdsGrow
  <2>2. k.n = j.n /\ k.cache = j.cache
    BY <1>v, <1>4, <1>5, <1>w, IdsGrow
  <2>3. k.strategy = j.strategy /\ k.pc = j.pc
    BY <1>v, <1>4, <1>5, <1>w, IdsGrow
  <2>4. k.ids = [j.ids EXCEPT ![e] = f]
    BY <1>v, <1>4, <1>5, <1>w, IdsGrow
  <2>5. e \in Exports /\ j.ids[e] = 0
    BY <1>v, <1>4, <1>5, <1>w, IdsGrow
  <2> QED BY <2>1, <2>2, <2>3, <2>4, <2>5
<1>9. PICK r : r = (IF Left(k) = {} THEN NextItem(k) ELSE k)
  OBVIOUS
<1>10. job' = [job EXCEPT ![i] = r]
  BY <1>2, <1>3, <1>5, <1>9
<1>11. j.n = 0 /\ Len(file.items) \in Nat
  BY <1>1, FileFacts DEF Good, Placed
<1>12. Good(r) /\ Carries(k, r) /\ r.pc \in {"ok", "check", "walk", "rest"} /\ r.n \in {0, 1}
  <2>1. CASE Left(k) = {}
    <3>1. r = NextItem(k)
      BY <1>9, <2>1
    <3> QED BY <1>8, <1>11, <3>1, NextItemGood
  <2>2. CASE Left(k) # {}
    <3>1. r = k
      BY <1>9, <2>2
    <3>2. \A x \in file.exports : k.ids[x] = 0 => Caught(x)
      <4>1. j.ids \in [Exports -> Nat] /\ file.exports \subseteq Exports
        BY <1>1, FileFacts DEF Good, Job
      <4> QED BY <1>4, <1>6, <1>8, <4>1
    <3>3. IdsOK(k)
      BY <1>1, <1>8, <3>2 DEF IdsOK, Core
    <3>4. CacheOK(k)
      BY <1>1, <1>8 DEF CacheOK, Core
    <3>5. Placed(k)
      BY <1>1, <1>8, <1>11 DEF Placed, Core, Running
    <3> QED BY <1>1, <1>8, <1>11, <3>1, <3>3, <3>4, <3>5 DEF Good, Carries, Core
  <2> QED BY <2>1, <2>2
<1>13. folders' = Append(folders, [name |-> e, live |-> TRUE,
         parent |-> IF HasParent(e) /\ ~Caught(e) THEN j.ids[file.up[e]] ELSE Root])
  BY <1>2, <1>7
<1>14. MadeById(i, j, e, r)
  BY <1>1, <1>3, <1>8, <1>10, <1>12, <1>13 DEF MadeById, Carries, Running
<1> QED BY <1>0, <1>14

\* Of a folder by path, found or inserted.
PathMade(j, f, r) ==
  /\ Good(r) /\ r.cache = [j.cache EXCEPT ![Prefix(j)] = f] /\ r.ids = j.ids
  /\ r.strategy = j.strategy /\ r.pc \in {"ok", "check", "walk"}
  /\ r.n = j.n \/ r.n \in {0, 1}

LEMMA FolderMade ==
  ASSUME NEW j, NEW f \in Nat \ {0}, file \in Files, Good(j), j.pc \in {"walk", "create"},
         NEW r, r = Onward([j EXCEPT !.cache[Prefix(j)] = f])
  PROVE  PathMade(j, f, r)
<1>1. PICK k : k = [j EXCEPT !.cache[Prefix(j)] = f]
  OBVIOUS
<1>2. Core(k)
  BY <1>1, CacheGrows
<1>3. k.n = j.n /\ k.ids = j.ids /\ k.strategy = j.strategy
  BY <1>1, CacheGrows
<1>4. k.cache = [j.cache EXCEPT ![Prefix(j)] = f]
  BY <1>1, CacheGrows
<1>5. k.n \in 0..Len(file.items)
  BY <1>1, CacheGrows
<1>6. k.n = 0 => k.p \in 1..Len(file.paths) /\ Listed(k)
  BY <1>1, CacheGrows
<1>7. r = Onward(k)
  BY <1>1
<1>8. Good(r) /\ Carries(k, r) /\ r.pc \in {"ok", "check", "walk"}
  BY <1>2, <1>5, <1>6, <1>7, OnwardGood
<1>9. r.n = k.n \/ (k.n = 0 /\ r.n = 1)
  BY <1>2, <1>5, <1>6, <1>7, OnwardGood
<1> QED BY <1>3, <1>4, <1>8, <1>9 DEF Carries, PathMade

\* The next item.
AtItem(j) == j.n \in 1..Len(file.items) /\ Settled(j, j.n) /\ Target(j) = SpotAt(j, j.n)
ItemOver(j, r) ==
  /\ Good(r) /\ r.cache = j.cache /\ r.ids = j.ids /\ r.strategy = j.strategy
  /\ r.pc \in {"ok", "check", "walk"} /\ r.n = j.n + 1

LEMMA ItemAt ==
  ASSUME NEW j, file \in Files, Good(j), j.pc \in {"check", "lookup", "update", "insert"}
  PROVE  AtItem(j)
<1>1. j.n \in 1..Len(file.items) /\ Settled(j, j.n) /\ j \in Job /\ j.n # 0
  BY FileFacts DEF Good, Placed, Running, Job
<1>2. Target(j) = SpotAt(j, j.n)
  BY <1>1, ItemFacts
<1> QED BY <1>1, <1>2 DEF AtItem

LEMMA ItemDone ==
  ASSUME NEW j, file \in Files, Good(j), AtItem(j), NEW r, r = NextItem(j)
  PROVE  ItemOver(j, r)
<1>1. Core(j)
  BY GoodIsCore
<1>2. j.n \in 0..Len(file.items) /\ (j.n # 0 => Settled(j, j.n))
  BY DEF AtItem
<1>3. Good(r) /\ Carries(j, r) /\ r.n = j.n + 1 /\ r.pc \in {"ok", "check", "walk"}
  BY <1>1, <1>2, NextItemGood
<1> QED BY <1>3 DEF Carries, ItemOver

\* From one statement about an item, or a folder, to the next.
WentOn(j, c, h, r) ==
  /\ Good(r) /\ r.cache = j.cache /\ r.ids = j.ids /\ r.strategy = j.strategy
  /\ r.pc = c /\ r.hit = h /\ r.n = j.n

LEMMA PcOnly ==
  ASSUME NEW j, file \in Files, Good(j), NEW c, NEW h \in Nat,
         \/ j.pc = "walk" /\ c = "create"
         \/ j.pc = "check" /\ c \in {"lookup"}
         \/ j.pc = "lookup" /\ c \in {"insert", "update"}
         \/ j.pc \in Running /\ c = "failed",
         NEW r, r = [j EXCEPT !.pc = c, !.hit = h]
  PROVE  WentOn(j, c, h, r)
<1>1. j \in Job
  BY DEF Good
<1>2. c \in Running \cup Finished /\ c \notin {"idle", "ok", "identity", "rest", "walk", "check"}
  BY DEF Running, Finished
<1>3. /\ r \in Job /\ r.cache = j.cache /\ r.ids = j.ids /\ r.strategy = j.strategy
      /\ r.pc = c /\ r.hit = h /\ r.n = j.n /\ r.p = j.p
  BY <1>1, <1>2 DEF Job
<1>4. Missing(r) = Missing(j)
  BY <1>3 DEF Missing, Goal
<1>5. \A m \in Nat : Settled(r, m) <=> Settled(j, m)
  BY <1>3 DEF Settled
<1>6. j.n \in Nat /\ Len(file.items) \in Nat
  BY <1>1, FileFacts DEF Job
<1>7. Placed(r)
  BY <1>2, <1>3, <1>4, <1>5, <1>6 DEF Good, Placed, Running
<1>8. IdsOK(r)
  BY <1>2, <1>3 DEF Good, IdsOK
<1>9. CacheOK(r)
  BY <1>2, <1>3 DEF Good, CacheOK
<1> QED BY <1>3, <1>7, <1>8, <1>9 DEF Good, WentOn

\* A path of more than one name has one above it.
LEMMA Above ==
  ASSUME NEW q \in Paths, Len(q) # 1
  PROVE  Len(q) > 1 /\ SubSeq(q, 1, Len(q) - 1) \in Paths /\ SubSeq(q, 1, Len(q) - 1) # q
<1>1. ASSUME NEW n \in Nat \ {0}, n # 1 PROVE n > 1 /\ n - 1 \in 1..n /\ n - 1 # n
  BY <1>1
<1>2. PICK n \in Nat \ {0} : n = Len(q)
  BY PathFacts
<1>3. n > 1 /\ n - 1 \in 1..n /\ n - 1 # n
  BY <1>1, <1>2
<1>4. SubSeq(q, 1, n - 1) \in Paths /\ Len(SubSeq(q, 1, n - 1)) = n - 1
  BY <1>2, <1>3, PathFacts
<1> QED BY <1>2, <1>3, <1>4

-----------------------------------------------------------------------------
\* The folders

\* The file stays what it is.
LEMMA SameFile ==
  ASSUME NEW j, file' = file, Good(j)
  PROVE  Good(j)'
<1>1. Placed(j)'
  <2>1. Missing(j)' = Missing(j)
    BY DEF Missing, Goal
  <2>2. \A m : Settled(j, m)' <=> Settled(j, m)
    BY DEF Settled, Made, Cached
  <2> QED BY <2>1, <2>2 DEF Good, Placed
<1>2. IdsOK(j)'
  BY DEF Good, IdsOK, HasParent, Caught
<1>3. CacheOK(j)'
  BY DEF Good, CacheOK
<1> QED BY <1>1, <1>2, <1>3 DEF Good

\* Folders come, and what the user moves or deletes is known.
LEMMA StandsOn ==
  ASSUME NEW j, file' = file, file \in Files, Stands(j), Ids \subseteq Ids', moved \subseteq moved',
         \A f \in Ids \ moved' :
           /\ folders'[f].name = folders[f].name /\ folders'[f].parent = folders[f].parent
           /\ folders[f].live => folders'[f].live
  PROVE  Stands(j)'
<1>1. Points(j)'
  BY DEF Stands, Points
<1>2. TreeOf(j)'
  <2> SUFFICES ASSUME NEW e \in file.exports, j.ids[e] # 0, j.ids[e] \notin moved', e \in Exports
               PROVE  folders'[j.ids[e]].parent =
                        IF HasParent(e) /\ ~Caught(e) THEN j.ids[file.up[e]] ELSE Root
    BY FileFacts DEF TreeOf, HasParent, Caught
  <2> QED BY DEF Stands, TreeOf, Points
<1>3. PathsOf(j)'
  BY DEF Stands, PathsOf, Points, ParentIn
<1> QED BY <1>1, <1>2, <1>3 DEF Stands

\* A new folder for an export id.
LEMMA StandsById ==
  ASSUME NEW j, NEW f, file' = file, file \in Files, Good(j), Stands(j), TypeOK,
         NEW e \in Left(j), NEW row \in FolderRow, folders' = Append(folders, row), moved' = moved,
         f = Len(folders'),
         row.parent = IF HasParent(e) /\ ~Caught(e) THEN j.ids[file.up[e]] ELSE Root,
         NEW r, r.ids = [j.ids EXCEPT ![e] = f], r.cache = j.cache
  PROVE  Stands(r)'
<1>1. folders \in Seq(FolderRow) /\ moved \subseteq Ids /\ j \in Job
  BY DEF TypeOK, Good
<1>2. /\ Ids' = 1..Len(folders) + 1 /\ Ids = 1..Len(folders) /\ f = Len(folders) + 1
      /\ folders'[f] = row /\ Len(folders) \in Nat
      /\ \A g \in Ids : folders'[g] = folders[g]
  BY <1>1 DEF Ids
<1>3. Ids \subseteq Ids' /\ f \in Ids' /\ f \notin Ids /\ 0 \notin Ids /\ f # 0
  BY <1>2
<1>4. Stands(j)'
  BY <1>2, <1>3, StandsOn
<1>5. e \in Exports /\ e \in file.exports /\ j.ids[e] = 0 /\ j.ids \in [Exports -> Nat]
  BY <1>1, FileFacts DEF Left, Job
<1>6. r.ids[e] = f /\ \A x \in Exports : x # e => r.ids[x] = j.ids[x]
  BY <1>5
<1>7. Points(r)'
  BY <1>3, <1>4, <1>6 DEF Stands, Points
<1>8. PathsOf(r)'
  BY <1>4 DEF Stands, PathsOf, ParentIn
<1>9. TreeOf(r)'
  <2>a. \A x \in file.exports : (HasParent(x)' <=> HasParent(x)) /\ (Caught(x)' <=> Caught(x))
    BY DEF HasParent, Caught
  <2> SUFFICES ASSUME NEW x \in file.exports, r.ids[x] # 0, r.ids[x] \notin moved'
               PROVE  folders'[r.ids[x]].parent =
                        IF HasParent(x) /\ ~Caught(x) THEN r.ids[file.up[x]] ELSE Root
    BY <2>a DEF TreeOf
  <2>0. x \in Exports /\ (HasParent(x) => file.up[x] \in Exports)
    BY FileFacts DEF HasParent
  <2>1. CASE x = e
    <3>1. ASSUME HasParent(e), ~Caught(e) PROVE file.up[e] # e
      <4>1. {e} \in SUBSET file.exports
        BY <1>5
      <4> SUFFICES ASSUME file.up[e] = e PROVE Caught(e)
        BY <3>1
      <4>2. e \in {e} /\ \A y \in {e} : HasParent(y) /\ file.up[y] \in {e}
        BY <3>1
      <4> QED BY <4>1, <4>2 DEF Caught
    <3> QED BY <1>2, <1>6, <2>0, <2>1, <3>1
  <2>2. CASE x # e
    <3>1. r.ids[x] = j.ids[x]
      BY <1>6, <2>0, <2>2
    <3>2. folders'[j.ids[x]].parent = IF HasParent(x) /\ ~Caught(x) THEN j.ids[file.up[x]] ELSE Root
      <4>2. TreeOf(j)'
        BY <1>4 DEF Stands
      <4>3. j.ids[x] # 0 /\ j.ids[x] \notin moved'
        BY <3>1
      <4> QED BY <2>a, <4>2, <4>3 DEF TreeOf
    <3>3. HasParent(x) /\ ~Caught(x) => j.ids[file.up[x]] # 0
      BY <3>1 DEF Good, IdsOK
    <3> QED BY <1>5, <1>6, <2>0, <3>1, <3>2, <3>3
  <2> QED BY <2>1, <2>2
<1> QED BY <1>7, <1>8, <1>9 DEF Stands

\* A folder for a path.
LEMMA StandsByPath ==
  ASSUME NEW j, NEW f \in Nat \ {0}, Stands(j)', Good(j), NEW q \in Paths, j.cache[q] = 0, f \in Ids',
         folders'[f].live /\ folders'[f].name = NameOf(q) /\ folders'[f].parent = ParentIn(j, q),
         NEW r, r.ids = j.ids, r.cache = [j.cache EXCEPT ![q] = f]
  PROVE  Stands(r)'
<1>1. j.cache \in [Paths -> Nat]
  BY DEF Good, Job
<1>2. r.cache[q] = f /\ \A x \in Paths : x # q => r.cache[x] = j.cache[x]
  BY <1>1
<1>3. Points(r)'
  BY <1>2 DEF Stands, Points
<1>4. TreeOf(r)'
  BY DEF Stands, TreeOf
<1>5. ASSUME NEW x \in Paths, Len(x) # 1 PROVE SubSeq(x, 1, Len(x) - 1) \in Paths /\ SubSeq(x, 1, Len(x) - 1) # x
  BY <1>5, Above
<1>6. ParentIn(r, q) = ParentIn(j, q)
  BY <1>2, <1>5 DEF ParentIn
<1>7. ASSUME NEW x \in Paths, j.cache[x] # 0 PROVE ParentIn(r, x) = ParentIn(j, x)
  <2>1. CASE Len(x) = 1
    BY <2>1 DEF ParentIn
  <2>2. CASE Len(x) # 1
    <3>1. j.cache[SubSeq(x, 1, Len(x) - 1)] # 0
      BY <1>7, <2>2, Above DEF Good, CacheOK
    <3> QED BY <1>2, <1>5, <2>2, <3>1 DEF ParentIn
  <2> QED BY <2>1, <2>2
<1>8. PathsOf(r)'
  <2> SUFFICES ASSUME NEW x \in Paths, r.cache[x] # 0, r.cache[x] \notin moved'
               PROVE  /\ folders'[r.cache[x]].live /\ folders'[r.cache[x]].name = NameOf(x)
                      /\ folders'[r.cache[x]].parent = ParentIn(r, x)
    BY DEF PathsOf, ParentIn
  <2>1. CASE x = q
    BY <1>2, <1>6, <2>1
  <2>2. CASE x # q
    <3>1. r.cache[x] = j.cache[x]
      BY <1>2, <2>2
    <3>2. /\ folders'[j.cache[x]].live /\ folders'[j.cache[x]].name = NameOf(x)
          /\ folders'[j.cache[x]].parent = ParentIn(j, x)
      BY <3>1 DEF Stands, PathsOf, ParentIn
    <3> QED BY <1>7, <3>1, <3>2
  <2> QED BY <2>1, <2>2
<1> QED BY <1>3, <1>4, <1>8 DEF Stands

\* It stands wherever it is.
LEMMA StandsSame ==
  ASSUME NEW j, NEW r, Stands(j)', r.ids = j.ids, r.cache = j.cache
  PROVE  Stands(r)'
BY DEF Stands, Points, TreeOf, PathsOf, ParentIn

-----------------------------------------------------------------------------
\* The bookmarks

\* They keep their URLs, and lose their lives only to the user ...
BookmarksStay(i) ==
  /\ file' = file /\ lost[i] \subseteq lost'[i] /\ moved \subseteq moved'
  /\ \A b \in DOMAIN bookmarks :
       /\ b \in DOMAIN bookmarks' /\ bookmarks'[b].url = bookmarks[b].url
       /\ bookmarks[b].live => bookmarks'[b].live \/ bookmarks[b].url \in lost'[i]

\* ... and their folders.
HomesStay ==
  \A b \in DOMAIN bookmarks : bookmarks'[b].home = bookmarks[b].home \/ bookmarks[b].home \in moved'

LEMMA WorksOn ==
  ASSUME NEW i \in Imports, NEW j, NEW r, Works(i, j), BookmarksStay(i),
         j.n = r.n \/ r.n \in {0, 1}, r = j \/ r.pc # "update"
  PROVE  Works(i, r)'
<1>1. ASSUME NEW m \in 1..Len(file.items), m < r.n PROVE UrlAt(m)' \in lost'[i] \/ IsLive(UrlAt(m))'
  <2>1. m < j.n
    BY <1>1
  <2>2. UrlAt(m) \in lost[i] \/ IsLive(UrlAt(m))
    BY <2>1 DEF Works
  <2> QED BY <2>2 DEF BookmarksStay, IsLive, UrlAt
<1>2. ASSUME r.pc = "update"
      PROVE  /\ r.hit \in DOMAIN bookmarks' /\ bookmarks'[r.hit].url = UrlAt(r.n)'
             /\ bookmarks'[r.hit].live \/ UrlAt(r.n)' \in lost'[i]
  <2>1. r = j
    BY <1>2
  <2> QED BY <1>2, <2>1 DEF Works, BookmarksStay, UrlAt
<1>3. file' = file
  BY DEF BookmarksStay
<1> QED BY <1>1, <1>2, <1>3 DEF Works

\* An item stays where it is while the import makes more folders.
Grows(c, d) == \A q \in Paths : c[q] # 0 => d[q] = c[q]

LEMMA SpotStays ==
  ASSUME NEW j, NEW r, file \in Files, NEW m \in 1..Len(file.items), Settled(j, m),
         r.ids = j.ids, Grows(j.cache, r.cache)
  PROVE  SpotAt(r, m) = SpotAt(j, m)
<1>1. CASE Made(j.ids, file.items[m])
  BY <1>1 DEF SpotAt, Spot
<1>2. CASE ~Made(j.ids, file.items[m]) /\ file.items[m].path = <<>>
  BY <1>2 DEF SpotAt, Spot
<1>3. CASE ~Made(j.ids, file.items[m]) /\ file.items[m].path # <<>>
  <2>1. PICK q : q = file.items[m].path
    OBVIOUS
  <2>2. q \in Paths /\ Len(q) \in 1..Len(q) /\ SubSeq(q, 1, Len(q)) = q
    <3>1. q \in Paths
      BY <1>3, <2>1, FileFacts
    <3> QED BY <3>1, PathFacts
  <2>3. Cached(j.cache, q)
    BY <1>3, <2>1 DEF Settled
  <2>4. j.cache[SubSeq(q, 1, Len(q))] # 0
    BY <2>2, <2>3 DEF Cached
  <2>5. r.cache[q] = j.cache[q]
    BY <2>2, <2>4 DEF Grows
  <2> QED BY <1>3, <2>1, <2>5 DEF SpotAt, Spot
<1> QED BY <1>1, <1>2, <1>3

LEMMA LandedOn ==
  ASSUME NEW i \in Imports, NEW j, NEW r, file \in Files, Good(j), Landed(i, j),
         BookmarksStay(i), HomesStay, r.ids = j.ids, Grows(j.cache, r.cache), r.n = j.n
  PROVE  Landed(i, r)'
<1>1. file' = file
  BY DEF BookmarksStay
<1> SUFFICES ASSUME NEW m \in 1..Len(file.items), LastSoFar(r, m)'
             PROVE  \/ UrlAt(m)' \in lost'[i] \/ SpotAt(r, m)' \in moved'
                    \/ HitsIn(UrlAt(m), SpotAt(r, m))' # {}
  BY <1>1 DEF Landed
<1>2. UrlAt(m)' = UrlAt(m) /\ SpotAt(r, m)' = SpotAt(r, m)
  BY <1>1 DEF UrlAt, SpotAt
<1>3. LastSoFar(j, m)
  BY <1>1 DEF LastSoFar, UrlAt
<1>4. SpotAt(r, m) = SpotAt(j, m)
  <2>1. Settled(j, m)
    BY <1>3 DEF Good, Placed, LastSoFar
  <2> QED BY <2>1, SpotStays
<1>5. UrlAt(m) \in lost[i] \/ SpotAt(j, m) \in moved \/ HitsIn(UrlAt(m), SpotAt(j, m)) # {}
  BY <1>3 DEF Landed
<1>6. PICK u, s : u = UrlAt(m) /\ s = SpotAt(j, m)
  OBVIOUS
<1>7. u \in lost'[i] \/ s \in moved' \/ HitsIn(u, s)' # {}
  <2>1. CASE u \in lost[i] \/ s \in moved
    BY <2>1 DEF BookmarksStay
  <2>2. CASE HitsIn(u, s) # {}
    <3>1. PICK b \in HitsIn(u, s) : TRUE
      BY <2>2
    <3>2. b \in DOMAIN bookmarks /\ bookmarks[b].url = u /\ bookmarks[b].live /\ bookmarks[b].home = s
      BY DEF HitsIn, Hits
    <3> QED BY <3>2 DEF BookmarksStay, HomesStay, HitsIn, Hits
  <2> QED BY <1>5, <1>6, <2>1, <2>2
<1>8. HitsIn(u, s)' = HitsIn(UrlAt(m), SpotAt(r, m))'
  BY <1>2, <1>4, <1>6 DEF HitsIn, Hits
<1> QED BY <1>2, <1>4, <1>6, <1>7, <1>8

LEMMA LandedNothing ==
  ASSUME NEW i, NEW r, r.n \in {0, 1} PROVE Landed(i, r)'
<1>1. ASSUME NEW m \in 1..Len(file'.items) PROVE ~LastSoFar(r, m)'
  BY DEF LastSoFar
<1> QED BY <1>1 DEF Landed

\* A statement of import i that writes no bookmark, and of which none is known to come.
LEMMA QuietStep ==
  ASSUME NEW i \in Imports, NEW j, j = job[i], NEW r, job \in [Imports -> Job], file \in Files, Good(j),
         Works(i, j), Undisturbed(i, j), j.pc \in Running,
         file' = file, bookmarks' = bookmarks, moved' = moved, lost' = lost, alone' = alone,
         job' = [job EXCEPT ![i] = r], r.pc \notin {"insert", "update"}, r.strategy = j.strategy,
         (r.ids = j.ids /\ Grows(j.cache, r.cache) /\ r.n = j.n) \/ r.n \in {0, 1}
  PROVE  Works(i, r)' /\ (i \in alone' => Steady(i, r)')
<1>1. BookmarksStay(i) /\ HomesStay
  BY DEF BookmarksStay, HomesStay
<1>2. j.n = r.n \/ r.n \in {0, 1}
  OBVIOUS
<1>3. r.pc # "update"
  OBVIOUS
<1>4. Works(i, r)'
  BY <1>1, <1>2, <1>3, WorksOn
<1>5. ASSUME i \in alone' PROVE Steady(i, r)'
  <2>1. Steady(i, j)
    BY <1>5 DEF Undisturbed
  <2>2. \A k \in Imports \ {i} : job'[k].pc \notin Running
    BY <2>1 DEF Steady
  <2>3. ASSUME r.strategy = "merge" PROVE Landed(i, r)'
    <3>1. Landed(i, j)
      BY <2>1, <2>3 DEF Steady
    <3>2. CASE r.ids = j.ids /\ Grows(j.cache, r.cache) /\ r.n = j.n
      BY <1>1, <3>1, <3>2, LandedOn
    <3>3. CASE r.n \in {0, 1}
      BY <3>3, LandedNothing
    <3> QED BY <3>2, <3>3
  <2> QED BY <2>2, <2>3 DEF Steady
<1> QED BY <1>4, <1>5

\* What the user does meanwhile.
LEMMA UserNear ==
  ASSUME NEW i \in Imports, NEW j, file \in Files, Good(j), Works(i, j), Undisturbed(i, j),
         BookmarksStay(i), HomesStay, DOMAIN bookmarks' = DOMAIN bookmarks,
         \A b \in DOMAIN bookmarks : bookmarks'[b].live => bookmarks[b].live,
         job' = job, alone' = alone
  PROVE  Works(i, j)' /\ Undisturbed(i, j)'
<1>1. Works(i, j)'
  BY WorksOn
<1>2. ASSUME i \in alone, j.pc \in Running PROVE Steady(i, j)'
  <2>0. file' = file /\ moved \subseteq moved'
    BY DEF BookmarksStay
  <2>1. Steady(i, j)
    BY <1>2 DEF Undisturbed
  <2>2. \A k \in Imports \ {i} : job'[k].pc \notin Running
    BY <2>1 DEF Steady
  <2>3. j.pc = "insert" => Hits(UrlAt(j.n))' = {}
    <3>1. Hits(UrlAt(j.n))' \subseteq Hits(UrlAt(j.n))
      BY <2>0 DEF Hits, UrlAt, BookmarksStay
    <3> QED BY <2>1, <3>1 DEF Steady
  <2>4. ASSUME j.pc = "update", moved' = {}, HitsIn(UrlAt(j.n), SpotAt(j, j.n))' # {}
        PROVE  bookmarks'[j.hit].home = SpotAt(j, j.n)'
    <3>1. moved = {} /\ \A b \in DOMAIN bookmarks : bookmarks'[b].home = bookmarks[b].home
      BY <2>0, <2>4 DEF HomesStay
    <3>2. UrlAt(j.n)' = UrlAt(j.n) /\ SpotAt(j, j.n)' = SpotAt(j, j.n)
      BY <2>0 DEF UrlAt, SpotAt
    <3>3. PICK u, s : u = UrlAt(j.n) /\ s = SpotAt(j, j.n)
      OBVIOUS
    <3>4. HitsIn(u, s)' # {}
      BY <2>4, <3>2, <3>3 DEF HitsIn, Hits
    <3>5. HitsIn(u, s)' \subseteq HitsIn(u, s)
      BY <3>1 DEF HitsIn, Hits, BookmarksStay
    <3>6. HitsIn(UrlAt(j.n), SpotAt(j, j.n)) # {}
      BY <3>3, <3>4, <3>5
    <3>7. bookmarks[j.hit].home = SpotAt(j, j.n)
      BY <2>1, <2>4, <3>1, <3>6 DEF Steady
    <3>8. j.hit \in DOMAIN bookmarks
      BY <2>4 DEF Works
    <3> QED BY <3>1, <3>2, <3>7, <3>8
  <2>5. ASSUME j.strategy = "merge" PROVE Landed(i, j)'
    <3>1. Landed(i, j) /\ Grows(j.cache, j.cache)
      BY <2>1, <2>5 DEF Steady, Grows
    <3> QED BY <3>1, LandedOn
  <2> QED BY <2>2, <2>3, <2>4, <2>5 DEF Steady
<1> QED BY <1>1, <1>2 DEF Undisturbed

\* What another import does.
LEMMA OthersNear ==
  ASSUME NEW i \in Imports, NEW k \in Imports \ {i}, NEW j, j = job[k], Works(k, j), Undisturbed(k, j),
         BookmarksStay(k),
         \/ job[i].pc \in Running /\ alone' \subseteq alone
         \/ alone' = IF Busy = {} THEN alone ELSE alone \ (Busy \cup {i})
  PROVE  Works(k, j)' /\ Undisturbed(k, j)'
<1>1. Works(k, j)'
  BY WorksOn
<1>2. ASSUME k \in alone', j.pc \in Running PROVE FALSE
  <2>1. CASE job[i].pc \in Running /\ alone' \subseteq alone
    BY <1>2, <2>1 DEF Undisturbed, Steady
  <2>2. CASE alone' = IF Busy = {} THEN alone ELSE alone \ (Busy \cup {i})
    BY <1>2, <2>2 DEF Busy
  <2> QED BY <2>1, <2>2
<1> QED BY <1>1, <1>2 DEF Undisturbed

-----------------------------------------------------------------------------
\* A whole step

\* What is in the tables.
Rows ==
  /\ folders \in Seq(FolderRow) /\ bookmarks \in Seq(BookmarkRow) /\ moved \subseteq Ids
  /\ \A f \in Ids : folders[f].parent \in {Root} \cup Ids /\ (folders[f].parent < f \/ f \in moved)
  /\ \A b \in DOMAIN bookmarks : bookmarks[b].home \in Ids

FoldersStay ==
  /\ Ids \subseteq Ids' /\ moved \subseteq moved'
  /\ \A f \in Ids \ moved' :
       /\ folders'[f].name = folders[f].name /\ folders'[f].parent = folders[f].parent
       /\ folders[f].live => folders'[f].live

\* What holds of an import.
Sound(i, j) == Good(j) /\ Stands(j) /\ Works(i, j) /\ Undisturbed(i, j)

Removals ==
  [pc : {"idle", "bookmarks", "folders", "folder"}, at : {Root} \cup Ids, to : {Root} \cup Ids]

Whole ==
  /\ file \in Files /\ Rows /\ Inbox \in Ids /\ Removal
  /\ removal \in Removals /\ job \in [Imports -> Job]
  /\ edits \in 0..MaxEdits /\ lost \in [Imports -> SUBSET Urls] /\ alone \subseteq Imports
  /\ \A i \in Imports : Sound(i, job[i])

LEMMA AllSound == IInv <=> Whole
<1>1. ASSUME NEW i, NEW j, Sound(i, j)
      PROVE  /\ j \in Job /\ (\A e \in Exports : j.ids[e] \in {0} \cup Ids)
             /\ \A q \in Paths : j.cache[q] \in {0} \cup Ids
             /\ j.pc = "update" => j.hit \in DOMAIN bookmarks
  BY <1>1 DEF Sound, Good, Stands, Points, Works
<1> QED BY <1>1 DEF IInv, TypeOK, Rows, Sound, Whole, Removals

LEMMA NextSound == IInv' <=> Whole'
BY AllSound, PTL

LEMMA ImportKeeps ==
  ASSUME IInv, NEW i \in Imports, NEW r, job' = [job EXCEPT ![i] = r],
         Good(r)', Stands(r)', Works(i, r)', i \in alone' => Steady(i, r)',
         Rows', FoldersStay, file' = file, removal' = removal, edits' = edits,
         lost' \in [Imports -> SUBSET Urls], \A k \in Imports \ {i} : BookmarksStay(k),
         \/ job[i].pc \in Running /\ alone' \subseteq alone
         \/ alone' = IF Busy = {} THEN alone ELSE alone \ (Busy \cup {i})
  PROVE  IInv'
<1>0. job \in [Imports -> Job] /\ r \in Job
  BY AllSound DEF Whole, Good
<1>1. ASSUME NEW k \in Imports \ {i} PROVE Sound(k, job[k])'
  <2>1. PICK j : j = job[k]
    OBVIOUS
  <2>2. Sound(k, j)
    BY <2>1, AllSound DEF Whole
  <2>3. Good(j)' /\ file \in Files
    BY <2>2, SameFile, AllSound DEF Whole, Sound
  <2>4. Stands(j)'
    BY <2>2, <2>3, StandsOn DEF Sound, FoldersStay
  <2>5. Works(k, j) /\ Undisturbed(k, j) /\ BookmarksStay(k)
    BY <2>2 DEF Sound
  <2>6. Works(k, j)' /\ Undisturbed(k, j)'
    BY <2>1, <2>5, OthersNear
  <2>7. job'[k] = j
    BY <2>1, <1>0
  <2>8. Sound(k, j)'
    BY <2>3, <2>4, <2>6 DEF Sound
  <2> QED BY <2>7, <2>8
<1>2. Sound(i, job[i])'
  <2>1. Sound(i, r)'
    BY DEF Sound, Undisturbed
  <2>2. job'[i] = r
    BY <1>0
  <2> QED BY <2>1, <2>2
<1>3. Inbox \in Ids' /\ removal' \in Removals'
  BY AllSound DEF Whole, FoldersStay, Removals
<1>4. Removal'
  BY AllSound DEF Whole, Removal, FoldersStay
<1>7. job' \in [Imports -> Job]
  BY <1>0
<1>5. edits' \in 0..MaxEdits /\ alone' \subseteq Imports /\ file' \in Files
  BY AllSound DEF Whole
<1>6. \A k \in Imports : Sound(k, job[k])'
  BY <1>1, <1>2
<1> QED BY <1>3, <1>4, <1>5, <1>6, <1>7, NextSound DEF Whole

LEMMA UserKeeps ==
  ASSUME IInv, file' = file, job' = job, alone' = alone, Rows', FoldersStay, Removal',
         removal' \in Removals',
         edits' \in 0..MaxEdits, lost' \in [Imports -> SUBSET Urls],
         \A k \in Imports : BookmarksStay(k), HomesStay, DOMAIN bookmarks' = DOMAIN bookmarks,
         \A b \in DOMAIN bookmarks : bookmarks'[b].live => bookmarks[b].live
  PROVE  IInv'
<1>1. ASSUME NEW k \in Imports PROVE Sound(k, job[k])'
  <2>1. PICK j : j = job[k]
    OBVIOUS
  <2>2. Sound(k, j)
    BY <2>1, AllSound DEF Whole
  <2>3. Good(j)' /\ file \in Files
    BY <2>2, SameFile, AllSound DEF Whole, Sound
  <2>4. Stands(j)'
    BY <2>2, <2>3, StandsOn DEF Sound, FoldersStay
  <2>5. Good(j) /\ Works(k, j) /\ Undisturbed(k, j) /\ BookmarksStay(k)
    BY <2>2 DEF Sound
  <2>6. Works(k, j)' /\ Undisturbed(k, j)'
    BY <2>3, <2>5, UserNear
  <2>7. Sound(k, j)'
    BY <2>3, <2>4, <2>6 DEF Sound
  <2> QED BY <2>1, <2>7
<1>2. Inbox \in Ids' /\ job' \in [Imports -> Job] /\ alone' \subseteq Imports /\ file' \in Files
  BY AllSound DEF Whole, FoldersStay
<1> QED BY <1>1, <1>2, AllSound, NextSound DEF Whole

\* Rows that are not touched, and a folder that is inserted.
LEMMA SameRows ==
  ASSUME Rows, folders' = folders, moved' = moved,
         bookmarks' \in Seq(BookmarkRow), \A b \in DOMAIN bookmarks' : bookmarks'[b].home \in Ids
  PROVE  Rows' /\ FoldersStay
BY DEF Rows, FoldersStay, Ids

LEMMA InsertedFolder ==
  ASSUME Rows, NEW row \in FolderRow, row.parent \in {Root} \cup Ids, folders' = Append(folders, row),
         moved' = moved, bookmarks' = bookmarks
  PROVE  /\ Rows' /\ FoldersStay /\ folders'[Len(folders')] = row
         /\ Len(folders') \in Nat \ {0} /\ Len(folders') \in Ids'
<1>1. /\ Ids' = 1..Len(folders) + 1 /\ Ids = 1..Len(folders) /\ Len(folders') = Len(folders) + 1
      /\ folders'[Len(folders) + 1] = row /\ Len(folders) \in Nat /\ folders' \in Seq(FolderRow)
      /\ \A g \in Ids : folders'[g] = folders[g]
  BY DEF Rows, Ids
<1>2. FoldersStay
  BY <1>1 DEF FoldersStay
<1>3. \A f \in Ids' : folders'[f].parent \in {Root} \cup Ids' /\ (folders'[f].parent < f \/ f \in moved')
  <2> SUFFICES ASSUME NEW f \in Ids'
               PROVE  folders'[f].parent \in {Root} \cup Ids' /\ (folders'[f].parent < f \/ f \in moved')
    OBVIOUS
  <2>1. CASE f \in Ids
    BY <1>1, <2>1 DEF Rows
  <2>2. CASE f = Len(folders) + 1
    BY <1>1, <2>2 DEF Root
  <2> QED BY <1>1, <2>1, <2>2
<1>4. Rows'
  BY <1>1, <1>3 DEF Rows
<1> QED BY <1>1, <1>2, <1>4

\* A statement of an import that writes no bookmark keeps everything.
LEMMA QuietKeeps ==
  ASSUME IInv, NEW i \in Imports, NEW j, j = job[i], NEW r, Good(r), Stands(r)',
         job' = [job EXCEPT ![i] = r], j.pc \in Running,
         file' = file, bookmarks' = bookmarks, UNCHANGED edited, alone' = alone, Rows', FoldersStay,
         r.pc \notin {"insert", "update"}, r.strategy = j.strategy,
         (r.ids = j.ids /\ Grows(j.cache, r.cache) /\ r.n = j.n) \/ r.n \in {0, 1}
  PROVE  IInv' /\ (i \in alone' => Steady(i, job[i])')
<1>1. /\ file \in Files /\ job \in [Imports -> Job] /\ lost \in [Imports -> SUBSET Urls]
      /\ Good(j) /\ Works(i, j) /\ Undisturbed(i, j)
  BY AllSound DEF Whole, Sound
<1>2. removal' = removal /\ edits' = edits /\ lost' = lost /\ moved' = moved
  BY DEF edited
<1>3. Works(i, r)' /\ (i \in alone' => Steady(i, r)')
  BY <1>1, <1>2, QuietStep
<1>4. Good(r)'
  BY SameFile
<1>5. \A k \in Imports \ {i} : BookmarksStay(k)
  BY <1>2 DEF BookmarksStay
<1>6. job[i].pc \in Running /\ alone' \subseteq alone
  OBVIOUS
<1>7. lost' \in [Imports -> SUBSET Urls]
  BY <1>1, <1>2
<1>8. IInv'
  BY <1>2, <1>3, <1>4, <1>5, <1>6, <1>7, ImportKeeps
<1>9. job'[i] = r
  BY <1>1
<1> QED BY <1>3, <1>8, <1>9

LEMMA KeepsById ==
  ASSUME IInv, NEW i \in Imports, InsertExported(i) \/ InsertRest(i)
  PROVE  IInv' /\ (i \in alone' => Steady(i, job[i])')
<1>0. PICK j : j = job[i]
  OBVIOUS
<1>1. /\ file \in Files /\ job \in [Imports -> Job] /\ Rows
      /\ Good(j) /\ Stands(j) /\ folders \in Seq(FolderRow) /\ TypeOK
  BY <1>0, AllSound DEF Whole, Sound, Rows, IInv
<1>2. file' = file /\ bookmarks' = bookmarks /\ UNCHANGED edited /\ alone' = alone /\ moved' = moved
  BY DEF InsertExported, InsertRest, edited
<1>3. PICK e \in Left(job[i]) : \E r : MadeById(i, job[i], e, r)
  BY <1>0, <1>1, ExportedStep, RestStep
<1>4. PICK r : MadeById(i, j, e, r)
  BY <1>0, <1>3
<1>5. e \in Left(j) /\ e \in Exports /\ (HasParent(e) => file.up[e] \in Exports)
  BY <1>0, <1>1, FileFacts DEF Left, HasParent
<1>6. PICK row : row = [name |-> e, live |-> TRUE,
         parent |-> IF HasParent(e) /\ ~Caught(e) THEN j.ids[file.up[e]] ELSE Root]
  OBVIOUS
<1>7. row.parent = IF HasParent(e) /\ ~Caught(e) THEN j.ids[file.up[e]] ELSE Root
  BY <1>6
<1>8. row.parent \in {Root} \cup Ids /\ row.parent \in Nat
  BY <1>1, <1>5, <1>7 DEF Stands, Points, Root, Good, Job
<1>9. row \in FolderRow
  BY <1>5, <1>6, <1>8, NamesAssumption DEF FolderRow
<1>10. folders' = Append(folders, row)
  BY <1>4, <1>6 DEF MadeById
<1>11. Rows' /\ FoldersStay
  BY <1>1, <1>2, <1>8, <1>9, <1>10, InsertedFolder
<1>12. PICK f : f = Len(folders')
  OBVIOUS
<1>13. r.ids = [j.ids EXCEPT ![e] = f] /\ r.cache = j.cache /\ r.strategy = j.strategy
  BY <1>4, <1>12 DEF MadeById
<1>14. Stands(r)'
  BY <1>1, <1>2, <1>5, <1>7, <1>9, <1>10, <1>12, <1>13, StandsById
<1>15. r.pc \notin {"insert", "update"} /\ j.pc \in Running /\ r.n \in {0, 1} /\ Good(r)
  BY <1>4 DEF MadeById
<1>16. job' = [job EXCEPT ![i] = r]
  BY <1>4 DEF MadeById
<1> QED BY <1>0, <1>2, <1>11, <1>13, <1>14, <1>15, <1>16, QuietKeeps

\* A folder for the path that is next: found by its name, or inserted.
LEMMA KeepsByPath ==
  ASSUME IInv, NEW i \in Imports, NEW j, j = job[i], NEW f \in Nat \ {0},
         NEW r, r = Onward([j EXCEPT !.cache[Prefix(j)] = f]),
         job' = [job EXCEPT ![i] = r], j.pc \in {"walk", "create"},
         file' = file, bookmarks' = bookmarks, UNCHANGED edited, alone' = alone, Rows', FoldersStay, f \in Ids',
         folders'[f].live /\ folders'[f].name = NameOf(Prefix(j)) /\ folders'[f].parent = ParentIn(j, Prefix(j))
  PROVE  IInv' /\ (i \in alone' => Steady(i, job[i])')
<1>1. file \in Files /\ Good(j) /\ Stands(j)
  BY AllSound DEF Whole, Sound
<1>2. PICK q : q = Prefix(j)
  OBVIOUS
<1>3. q \in Paths /\ j.cache[q] = 0 /\ j.cache \in [Paths -> Nat]
  BY <1>1, <1>2, PrefixFacts DEF Good, Job
<1>4. /\ Good(r) /\ r.ids = j.ids /\ r.strategy = j.strategy /\ r.pc \in {"ok", "check", "walk"}
      /\ r.n = j.n \/ r.n \in {0, 1}
  <2>1. PathMade(j, f, r)
    BY <1>1, FolderMade
  <2> QED BY <2>1 DEF PathMade
<1>5. r.cache = [j.cache EXCEPT ![q] = f]
  <2>1. PathMade(j, f, r)
    BY <1>1, FolderMade
  <2> QED BY <1>2, <2>1 DEF PathMade
<1>6. Stands(j)'
  BY <1>1, StandsOn DEF FoldersStay
<1>7. folders'[f].live /\ folders'[f].name = NameOf(q) /\ folders'[f].parent = ParentIn(j, q)
  BY <1>2
<1>8. Stands(r)'
  BY <1>1, <1>3, <1>4, <1>5, <1>6, <1>7, StandsByPath
<1>9. Grows(j.cache, r.cache)
  BY <1>3, <1>5 DEF Grows
<1>10. (r.ids = j.ids /\ Grows(j.cache, r.cache) /\ r.n = j.n) \/ r.n \in {0, 1}
  BY <1>4, <1>9
<1>11. r.pc \notin {"insert", "update"} /\ j.pc \in Running
  BY <1>4 DEF Running
<1> QED BY <1>4, <1>8, <1>10, <1>11, QuietKeeps

LEMMA KeepsFind ==
  ASSUME IInv, NEW i \in Imports, FindFolder(i)
  PROVE  IInv' /\ (i \in alone' => Steady(i, job[i])')
<1>0. PICK j : j = job[i]
  OBVIOUS
<1>1. /\ j.pc \in {"walk", "create"} /\ file' = file /\ folders' = folders /\ bookmarks' = bookmarks
      /\ UNCHANGED edited /\ alone' = alone /\ moved' = moved
  BY <1>0 DEF FindFolder, edited
<1>2. PICK f \in Named(NameOf(Prefix(j)), ParentIn(j, Prefix(j))) :
        job' = [job EXCEPT ![i] = Onward([j EXCEPT !.cache[Prefix(j)] = f])]
  BY <1>0 DEF FindFolder
<1>3. Rows
  BY AllSound DEF Whole
<1>4. Rows' /\ FoldersStay
  BY <1>1, <1>3, SameRows DEF Rows
<1>5. f \in Nat \ {0} /\ f \in Ids'
  BY <1>1, <1>3 DEF Rows, Named, Ids
<1>6. folders'[f].live /\ folders'[f].name = NameOf(Prefix(j)) /\ folders'[f].parent = ParentIn(j, Prefix(j))
  BY <1>1 DEF Named
<1>7. PICK r : r = Onward([j EXCEPT !.cache[Prefix(j)] = f])
  OBVIOUS
<1>8. job' = [job EXCEPT ![i] = r]
  BY <1>2, <1>7
<1> QED BY <1>0, <1>1, <1>4, <1>5, <1>6, <1>7, <1>8, KeepsByPath

LEMMA KeepsInsertFolder ==
  ASSUME IInv, NEW i \in Imports, InsertFolder(i)
  PROVE  IInv' /\ (i \in alone' => Steady(i, job[i])')
<1>0. PICK j : j = job[i]
  OBVIOUS
<1>1. /\ j.pc \in {"walk", "create"} /\ file' = file /\ bookmarks' = bookmarks
      /\ UNCHANGED edited /\ alone' = alone /\ moved' = moved
  BY <1>0 DEF InsertFolder, edited
<1>2. PICK q : q = Prefix(j)
  OBVIOUS
<1>3. PICK row : row = [name |-> NameOf(q), parent |-> ParentIn(j, q), live |-> TRUE]
  OBVIOUS
<1>4. PICK f : f = Len(folders')
  OBVIOUS
<1>5. folders' = Append(folders, row) /\ job' = [job EXCEPT ![i] = Onward([j EXCEPT !.cache[q] = f])]
  BY <1>0, <1>2, <1>3, <1>4 DEF InsertFolder
<1>6. Rows /\ file \in Files /\ Good(j) /\ Stands(j)
  BY <1>0, AllSound DEF Whole, Sound
<1>7. q \in Paths
  BY <1>1, <1>2, <1>6, PrefixFacts
<1>8. q \in Seq(STRING) /\ Len(q) \in 1..Len(q)
  BY <1>7, PathFacts
<1>9. NameOf(q) \in STRING
  BY <1>8 DEF NameOf
<1>10. ParentIn(j, q) \in {Root} \cup Ids /\ ParentIn(j, q) \in Nat
  <2>1. CASE Len(q) = 1
    BY <2>1 DEF ParentIn, Root
  <2>2. CASE Len(q) # 1
    <3>1. SubSeq(q, 1, Len(q) - 1) \in Paths
      BY <1>7, <2>2, Above
    <3> QED BY <1>6, <2>2, <3>1 DEF ParentIn, Stands, Points, Root, Good, Job
  <2> QED BY <2>1, <2>2
<1>11. row \in FolderRow /\ row.parent \in {Root} \cup Ids /\ row.live = TRUE
       /\ row.name = NameOf(q) /\ row.parent = ParentIn(j, q)
  BY <1>3, <1>9, <1>10 DEF FolderRow
<1>12. Rows' /\ FoldersStay /\ folders'[f] = row /\ f \in Nat \ {0} /\ f \in Ids'
  BY <1>1, <1>4, <1>5, <1>6, <1>11, InsertedFolder
<1>13. folders'[f].live /\ folders'[f].name = NameOf(Prefix(j)) /\ folders'[f].parent = ParentIn(j, Prefix(j))
  BY <1>2, <1>11, <1>12
<1>14. PICK r : r = Onward([j EXCEPT !.cache[Prefix(j)] = f])
  OBVIOUS
<1>15. job' = [job EXCEPT ![i] = r]
  BY <1>2, <1>5, <1>14
<1> QED BY <1>0, <1>1, <1>12, <1>13, <1>14, <1>15, KeepsByPath

\* What only looks, or fails.
LEMMA KeepsLook ==
  ASSUME IInv, NEW i \in Imports, FindNoFolder(i) \/ CheckFolder(i) \/ ImportFails(i)
  PROVE  IInv' /\ (i \in alone' => Steady(i, job[i])')
<1>0. PICK j : j = job[i]
  OBVIOUS
<1>1. /\ file' = file /\ folders' = folders /\ bookmarks' = bookmarks
      /\ UNCHANGED edited /\ alone' = alone /\ moved' = moved
  BY DEF FindNoFolder, CheckFolder, ImportFails, edited
<1>2. /\ Rows /\ file \in Files /\ Good(j) /\ Stands(j) /\ j \in Job /\ j.hit \in Nat
  BY <1>0, AllSound DEF Whole, Sound, Good, Job
<1>3. PICK c : /\ job' = [job EXCEPT ![i] = [j EXCEPT !.pc = c]]
               /\ \/ j.pc = "walk" /\ c = "create"
                  \/ j.pc = "check" /\ c \in {"lookup"}
                  \/ j.pc \in Running /\ c = "failed"
  <2>1. CASE FindNoFolder(i)
    BY <1>0, <2>1 DEF FindNoFolder
  <2>2. CASE CheckFolder(i) /\ folders[Target(j)].live
    <3>1. j.pc = "check" /\ job' = [job EXCEPT ![i].pc = "lookup"]
      BY <1>0, <2>2 DEF CheckFolder
    <3> QED BY <1>0, <3>1
  <2>3. CASE CheckFolder(i) /\ ~folders[Target(j)].live
    <3>1. j.pc = "check" /\ job' = [job EXCEPT ![i].pc = "failed"]
      BY <1>0, <2>3 DEF CheckFolder
    <3> QED BY <1>0, <3>1 DEF Running
  <2>4. CASE ImportFails(i)
    BY <1>0, <2>4 DEF ImportFails
  <2> QED BY <2>1, <2>2, <2>3, <2>4
<1>4. PICK r : r = [j EXCEPT !.pc = c]
  OBVIOUS
<1>5. r = [j EXCEPT !.pc = c, !.hit = j.hit]
  BY <1>2, <1>4 DEF Job
<1>6. Good(r) /\ r.cache = j.cache /\ r.ids = j.ids /\ r.strategy = j.strategy /\ r.pc = c /\ r.n = j.n
  <2>1. \/ j.pc = "walk" /\ c = "create"
        \/ j.pc = "check" /\ c \in {"lookup"}
        \/ j.pc = "lookup" /\ c \in {"insert", "update"}
        \/ j.pc \in Running /\ c = "failed"
    BY <1>3
  <2>2. WentOn(j, c, j.hit, r)
    BY <1>2, <1>5, <2>1, PcOnly
  <2> QED BY <2>2 DEF WentOn
<1>7. j.pc \in Running /\ r.pc \notin {"insert", "update"}
  BY <1>3, <1>6 DEF Running
<1>8. Rows' /\ FoldersStay
  BY <1>1, <1>2, SameRows DEF Rows
<1>9. Stands(j)'
  BY <1>1, <1>2, <1>8, StandsOn DEF FoldersStay
<1>10. Stands(r)'
  BY <1>6, <1>9, StandsSame
<1>11. Grows(j.cache, r.cache)
  BY <1>6 DEF Grows
<1>12. (r.ids = j.ids /\ Grows(j.cache, r.cache) /\ r.n = j.n) \/ r.n \in {0, 1}
  BY <1>6, <1>11
<1>13. job' = [job EXCEPT ![i] = r]
  BY <1>3, <1>4
<1> QED BY <1>0, <1>1, <1>6, <1>7, <1>8, <1>10, <1>12, <1>13, QuietKeeps

-----------------------------------------------------------------------------
\* An item that is looked up and written

LEMMA SpotIsFolder ==
  ASSUME NEW j, file \in Files, Stands(j), AtItem(j), Inbox \in Ids PROVE SpotAt(j, j.n) \in Ids
<1>1. PICK item : item = file.items[j.n]
  OBVIOUS
<1>2. item.path \in Paths \cup {<<>>} /\ item.export \in Exports \cup {"none"}
  BY <1>1, FileFacts DEF AtItem
<1>3. Made(j.ids, item) \/ Cached(j.cache, item.path)
  BY <1>1 DEF AtItem, Settled
<1>4. Spot(j.ids, j.cache, item) \in Ids
  <2>1. CASE Made(j.ids, item)
    BY <1>2, <2>1 DEF Spot, Made, Stands, Points
  <2>2. CASE ~Made(j.ids, item) /\ item.path = <<>>
    BY <2>2 DEF Spot
  <2>3. CASE ~Made(j.ids, item) /\ item.path # <<>>
    <3>1. PICK q \in Paths : q = item.path
      BY <1>2, <2>3
    <3>2. Len(q) \in 1..Len(q) /\ SubSeq(q, 1, Len(q)) = q
      BY PathFacts
    <3>3. j.cache[SubSeq(q, 1, Len(q))] # 0
      BY <1>3, <2>3, <3>1, <3>2 DEF Cached
    <3>4. j.cache[q] \in Ids
      BY <3>2, <3>3 DEF Stands, Points
    <3> QED BY <2>3, <3>1, <3>4 DEF Spot
  <2> QED BY <2>1, <2>2, <2>3
<1> QED BY <1>1, <1>4 DEF SpotAt

\* The duplicate is live, and in the folder of the item when one is.
LEMMA DuplicateFacts ==
  ASSUME Rows, NEW u, NEW f, NEW h, h = Duplicate(u, f)
  PROVE  /\ h = 0 => Hits(u) = {}
         /\ h # 0 => h \in Hits(u) /\ (HitsIn(u, f) # {} => h \in HitsIn(u, f))
         /\ h \in Nat
<1>1. Hits(u) \subseteq Nat \ {0} /\ HitsIn(u, f) \subseteq Hits(u)
  BY DEF Rows, Hits, HitsIn
<1>2. ASSUME NEW S, S \subseteq Nat \ {0}
      PROVE  First(S) \in Nat /\ (First(S) = 0 => S = {}) /\ (First(S) # 0 => First(S) \in S)
  <2>1. CASE S = {}
    BY <2>1 DEF First
  <2>2. CASE S # {}
    <3>1. Min(S) \in S
      BY <1>2, <2>2, LeastOne
    <3> QED BY <1>2, <2>2, <3>1 DEF First
  <2> QED BY <2>1, <2>2
<1>3. CASE HitsIn(u, f) # {}
  <2>1. h = First(HitsIn(u, f))
    BY <1>3 DEF Duplicate
  <2> QED BY <1>1, <1>2, <1>3, <2>1
<1>4. CASE HitsIn(u, f) = {}
  <2>1. h = First(Hits(u))
    BY <1>4 DEF Duplicate
  <2> QED BY <1>1, <1>2, <1>4, <2>1
<1> QED BY <1>3, <1>4

\* An item is done: its URL is live, or the user has deleted it meanwhile ...
LEMMA WorksNext ==
  ASSUME NEW i \in Imports, NEW j, NEW r, file \in Files, Works(i, j), BookmarksStay(i), AtItem(j), ItemOver(j, r),
         UrlAt(j.n) \in lost'[i] \/ IsLive(UrlAt(j.n))'
  PROVE  Works(i, r)'
<1>1. file' = file
  BY DEF BookmarksStay
<1>2. ASSUME NEW m \in 1..Len(file.items), m < r.n PROVE UrlAt(m)' \in lost'[i] \/ IsLive(UrlAt(m))'
  <2>1. CASE m < j.n
    <3>1. UrlAt(m) \in lost[i] \/ IsLive(UrlAt(m))
      BY <2>1 DEF Works
    <3> QED BY <3>1 DEF BookmarksStay, IsLive, UrlAt
  <2>2. CASE m = j.n
    BY <1>1, <2>2 DEF IsLive, UrlAt
  <2>3. m < j.n \/ m = j.n
    BY <1>2 DEF AtItem, ItemOver
  <2> QED BY <2>1, <2>2, <2>3
<1>3. r.pc # "update"
  BY DEF ItemOver
<1> QED BY <1>1, <1>2, <1>3 DEF Works

\* ... and has its bookmark where the file says.
LEMMA LandedNext ==
  ASSUME NEW i \in Imports, NEW j, NEW r, file \in Files, Good(j), Landed(i, j), BookmarksStay(i),
         AtItem(j), ItemOver(j, r),
         \A b \in DOMAIN bookmarks :
           bookmarks'[b].home = bookmarks[b].home \/ bookmarks[b].url = UrlAt(j.n),
         UrlAt(j.n) \in lost'[i] \/ HitsIn(UrlAt(j.n), SpotAt(j, j.n))' # {}
  PROVE  Landed(i, r)'
<1>1. file' = file /\ j.n \in 1..Len(file.items) /\ Len(file.items) \in Nat
  BY FileFacts DEF BookmarksStay, AtItem
<1> SUFFICES ASSUME NEW m \in 1..Len(file.items), LastSoFar(r, m)'
             PROVE  \/ UrlAt(m)' \in lost'[i] \/ SpotAt(r, m)' \in moved'
                    \/ HitsIn(UrlAt(m), SpotAt(r, m))' # {}
  BY <1>1 DEF Landed
<1>2. UrlAt(m)' = UrlAt(m) /\ SpotAt(r, m)' = SpotAt(r, m) /\ SpotAt(r, m) = SpotAt(j, m)
  BY <1>1 DEF UrlAt, SpotAt, ItemOver
<1>3. m < r.n /\ \A l \in m+1..r.n-1 : UrlAt(l) # UrlAt(m)
  BY <1>1 DEF LastSoFar, UrlAt
<1>4. r.n = j.n + 1
  BY DEF ItemOver
<1>5. PICK u, s : u = UrlAt(m) /\ s = SpotAt(j, m)
  OBVIOUS
<1>6. HitsIn(u, s)' = HitsIn(UrlAt(m), SpotAt(r, m))'
  BY <1>2, <1>5 DEF HitsIn, Hits
<1>7. u \in lost'[i] \/ s \in moved' \/ HitsIn(u, s)' # {}
  <2>1. CASE m = j.n
    <3>1. HitsIn(u, s)' = HitsIn(UrlAt(j.n), SpotAt(j, j.n))'
      BY <1>1, <1>5, <2>1 DEF HitsIn, Hits, UrlAt, SpotAt
    <3> QED BY <1>5, <2>1, <3>1
  <2>2. CASE m < j.n
    <3>1. UrlAt(j.n) # UrlAt(m)
      BY <1>1, <1>3, <1>4, <2>2
    <3>2. LastSoFar(j, m)
      BY <1>1, <1>3, <1>4, <2>2 DEF LastSoFar
    <3>3. u \in lost[i] \/ s \in moved \/ HitsIn(u, s) # {}
      BY <1>5, <3>2 DEF Landed
    <3>4. CASE u \in lost[i] \/ s \in moved
      BY <3>4 DEF BookmarksStay
    <3>5. CASE HitsIn(u, s) # {}
      <4>1. PICK b \in HitsIn(u, s) : TRUE
        BY <3>5
      <4>2. b \in DOMAIN bookmarks /\ bookmarks[b].url = u /\ bookmarks[b].live /\ bookmarks[b].home = s
        BY DEF HitsIn, Hits
      <4> QED BY <1>5, <3>1, <4>2 DEF BookmarksStay, HitsIn, Hits
    <3> QED BY <3>3, <3>4, <3>5
  <2> QED BY <1>1, <1>3, <1>4, <2>1, <2>2
<1> QED BY <1>2, <1>5, <1>6, <1>7

LEMMA KeepsLookUp ==
  ASSUME IInv, NEW i \in Imports, LookUp(i)
  PROVE  IInv' /\ (i \in alone' => Steady(i, job[i])')
<1>0. PICK j : j = job[i]
  OBVIOUS
<1>1. /\ j.pc = "lookup" /\ file' = file /\ folders' = folders /\ bookmarks' = bookmarks
      /\ alone' = alone /\ moved' = moved /\ lost' = lost /\ removal' = removal /\ edits' = edits
  BY <1>0 DEF LookUp, edited
<1>2. /\ Rows /\ file \in Files /\ Good(j) /\ Stands(j) /\ j \in Job /\ job \in [Imports -> Job]
      /\ Works(i, j) /\ Undisturbed(i, j) /\ lost \in [Imports -> SUBSET Urls]
  BY <1>0, AllSound DEF Whole, Sound, Good
<1>3. AtItem(j)
  BY <1>1, <1>2, ItemAt
<1>4. PICK h : h = Duplicate(file.items[j.n].url, Target(j))
  OBVIOUS
<1>5. PICK r : r = IF h = 0 THEN [j EXCEPT !.pc = "insert"]
                   ELSE IF j.strategy = "merge" THEN [j EXCEPT !.pc = "update", !.hit = h]
                   ELSE NextItem(j)
  OBVIOUS
<1>6. job' = [job EXCEPT ![i] = r]
  BY <1>0, <1>4, <1>5 DEF LookUp
<1>7. PICK u, s : u = UrlAt(j.n) /\ s = SpotAt(j, j.n)
  OBVIOUS
<1>8. h = Duplicate(u, s)
  BY <1>3, <1>4, <1>7 DEF AtItem, UrlAt
<1>9. /\ h = 0 => Hits(u) = {}
      /\ h # 0 => h \in Hits(u) /\ (HitsIn(u, s) # {} => h \in HitsIn(u, s))
      /\ h \in Nat
  BY <1>2, <1>8, DuplicateFacts
<1>10. j.strategy \in {"skip_duplicate", "merge"} /\ j.hit \in Nat
  BY <1>2 DEF Job
<1>11. BookmarksStay(i) /\ HomesStay /\ \A k \in Imports \ {i} : BookmarksStay(k)
  BY <1>1 DEF BookmarksStay, HomesStay
<1>12. ASSUME i \in alone
       PROVE  /\ \A k \in Imports \ {i} : job'[k].pc \notin Running
              /\ j.strategy = "merge" => Landed(i, j)
  <2>1. Steady(i, j)
    BY <1>1, <1>2, <1>12 DEF Undisturbed, Running
  <2> QED BY <1>2, <1>6, <2>1 DEF Steady
<1>13. UrlAt(j.n)' = u /\ Hits(u)' = Hits(u) /\ HitsIn(u, s)' = HitsIn(u, s)
  BY <1>1, <1>7 DEF UrlAt, Hits, HitsIn
<1>14. /\ Good(r) /\ r.ids = j.ids /\ r.cache = j.cache /\ Works(i, r)'
       /\ i \in alone' => Steady(i, r)'
  <2>1. CASE h = 0
    <3>1. r = [j EXCEPT !.pc = "insert", !.hit = j.hit]
      BY <1>2, <1>5, <2>1 DEF Job
    <3>2. j.pc = "lookup" /\ "insert" \in {"insert", "update"}
      BY <1>1
    <3>3. WentOn(j, "insert", j.hit, r)
      BY <1>2, <1>10, <3>1, <3>2, PcOnly
    <3>4. /\ Good(r) /\ r.ids = j.ids /\ r.cache = j.cache /\ r.n = j.n /\ r.pc = "insert"
          /\ r.strategy = j.strategy /\ Grows(j.cache, r.cache) /\ r.pc # "update"
      BY <3>3 DEF WentOn, Grows
    <3>5. Works(i, r)'
      BY <1>2, <1>11, <3>4, WorksOn
    <3>6. ASSUME i \in alone PROVE Steady(i, r)'
      <4>1. j.strategy = "merge" => Landed(i, r)'
        BY <1>2, <1>11, <1>12, <3>4, <3>6, LandedOn
      <4>2. Hits(UrlAt(r.n))' = {}
        <5>1. UrlAt(r.n)' = u
          BY <1>13, <3>4
        <5>2. Hits(u)' = {}
          BY <1>9, <1>13, <2>1
        <5>3. Hits(UrlAt(r.n))' = Hits(u)'
          BY <5>1 DEF Hits
        <5> QED BY <5>2, <5>3
      <4> QED BY <1>12, <3>4, <3>6, <4>1, <4>2 DEF Steady
    <3> QED BY <1>1, <3>4, <3>5, <3>6
  <2>2. CASE h # 0 /\ j.strategy = "merge"
    <3>1. r = [j EXCEPT !.pc = "update", !.hit = h]
      BY <1>5, <2>2
    <3>2. j.pc = "lookup" /\ "update" \in {"insert", "update"}
      BY <1>1
    <3>3. WentOn(j, "update", h, r)
      BY <1>2, <1>9, <3>1, <3>2, PcOnly
    <3>4. /\ Good(r) /\ r.ids = j.ids /\ r.cache = j.cache /\ r.n = j.n /\ r.pc = "update" /\ r.hit = h
          /\ r.strategy = j.strategy /\ Grows(j.cache, r.cache)
      BY <3>3 DEF WentOn, Grows
    <3>5. h \in DOMAIN bookmarks' /\ bookmarks'[h].url = u /\ bookmarks'[h].live
      BY <1>1, <1>9, <2>2 DEF Hits
    <3>6. Works(i, r)'
      <4>1. UrlAt(r.n)' = u
        BY <1>13, <3>4
      <4>2. \A m \in 1..Len(file'.items) : m < r.n => UrlAt(m)' \in lost'[i] \/ IsLive(UrlAt(m))'
        BY <1>1, <1>2, <3>4 DEF Works, IsLive, UrlAt
      <4> QED BY <3>4, <3>5, <4>1, <4>2 DEF Works
    <3>7. ASSUME i \in alone PROVE Steady(i, r)'
      <4>1. Landed(i, r)'
        BY <1>2, <1>11, <1>12, <2>2, <3>4, <3>7, LandedOn
      <4>2. ASSUME HitsIn(UrlAt(r.n), SpotAt(r, r.n))' # {} PROVE bookmarks'[r.hit].home = SpotAt(r, r.n)'
        <5>1. SpotAt(r, r.n)' = s /\ UrlAt(r.n)' = u
          BY <1>1, <1>7, <1>13, <3>4 DEF SpotAt
        <5>2. HitsIn(u, s)' # {}
          BY <4>2, <5>1 DEF HitsIn, Hits
        <5>3. h \in HitsIn(u, s)
          BY <1>9, <1>13, <2>2, <5>2
        <5> QED BY <1>1, <3>4, <5>1, <5>3 DEF HitsIn
      <4> QED BY <1>12, <3>4, <3>7, <4>1, <4>2 DEF Steady
    <3> QED BY <1>1, <3>4, <3>6, <3>7
  <2>3. CASE h # 0 /\ j.strategy # "merge"
    <3>1. r = NextItem(j)
      BY <1>5, <2>3
    <3>2. ItemOver(j, r)
      BY <1>2, <1>3, <3>1, ItemDone
    <3>3. IsLive(UrlAt(j.n))'
      <4>1. h \in DOMAIN bookmarks' /\ bookmarks'[h].url = u /\ bookmarks'[h].live
        BY <1>1, <1>9, <2>3 DEF Hits
      <4> QED BY <1>13, <4>1 DEF IsLive
    <3>4. Works(i, r)'
      BY <1>2, <1>3, <1>11, <3>2, <3>3, WorksNext
    <3>5. ASSUME i \in alone PROVE Steady(i, r)'
      BY <1>12, <2>3, <3>2, <3>5 DEF Steady, ItemOver
    <3> QED BY <1>1, <3>2, <3>4, <3>5 DEF ItemOver
  <2> QED BY <2>1, <2>2, <2>3
<1>15. Rows' /\ FoldersStay
  BY <1>1, <1>2, SameRows DEF Rows
<1>16. Stands(j)'
  BY <1>1, <1>2, <1>15, StandsOn DEF FoldersStay
<1>17. Stands(r)'
  BY <1>14, <1>16, StandsSame
<1>18. Good(r)'
  BY <1>1, <1>14, SameFile
<1>19. job[i].pc \in Running /\ alone' \subseteq alone
  BY <1>0, <1>1 DEF Running
<1>20. lost' \in [Imports -> SUBSET Urls]
  BY <1>1, <1>2
<1>21. IInv'
  BY <1>1, <1>6, <1>11, <1>14, <1>15, <1>17, <1>18, <1>19, <1>20, ImportKeeps
<1>22. job'[i] = r
  BY <1>2, <1>6
<1> QED BY <1>14, <1>21, <1>22

\* A bookmark is written, and the item done.
LEMMA KeepsWrite ==
  ASSUME IInv, NEW i \in Imports, NEW j, j = job[i], NEW r, r = NextItem(j),
         job' = [job EXCEPT ![i] = r], j.pc \in {"update", "insert"},
         file' = file, folders' = folders, UNCHANGED edited, alone' = alone,
         bookmarks' \in Seq(BookmarkRow), \A b \in DOMAIN bookmarks' : bookmarks'[b].home \in Ids,
         \A b \in DOMAIN bookmarks :
           /\ b \in DOMAIN bookmarks' /\ bookmarks'[b].url = bookmarks[b].url
           /\ bookmarks[b].live => bookmarks'[b].live
           /\ bookmarks'[b].home = bookmarks[b].home \/ bookmarks[b].url = UrlAt(j.n),
         NEW h, h \in DOMAIN bookmarks' /\ bookmarks'[h].url = UrlAt(j.n),
         bookmarks'[h].live \/ UrlAt(j.n) \in lost[i],
         bookmarks'[h].home = SpotAt(j, j.n)
  PROVE  IInv' /\ (i \in alone' => Steady(i, job[i])')
<1>1. /\ Rows /\ file \in Files /\ Good(j) /\ Stands(j) /\ job \in [Imports -> Job]
      /\ Works(i, j) /\ Undisturbed(i, j) /\ lost \in [Imports -> SUBSET Urls]
  BY AllSound DEF Whole, Sound, Good
<1>2. moved' = moved /\ lost' = lost /\ removal' = removal /\ edits' = edits
  BY DEF edited
<1>3. AtItem(j)
  BY <1>1, ItemAt
<1>4. ItemOver(j, r)
  BY <1>1, <1>3, ItemDone
<1>5. BookmarksStay(i) /\ \A k \in Imports \ {i} : BookmarksStay(k)
  BY <1>2 DEF BookmarksStay
<1>6. PICK u, s : u = UrlAt(j.n) /\ s = SpotAt(j, j.n)
  OBVIOUS
<1>7. UrlAt(j.n)' = u /\ SpotAt(j, j.n)' = s
  BY <1>6 DEF UrlAt, SpotAt
<1>8. u \in lost'[i] \/ (IsLive(u)' /\ HitsIn(u, s)' # {})
  BY <1>2, <1>6 DEF IsLive, HitsIn, Hits
<1>9. UrlAt(j.n) \in lost'[i] \/ IsLive(UrlAt(j.n))'
  BY <1>6, <1>7, <1>8 DEF IsLive
<1>10. Works(i, r)'
  BY <1>1, <1>3, <1>4, <1>5, <1>9, WorksNext
<1>11. ASSUME i \in alone' PROVE Steady(i, r)'
  <2>1. Steady(i, j)
    BY <1>1, <1>11 DEF Undisturbed, Running
  <2>2. \A k \in Imports \ {i} : job'[k].pc \notin Running
    BY <1>1, <2>1 DEF Steady
  <2>3. ASSUME r.strategy = "merge" PROVE Landed(i, r)'
    <3>1. Landed(i, j)
      BY <1>4, <2>1, <2>3 DEF Steady, ItemOver
    <3>2. UrlAt(j.n) \in lost'[i] \/ HitsIn(UrlAt(j.n), SpotAt(j, j.n))' # {}
      BY <1>6, <1>7, <1>8 DEF HitsIn, Hits
    <3>3. \A b \in DOMAIN bookmarks :
            bookmarks'[b].home = bookmarks[b].home \/ bookmarks[b].url = UrlAt(j.n)
      OBVIOUS
    <3> QED BY <1>1, <1>3, <1>4, <1>5, <3>1, <3>2, <3>3, LandedNext
  <2> QED BY <1>4, <2>2, <2>3 DEF Steady, ItemOver
<1>12. Rows' /\ FoldersStay
  BY <1>1, <1>2, SameRows
<1>13. Stands(j)'
  BY <1>1, <1>12, StandsOn DEF FoldersStay
<1>14. Stands(r)'
  BY <1>4, <1>13, StandsSame DEF ItemOver
<1>15. Good(r)'
  BY <1>4, SameFile DEF ItemOver
<1>16. job[i].pc \in Running /\ alone' \subseteq alone
  BY DEF Running
<1>17. lost' \in [Imports -> SUBSET Urls]
  BY <1>1, <1>2
<1>18. IInv'
  BY <1>2, <1>5, <1>10, <1>11, <1>12, <1>14, <1>15, <1>16, <1>17, ImportKeeps
<1>19. job'[i] = r
  BY <1>1
<1> QED BY <1>11, <1>18, <1>19

LEMMA KeepsUpdate ==
  ASSUME IInv, NEW i \in Imports, UpdateBookmark(i)
  PROVE  IInv' /\ (i \in alone' => Steady(i, job[i])')
<1>0. PICK j, r : j = job[i] /\ r = NextItem(j)
  OBVIOUS
<1>1. /\ j.pc \in {"update", "insert"} /\ j.pc = "update" /\ file' = file /\ folders' = folders
      /\ UNCHANGED edited /\ alone' = alone /\ job' = [job EXCEPT ![i] = r]
  BY <1>0 DEF UpdateBookmark, edited
<1>2. bookmarks' = [bookmarks EXCEPT ![j.hit].home = Target(j)]
  BY <1>0 DEF UpdateBookmark, Merged
<1>3. Rows /\ file \in Files /\ Good(j) /\ Stands(j) /\ Works(i, j) /\ Inbox \in Ids
  BY <1>0, AllSound DEF Whole, Sound
<1>4. AtItem(j)
  BY <1>1, <1>3, ItemAt
<1>5. PICK s : s = SpotAt(j, j.n)
  OBVIOUS
<1>6. s \in Ids /\ s \in Nat
  BY <1>3, <1>4, <1>5, SpotIsFolder DEF Rows, Ids
<1>7. /\ j.hit \in DOMAIN bookmarks /\ bookmarks[j.hit].url = UrlAt(j.n)
      /\ bookmarks[j.hit].live \/ UrlAt(j.n) \in lost[i]
  BY <1>1, <1>3 DEF Works
<1>8. PICK h, row : h = j.hit /\ row = [bookmarks[h] EXCEPT !.home = s]
  OBVIOUS
<1>9. bookmarks' = [bookmarks EXCEPT ![h] = row]
  BY <1>2, <1>4, <1>5, <1>8 DEF AtItem
<1>10. bookmarks \in Seq(BookmarkRow) /\ h \in DOMAIN bookmarks /\ bookmarks[h] \in BookmarkRow
  BY <1>3, <1>7, <1>8 DEF Rows
<1>11. /\ row \in BookmarkRow /\ row.home = s /\ row.url = bookmarks[h].url /\ row.live = bookmarks[h].live
  BY <1>6, <1>8, <1>10 DEF BookmarkRow
<1>12. /\ bookmarks' \in Seq(BookmarkRow) /\ DOMAIN bookmarks' = DOMAIN bookmarks /\ bookmarks'[h] = row
       /\ \A b \in DOMAIN bookmarks : b # h => bookmarks'[b] = bookmarks[b]
  BY <1>9, <1>10, <1>11
<1>13. \A b \in DOMAIN bookmarks' : bookmarks'[b].home \in Ids
  BY <1>3, <1>6, <1>11, <1>12 DEF Rows
<1>14. \A b \in DOMAIN bookmarks :
           /\ b \in DOMAIN bookmarks' /\ bookmarks'[b].url = bookmarks[b].url
           /\ bookmarks[b].live => bookmarks'[b].live
           /\ bookmarks'[b].home = bookmarks[b].home \/ bookmarks[b].url = UrlAt(j.n)
  BY <1>7, <1>8, <1>11, <1>12
<1>15. h \in DOMAIN bookmarks' /\ bookmarks'[h].url = UrlAt(j.n)
  BY <1>7, <1>8, <1>11, <1>12
<1>16. bookmarks'[h].live \/ UrlAt(j.n) \in lost[i]
  BY <1>7, <1>8, <1>11, <1>12
<1>17. bookmarks'[h].home = SpotAt(j, j.n)
  BY <1>5, <1>11, <1>12
<1> QED BY <1>0, <1>1, <1>12, <1>13, <1>14, <1>15, <1>16, <1>17, KeepsWrite

LEMMA KeepsInsertBookmark ==
  ASSUME IInv, NEW i \in Imports, InsertBookmark(i)
  PROVE  IInv' /\ (i \in alone' => Steady(i, job[i])')
<1>0. PICK j, r : j = job[i] /\ r = NextItem(j)
  OBVIOUS
<1>1. /\ j.pc \in {"update", "insert"} /\ file' = file /\ folders' = folders
      /\ UNCHANGED edited /\ alone' = alone /\ job' = [job EXCEPT ![i] = r]
  BY <1>0 DEF InsertBookmark, edited
<1>2. Rows /\ file \in Files /\ Good(j) /\ Stands(j) /\ Inbox \in Ids
  BY <1>0, AllSound DEF Whole, Sound
<1>3. AtItem(j)
  BY <1>1, <1>2, ItemAt
<1>4. PICK s, u : s = SpotAt(j, j.n) /\ u = UrlAt(j.n)
  OBVIOUS
<1>5. s \in Ids /\ s \in Nat
  BY <1>2, <1>3, <1>4, SpotIsFolder DEF Rows, Ids
<1>6. u \in Urls
  BY <1>2, <1>3, <1>4, FileFacts DEF UrlAt, AtItem
<1>7. PICK h, row : h = Len(bookmarks) + 1 /\ row = [url |-> u, home |-> s, live |-> TRUE]
  OBVIOUS
<1>8. bookmarks' = Append(bookmarks, row)
  BY <1>0, <1>3, <1>4, <1>7 DEF InsertBookmark, AtItem, UrlAt
<1>9. row \in BookmarkRow /\ row.home = s /\ row.url = u /\ row.live = TRUE
  BY <1>5, <1>6, <1>7 DEF BookmarkRow
<1>10. /\ bookmarks' \in Seq(BookmarkRow) /\ DOMAIN bookmarks' = DOMAIN bookmarks \cup {h}
       /\ bookmarks'[h] = row /\ \A b \in DOMAIN bookmarks : bookmarks'[b] = bookmarks[b]
  BY <1>2, <1>7, <1>8, <1>9 DEF Rows
<1>11. \A b \in DOMAIN bookmarks' : bookmarks'[b].home \in Ids
  BY <1>2, <1>5, <1>9, <1>10 DEF Rows
<1>12. \A b \in DOMAIN bookmarks :
           /\ b \in DOMAIN bookmarks' /\ bookmarks'[b].url = bookmarks[b].url
           /\ bookmarks[b].live => bookmarks'[b].live
           /\ bookmarks'[b].home = bookmarks[b].home \/ bookmarks[b].url = UrlAt(j.n)
  BY <1>10
<1>13. h \in DOMAIN bookmarks' /\ bookmarks'[h].url = UrlAt(j.n)
  BY <1>4, <1>9, <1>10
<1>14. bookmarks'[h].live \/ UrlAt(j.n) \in lost[i]
  BY <1>9, <1>10
<1>15. bookmarks'[h].home = SpotAt(j, j.n)
  BY <1>4, <1>9, <1>10
<1> QED BY <1>0, <1>1, <1>10, <1>11, <1>12, <1>13, <1>14, <1>15, KeepsWrite

LEMMA KeepsStart ==
  ASSUME IInv, NEW i \in Imports, StartImport(i)
  PROVE  IInv' /\ (i \in alone' => Steady(i, job[i])')
<1>1. PICK s \in {"skip_duplicate", "merge"} : job' = [job EXCEPT ![i] = Begun(s)]
  BY DEF StartImport
<1>2. PICK r : r = Begun(s)
  OBVIOUS
<1>3. /\ file' = file /\ folders' = folders /\ bookmarks' = bookmarks /\ removal' = removal /\ edits' = edits
      /\ moved' = moved /\ lost' = [lost EXCEPT ![i] = {}] /\ job' = [job EXCEPT ![i] = r]
      /\ alone' = IF Busy = {} THEN alone ELSE alone \ (Busy \cup {i})
  BY <1>1, <1>2 DEF StartImport
<1>4. Rows /\ file \in Files /\ job \in [Imports -> Job] /\ lost \in [Imports -> SUBSET Urls]
  BY AllSound DEF Whole
<1>5. /\ Good(r) /\ r.n \in {0, 1} /\ r.pc \in {"ok", "check", "walk", "identity", "rest"}
      /\ (\A e \in Exports : r.ids[e] = 0) /\ \A q \in Paths : r.cache[q] = 0
  BY <1>2, <1>4, BegunGood
<1>6. Good(r)'
  BY <1>3, <1>5, SameFile
<1>7. Stands(r)'
  <2>1. file' \in Files
    BY <1>3, <1>4
  <2>2. \A e \in file'.exports : e \in Exports
    BY <1>3, <1>4, FileFacts
  <2> QED BY <1>5, <2>2 DEF Stands, Points, TreeOf, PathsOf
<1>8. Works(i, r)'
  BY <1>5 DEF Works
<1>9. ASSUME i \in alone' PROVE Steady(i, r)'
  <2>1. Busy = {}
    BY <1>3, <1>9
  <2>2. \A k \in Imports \ {i} : job'[k].pc \notin Running
    BY <1>3, <1>4, <2>1 DEF Busy
  <2>3. Landed(i, r)'
    BY <1>5, LandedNothing
  <2> QED BY <1>5, <2>2, <2>3 DEF Steady
<1>10. Rows' /\ FoldersStay
  BY <1>3, <1>4, SameRows DEF Rows
<1>11. \A k \in Imports \ {i} : BookmarksStay(k)
  BY <1>3, <1>4 DEF BookmarksStay
<1>12. lost' \in [Imports -> SUBSET Urls]
  BY <1>3, <1>4
<1>13. IInv'
  BY <1>3, <1>6, <1>7, <1>8, <1>9, <1>10, <1>11, <1>12, ImportKeeps
<1>14. job'[i] = r
  BY <1>3, <1>4
<1> QED BY <1>9, <1>13, <1>14

-----------------------------------------------------------------------------
\* The user, meanwhile

LEMMA KeepsDeleteBookmark == ASSUME IInv, DeleteBookmark PROVE IInv'
<1>1. /\ file' = file /\ folders' = folders /\ job' = job /\ removal' = removal
      /\ moved' = moved /\ alone' = alone /\ edits < MaxEdits /\ edits' = edits + 1
  BY DEF DeleteBookmark
<1>2. PICK b \in DOMAIN bookmarks :
        /\ bookmarks' = [bookmarks EXCEPT ![b].live = FALSE]
        /\ lost' = [i \in Imports |-> lost[i] \cup {bookmarks[b].url}]
  BY DEF DeleteBookmark
<1>3. Rows /\ lost \in [Imports -> SUBSET Urls] /\ edits \in 0..MaxEdits /\ removal \in Removals /\ Removal
  BY AllSound DEF Whole
<1>4. PICK row : row = [bookmarks[b] EXCEPT !.live = FALSE]
  OBVIOUS
<1>5. bookmarks \in Seq(BookmarkRow) /\ bookmarks[b] \in BookmarkRow
  BY <1>3 DEF Rows
<1>6. /\ row \in BookmarkRow /\ row.url = bookmarks[b].url /\ row.home = bookmarks[b].home /\ row.live = FALSE
      /\ bookmarks[b].url \in Urls
  BY <1>4, <1>5 DEF BookmarkRow
<1>7. bookmarks' = [bookmarks EXCEPT ![b] = row]
  BY <1>2, <1>4
<1>8. /\ bookmarks' \in Seq(BookmarkRow) /\ DOMAIN bookmarks' = DOMAIN bookmarks /\ bookmarks'[b] = row
      /\ \A c \in DOMAIN bookmarks : c # b => bookmarks'[c] = bookmarks[c]
  BY <1>5, <1>6, <1>7
<1>9. \A c \in DOMAIN bookmarks' : bookmarks'[c].home \in Ids
  BY <1>3, <1>6, <1>8 DEF Rows
<1>10. Rows' /\ FoldersStay
  BY <1>1, <1>3, <1>8, <1>9, SameRows
<1>11. lost' \in [Imports -> SUBSET Urls]
  BY <1>2, <1>3, <1>6
<1>12. \A k \in Imports : BookmarksStay(k)
  BY <1>1, <1>2, <1>6, <1>8 DEF BookmarksStay
<1>13. HomesStay /\ \A c \in DOMAIN bookmarks : bookmarks'[c].live => bookmarks[c].live
  BY <1>6, <1>8 DEF HomesStay
<1>14. edits' \in 0..MaxEdits
  BY <1>1, <1>3, EditsAssumption
<1>15. removal' \in Removals' /\ Removal'
  BY <1>1, <1>3 DEF Removals, Removal, Ids
<1> QED BY <1>1, <1>8, <1>10, <1>11, <1>12, <1>13, <1>14, <1>15, UserKeeps

LEMMA KeepsDeleteFolder == ASSUME IInv, DeleteFolder PROVE IInv'
<1>1. /\ file' = file /\ folders' = folders /\ job' = job /\ bookmarks' = bookmarks
      /\ lost' = lost /\ alone' = alone /\ edits < MaxEdits /\ edits' = edits + 1
  BY DEF DeleteFolder
<1>2. PICK f \in Ids \ {Inbox} :
        /\ \E to \in MoveTo(f) : removal' = [pc |-> "bookmarks", at |-> f, to |-> to]
        /\ moved' = moved \cup {f}
  BY DEF DeleteFolder
<1>3. PICK to \in MoveTo(f) : removal' = [pc |-> "bookmarks", at |-> f, to |-> to]
  BY <1>2
<1>4. Rows /\ lost \in [Imports -> SUBSET Urls] /\ edits \in 0..MaxEdits /\ Inbox \in Ids
  BY AllSound DEF Whole
<1>5. to \in Ids
  BY <1>4 DEF MoveTo, Rows
<1>6. removal' \in Removals' /\ Removal'
  BY <1>1, <1>2, <1>3, <1>5 DEF Removals, Removal, Ids
<1>7. Rows' /\ FoldersStay
  BY <1>1, <1>2, <1>4 DEF Rows, FoldersStay, Ids
<1>8. (\A k \in Imports : BookmarksStay(k)) /\ HomesStay
  BY <1>1, <1>2 DEF BookmarksStay, HomesStay
<1>9. edits' \in 0..MaxEdits
  BY <1>1, <1>4, EditsAssumption
<1> QED BY <1>1, <1>4, <1>6, <1>7, <1>8, <1>9, UserKeeps

LEMMA KeepsMoveBookmarks == ASSUME IInv, MoveBookmarks PROVE IInv'
<1>1. /\ file' = file /\ folders' = folders /\ job' = job /\ lost' = lost /\ moved' = moved
      /\ alone' = alone /\ edits' = edits /\ removal.pc = "bookmarks"
      /\ removal' = [removal EXCEPT !.pc = "folders"]
  BY DEF MoveBookmarks
<1>2. /\ Rows /\ lost \in [Imports -> SUBSET Urls] /\ edits \in 0..MaxEdits
      /\ removal \in Removals /\ Removal
  BY AllSound DEF Whole
<1>3. removal.at \in moved /\ removal.to \in Ids /\ Ids \subseteq Nat
  BY <1>1, <1>2 DEF Removal, Rows, Ids
<1>4. bookmarks' = [b \in DOMAIN bookmarks |->
       IF bookmarks[b].live /\ bookmarks[b].home = removal.at
       THEN [bookmarks[b] EXCEPT !.home = removal.to] ELSE bookmarks[b]]
  BY DEF MoveBookmarks
<1>5. DOMAIN bookmarks' = DOMAIN bookmarks /\ bookmarks \in Seq(BookmarkRow)
  BY <1>2, <1>4 DEF Rows
<1>6. ASSUME NEW b \in DOMAIN bookmarks
      PROVE  /\ bookmarks'[b] \in BookmarkRow /\ bookmarks'[b].url = bookmarks[b].url
             /\ bookmarks'[b].live = bookmarks[b].live /\ bookmarks'[b].home \in Ids
             /\ bookmarks'[b].home = bookmarks[b].home \/ bookmarks[b].home \in moved
  <2>1. bookmarks[b] \in BookmarkRow /\ bookmarks[b].home \in Ids
    BY <1>2 DEF Rows
  <2>2. CASE bookmarks[b].live /\ bookmarks[b].home = removal.at
    <3>1. bookmarks'[b] = [bookmarks[b] EXCEPT !.home = removal.to]
      BY <1>4, <2>2
    <3> QED BY <1>3, <2>1, <2>2, <3>1 DEF BookmarkRow
  <2>3. CASE ~(bookmarks[b].live /\ bookmarks[b].home = removal.at)
    <3>1. bookmarks'[b] = bookmarks[b]
      BY <1>4, <2>3
    <3> QED BY <2>1, <3>1
  <2> QED BY <2>2, <2>3
<1>7. bookmarks' \in Seq(BookmarkRow)
  <2>1. Len(bookmarks) \in Nat /\ DOMAIN bookmarks' = 1..Len(bookmarks)
    BY <1>5
  <2>2. bookmarks' = [b \in 1..Len(bookmarks) |-> bookmarks'[b]]
    BY <1>4, <2>1, <1>5
  <2> QED BY <1>5, <1>6, <2>1, <2>2
<1>8. \A b \in DOMAIN bookmarks' : bookmarks'[b].home \in Ids
  BY <1>5, <1>6
<1>9. Rows' /\ FoldersStay
  BY <1>1, <1>2, <1>7, <1>8, SameRows
<1>10. (\A k \in Imports : BookmarksStay(k)) /\ HomesStay
  BY <1>1, <1>5, <1>6 DEF BookmarksStay, HomesStay
<1>11. \A b \in DOMAIN bookmarks : bookmarks'[b].live => bookmarks[b].live
  BY <1>6
<1>12. removal' \in Removals' /\ Removal'
  BY <1>1, <1>2, <1>3 DEF Removals, Removal, Ids
<1> QED BY <1>1, <1>2, <1>5, <1>9, <1>10, <1>11, <1>12, UserKeeps

LEMMA KeepsMoveFolders == ASSUME IInv, MoveFolders PROVE IInv'
<1>1. PICK kids : kids = {f \in Ids : folders[f].live /\ folders[f].parent = removal.at}
  OBVIOUS
<1>2. /\ file' = file /\ bookmarks' = bookmarks /\ job' = job /\ lost' = lost /\ moved' = moved \cup kids
      /\ alone' = alone /\ edits' = edits /\ removal.pc = "folders"
      /\ removal' = [removal EXCEPT !.pc = "folder"]
  BY <1>1 DEF MoveFolders
<1>3. folders' = [f \in Ids |-> IF f \in kids THEN [folders[f] EXCEPT !.parent = removal.to] ELSE folders[f]]
  BY <1>1 DEF MoveFolders
<1>4. /\ Rows /\ lost \in [Imports -> SUBSET Urls] /\ edits \in 0..MaxEdits
      /\ removal \in Removals /\ Removal
  BY AllSound DEF Whole
<1>5. removal.at \in moved /\ removal.to \in Ids /\ Ids \subseteq Nat /\ kids \subseteq Ids
  BY <1>1, <1>2, <1>4 DEF Removal, Rows, Ids
<1>6. Ids' = Ids
  BY <1>3 DEF Ids
<1>7. ASSUME NEW f \in Ids
      PROVE  /\ folders'[f] \in FolderRow /\ folders'[f].parent \in {Root} \cup Ids
             /\ folders'[f].parent < f \/ f \in moved'
             /\ f \notin moved' => folders'[f] = folders[f]
  <2>1. /\ folders[f] \in FolderRow /\ folders[f].parent \in {Root} \cup Ids
        /\ folders[f].parent < f \/ f \in moved
    BY <1>4 DEF Rows, Ids
  <2>2. CASE f \in kids
    <3>1. folders'[f] = [folders[f] EXCEPT !.parent = removal.to]
      BY <1>3, <2>2
    <3>2. f \in moved' /\ removal.to \in Nat
      BY <1>2, <1>5, <2>2
    <3> QED BY <1>5, <2>1, <3>1, <3>2 DEF FolderRow
  <2>3. CASE f \notin kids
    <3>1. folders'[f] = folders[f]
      BY <1>3, <2>3
    <3> QED BY <1>2, <2>1, <3>1
  <2> QED BY <2>2, <2>3
<1>8. folders' \in Seq(FolderRow)
  <2>1. Len(folders) \in Nat /\ Ids = 1..Len(folders)
    BY <1>4 DEF Rows, Ids
  <2>2. folders' = [f \in 1..Len(folders) |-> folders'[f]]
    BY <1>3, <2>1
  <2> QED BY <1>7, <2>1, <2>2
<1>9. Rows'
  BY <1>2, <1>4, <1>5, <1>6, <1>7, <1>8 DEF Rows
<1>10. FoldersStay
  BY <1>2, <1>6, <1>7 DEF FoldersStay
<1>11. (\A k \in Imports : BookmarksStay(k)) /\ HomesStay
  BY <1>2 DEF BookmarksStay, HomesStay
<1>12. removal' \in Removals' /\ Removal'
  BY <1>2, <1>4, <1>5, <1>6 DEF Removals, Removal
<1> QED BY <1>2, <1>4, <1>9, <1>10, <1>11, <1>12, UserKeeps

LEMMA KeepsRemoveFolder == ASSUME IInv, RemoveFolder PROVE IInv'
<1>1. /\ file' = file /\ bookmarks' = bookmarks /\ job' = job /\ lost' = lost /\ moved' = moved
      /\ alone' = alone /\ edits' = edits /\ removal.pc = "folder" /\ removal' = NoRemoval
      /\ folders' = [folders EXCEPT ![removal.at].live = FALSE]
  BY DEF RemoveFolder
<1>2. /\ Rows /\ lost \in [Imports -> SUBSET Urls] /\ edits \in 0..MaxEdits
      /\ removal \in Removals /\ Removal
  BY AllSound DEF Whole
<1>3. PICK g, row : g = removal.at /\ row = [folders[g] EXCEPT !.live = FALSE]
  OBVIOUS
<1>4. g \in moved /\ g \in Ids /\ folders[g] \in FolderRow /\ folders \in Seq(FolderRow)
  BY <1>1, <1>2, <1>3 DEF Removal, Rows, Ids
<1>5. row \in FolderRow /\ row.parent = folders[g].parent
  BY <1>3, <1>4 DEF FolderRow
<1>6. folders' = [folders EXCEPT ![g] = row]
  BY <1>1, <1>3
<1>7. /\ folders' \in Seq(FolderRow) /\ Ids' = Ids /\ folders'[g] = row
      /\ \A f \in Ids : f # g => folders'[f] = folders[f]
  BY <1>4, <1>5, <1>6 DEF Ids
<1>8. \A f \in Ids : folders'[f].parent = folders[f].parent
  BY <1>5, <1>7
<1>9. Rows'
  BY <1>1, <1>2, <1>7, <1>8 DEF Rows
<1>10. FoldersStay
  BY <1>1, <1>4, <1>7 DEF FoldersStay
<1>11. (\A k \in Imports : BookmarksStay(k)) /\ HomesStay
  BY <1>1 DEF BookmarksStay, HomesStay
<1>12. removal' \in Removals' /\ Removal'
  BY <1>1 DEF Removals, Removal, NoRemoval
<1> QED BY <1>1, <1>2, <1>9, <1>10, <1>11, <1>12, UserKeeps

-----------------------------------------------------------------------------
\* The invariant

LEMMA InitIInv == Init => IInv
<1> SUFFICES ASSUME Init PROVE IInv
  OBVIOUS
<1>1. PICK l \in Libraries : folders = l.folders /\ bookmarks = l.bookmarks
  BY DEF Init
<1>2. /\ file \in Files /\ job = [i \in Imports |-> NoJob] /\ removal = NoRemoval
      /\ edits = 0 /\ lost = [i \in Imports |-> {}] /\ moved = {} /\ alone = Imports
  BY DEF Init
<1>3. /\ folders \in Seq(FolderRow) /\ folders # <<>> /\ bookmarks \in Seq(BookmarkRow)
      /\ \A f \in DOMAIN folders : folders[f].parent < f
      /\ \A b \in DOMAIN bookmarks : bookmarks[b].home \in DOMAIN folders
  BY <1>1, LibrariesAssumption DEF IsLibrary
<1>4. Ids = 1..Len(folders) /\ Len(folders) \in Nat \ {0} /\ Inbox \in Ids
  BY <1>3 DEF Ids, Inbox
<1>5. ASSUME NEW f \in Ids PROVE folders[f].parent \in {Root} \cup Ids
  <2>0. folders[f] \in FolderRow
    BY <1>3, <1>4, <1>5
  <2>1. folders[f].parent \in Nat
    BY <2>0 DEF FolderRow
  <2> QED BY <1>3, <1>4, <1>5, <2>1 DEF Root
<1>6. Rows
  BY <1>2, <1>3, <1>4, <1>5 DEF Rows, Ids
<1>7. Removal /\ removal \in Removals /\ edits \in 0..MaxEdits
  BY <1>2, EditsAssumption DEF Removal, Removals, NoRemoval
<1>8. /\ NoJob \in Job /\ NoJob.pc = "idle" /\ NoJob.n = 0
      /\ (\A e \in Exports : NoJob.ids[e] = 0) /\ \A q \in Paths : NoJob.cache[q] = 0
  BY DEF NoJob, Job
<1>9. Good(NoJob)
  <2>1. Placed(NoJob)
    BY <1>2, <1>8, FileFacts DEF Placed, Running
  <2>2. file.exports \subseteq Exports
    BY <1>2, FileFacts
  <2> QED BY <1>8, <2>1, <2>2 DEF Good, IdsOK, CacheOK
<1>10. Stands(NoJob)
  <2>1. file.exports \subseteq Exports
    BY <1>2, FileFacts
  <2> QED BY <1>8, <2>1 DEF Stands, Points, TreeOf, PathsOf
<1>11. \A i \in Imports : Sound(i, NoJob)
  BY <1>2, <1>8, <1>9, <1>10, FileFacts DEF Sound, Works, Undisturbed, Running
<1>12. job \in [Imports -> Job] /\ \A i \in Imports : job[i] = NoJob
  BY <1>2, <1>8
<1>13. \A i \in Imports : Sound(i, job[i])
  BY <1>11, <1>12
<1>14. lost \in [Imports -> SUBSET Urls] /\ alone \subseteq Imports
  BY <1>2
<1> QED BY <1>2, <1>4, <1>6, <1>7, <1>12, <1>13, <1>14, AllSound DEF Whole

LEMMA KeepsImportStep ==
  ASSUME IInv, NEW i \in Imports, ImportStep(i)
  PROVE  IInv' /\ (i \in alone' => Steady(i, job[i])')
<1>1. CASE StartImport(i)
  BY <1>1, KeepsStart
<1>2. CASE InsertExported(i) \/ InsertRest(i)
  BY <1>2, KeepsById
<1>3. CASE FindFolder(i)
  BY <1>3, KeepsFind
<1>4. CASE InsertFolder(i)
  BY <1>4, KeepsInsertFolder
<1>5. CASE FindNoFolder(i) \/ CheckFolder(i) \/ ImportFails(i)
  BY <1>5, KeepsLook
<1>6. CASE LookUp(i)
  BY <1>6, KeepsLookUp
<1>7. CASE UpdateBookmark(i)
  BY <1>7, KeepsUpdate
<1>8. CASE InsertBookmark(i)
  BY <1>8, KeepsInsertBookmark
<1> QED BY <1>1, <1>2, <1>3, <1>4, <1>5, <1>6, <1>7, <1>8 DEF ImportStep

LEMMA StepIInv == IInv /\ [Next]_vars => IInv'
<1> SUFFICES ASSUME IInv, [Next]_vars PROVE IInv'
  OBVIOUS
<1>1. ASSUME NEW i \in Imports, ImportStep(i) PROVE IInv'
  BY <1>1, KeepsImportStep
<1>2. CASE UserStep
  BY <1>2, KeepsDeleteBookmark, KeepsDeleteFolder, KeepsMoveBookmarks, KeepsMoveFolders, KeepsRemoveFolder
     DEF UserStep
<1>3. CASE UNCHANGED vars
  <2>1. /\ file' = file /\ folders' = folders /\ bookmarks' = bookmarks /\ job' = job /\ removal' = removal
        /\ edits' = edits /\ lost' = lost /\ moved' = moved /\ alone' = alone
    BY <1>3 DEF vars, edited
  <2>2. /\ Rows /\ lost \in [Imports -> SUBSET Urls] /\ edits \in 0..MaxEdits
        /\ removal \in Removals /\ Removal
    BY AllSound DEF Whole
  <2>3. Rows' /\ FoldersStay
    BY <2>1, <2>2, SameRows DEF Rows
  <2>4. removal' \in Removals' /\ Removal'
    BY <2>1, <2>2 DEF Removals, Removal, Ids
  <2>5. (\A k \in Imports : BookmarksStay(k)) /\ HomesStay
    BY <2>1 DEF BookmarksStay, HomesStay
  <2> QED BY <2>1, <2>2, <2>3, <2>4, <2>5, UserKeeps
<1> QED BY <1>1, <1>2, <1>3 DEF Next

LEMMA AlwaysIInv == Spec => []IInv
BY InitIInv, StepIInv, PTL DEF Spec

\* Ids point at rows, in every step of every import.
THEOREM TypeCorrect == Spec => []TypeOK
<1>1. IInv => TypeOK
  BY DEF IInv
<1> QED BY <1>1, AlwaysIInv, PTL

\* Whatever order the folders of a file come in and whatever is missing or circular,
\* the folders an import works with form the tree that its file names, also when
\* folders in different places have the same name (ensureFoldersByIdentity, ensureFolderPath).
THEOREM FoldersCorrect == Spec => []FoldersTrue
<1>1. IInv => FoldersTrue
  <2> SUFFICES ASSUME IInv PROVE FoldersTrue
    OBVIOUS
  <2>1. \A i \in Imports : TreeOf(job[i]) /\ PathsOf(job[i]) /\ Points(job[i])
    BY DEF IInv, Stands
  <2>2. file.exports \subseteq Exports /\ TypeOK
    BY FileFacts DEF IInv, TypeOK
  <2>3. IdentityTree
    BY <2>1, <2>2 DEF IdentityTree, TreeOf
  <2>4. PathTrue
    BY <2>1, <2>2 DEF PathTrue, PathsOf
  <2> QED BY <2>3, <2>4 DEF FoldersTrue
<1> QED BY <1>1, AlwaysIInv, PTL

\* An import that has gone through its file.
AtEnd ==
  \A i \in Imports : job[i].pc = "ok" =>
    \A u \in UrlsOf \ lost[i] :
      IsLive(u) /\ (Steady(i, job[i]) /\ job[i].strategy = "merge" => Lands(i, u))

LEMMA EndOfFile == IInv => AtEnd
<1> SUFFICES ASSUME IInv, NEW i \in Imports, job[i].pc = "ok", NEW u \in UrlsOf \ lost[i]
             PROVE  IsLive(u) /\ (Steady(i, job[i]) /\ job[i].strategy = "merge" => Lands(i, u))
  BY DEF AtEnd
<1>1. PICK j : j = job[i]
  OBVIOUS
<1>2. Good(j) /\ Works(i, j) /\ file \in Files /\ j \in Job
  BY <1>1 DEF IInv, TypeOK, Good
<1>3. j.n = Len(file.items) + 1 /\ Len(file.items) \in Nat
  BY <1>1, <1>2, FileFacts DEF Good, Placed
<1>4. PICK S : S = {n \in 1..Len(file.items) : file.items[n].url = u}
  OBVIOUS
<1>5. S # {} /\ S \subseteq 1..Len(file.items)
  BY <1>4 DEF UrlsOf
<1>6. PICK m : m = Max(S)
  OBVIOUS
<1>7. m \in S /\ \A y \in S : m >= y
  BY <1>3, <1>5, <1>6, GreatestOne
<1>8. m \in 1..Len(file.items) /\ UrlAt(m) = u /\ m < j.n /\ m # 0
  BY <1>3, <1>4, <1>7 DEF UrlAt
<1>9. IsLive(u)
  BY <1>2, <1>8 DEF Works
<1>10. ASSUME Steady(i, j), j.strategy = "merge" PROVE Lands(i, u)
  <2>1. LastSoFar(j, m)
    <3> SUFFICES ASSUME NEW l \in m+1..j.n-1, UrlAt(l) = u PROVE FALSE
      BY <1>8 DEF LastSoFar
    <3>1. l \in 1..Len(file.items)
      BY <1>3, <1>8
    <3>2. l \in S
      BY <1>4, <3>1 DEF UrlAt
    <3> QED BY <1>7, <1>8, <3>1, <3>2
  <2>2. SpotAt(j, m) \in moved \/ HitsIn(u, SpotAt(j, m)) # {}
    BY <1>8, <1>10, <2>1 DEF Steady, Landed
  <2>3. PICK k : k = [j EXCEPT !.n = LastOf(u)]
    OBVIOUS
  <2>4. LastOf(u) = m
    BY <1>4, <1>6 DEF LastOf
  <2>5. k \in Job /\ k.n = m /\ k.ids = j.ids /\ k.cache = j.cache /\ k.n # 0
    <3>1. k = [j EXCEPT !.n = m] /\ m \in Nat
      BY <1>8, <2>3, <2>4
    <3>2. k \in Job
      BY <1>2, <3>1 DEF Job
    <3>3. k.n = m /\ k.ids = j.ids /\ k.cache = j.cache
      BY <1>2, <3>1 DEF Job
    <3> QED BY <1>8, <3>2, <3>3
  <2>6. Target(k) = SpotAt(k, k.n)
    BY <1>2, <2>5, ItemFacts
  <2>7. Target(k) = SpotAt(j, m)
    BY <2>5, <2>6 DEF SpotAt
  <2>8. Target(k) = Target([job[i] EXCEPT !.n = LastOf(u)])
    BY <1>1, <2>3
  <2> QED BY <2>2, <2>7, <2>8 DEF Lands
<1> QED BY <1>1, <1>9, <1>10

LEMMA NextEnd == IInv' => AtEnd'
BY EndOfFile, PTL

\* Only the import itself moves on.
LEMMA OwnStep ==
  ASSUME IInv, [Next]_vars, NEW i \in Imports, job'[i] # job[i]
  PROVE  ImportStep(i)
<1>1. job \in [Imports -> Job]
  BY DEF IInv, TypeOK
<1>2. ASSUME NEW k \in Imports, ImportStep(k) PROVE \E r : job' = [job EXCEPT ![k] = r]
  <2>1. CASE StartImport(k)
    BY <2>1 DEF StartImport
  <2>2. CASE InsertExported(k)
    BY <2>2 DEF InsertExported
  <2>3. CASE InsertRest(k)
    BY <2>3 DEF InsertRest
  <2>4. CASE FindFolder(k)
    BY <2>4 DEF FindFolder
  <2>5. CASE FindNoFolder(k)
    BY <2>5 DEF FindNoFolder
  <2>6. CASE InsertFolder(k)
    BY <2>6 DEF InsertFolder
  <2>7. CASE CheckFolder(k)
    BY <2>7 DEF CheckFolder
  <2>8. CASE LookUp(k)
    BY <2>8 DEF LookUp
  <2>9. CASE UpdateBookmark(k)
    BY <2>9 DEF UpdateBookmark
  <2>10. CASE InsertBookmark(k)
    BY <2>10 DEF InsertBookmark
  <2>11. CASE ImportFails(k)
    BY <2>11 DEF ImportFails
  <2> QED BY <1>2, <2>1, <2>2, <2>3, <2>4, <2>5, <2>6, <2>7, <2>8, <2>9, <2>10, <2>11 DEF ImportStep
<1>3. ~UserStep /\ ~UNCHANGED vars
  BY DEF UserStep, DeleteBookmark, DeleteFolder, MoveBookmarks, MoveFolders, RemoveFolder, vars
<1>4. PICK k \in Imports : ImportStep(k)
  BY <1>3 DEF Next
<1>5. k = i
  BY <1>1, <1>2, <1>4
<1> QED BY <1>4, <1>5

\* An import that reports success has left every URL of its file live, but for those the
\* user deleted meanwhile; and a merge that was alone has put each where the file says.
THEOREM ArrivesCorrect == Spec => Arrives
<1> DEFINE Step ==
      \A i \in Imports : Ends(i) =>
        (\A u \in UrlsOf \ lost[i] :
           IsLive(u) /\ (i \in alone /\ job[i].strategy = "merge" => Lands(i, u)))'
<1>1. IInv /\ [Next]_vars => Step
  <2> SUFFICES ASSUME IInv, [Next]_vars, NEW i \in Imports, Ends(i)
               PROVE  (\A u \in UrlsOf \ lost[i] :
                         IsLive(u) /\ (i \in alone /\ job[i].strategy = "merge" => Lands(i, u)))'
    BY Zenon
  <2>1. ImportStep(i) /\ job'[i].pc = "ok"
    BY OwnStep DEF Ends
  <2>2. IInv' /\ (i \in alone' => Steady(i, job[i])')
    BY <2>1, KeepsImportStep
  <2>3. AtEnd'
    BY <2>2, NextEnd
  <2> QED BY <2>1, <2>2, <2>3 DEF AtEnd
<1>2. IInv /\ [Next]_vars => [Step]_vars
  BY <1>1
<1>3. Arrives <=> [][Step]_vars
  BY DEF Arrives
<1> QED BY <1>2, <1>3, AlwaysIInv, PTL DEF Spec

\* What changes the bookmarks while an import goes on: its own INSERT or its own UPDATE.
LEMMA BookmarksOf ==
  ASSUME NEW i, ImportStep(i)
  PROVE  InsertBookmark(i) \/ UpdateBookmark(i) \/ bookmarks' = bookmarks
BY DEF ImportStep, StartImport, InsertExported, InsertRest, FindFolder, FindNoFolder, InsertFolder,
       CheckFolder, LookUp, ImportFails

\* An INSERT of an import that is alone comes next to no live duplicate.
LEMMA InsertsNew ==
  ASSUME IInv, NEW i \in alone, InsertBookmark(i)
  PROVE  /\ ~IsLive(file.items[job[i].n].url)
         /\ bookmarks' = Append(bookmarks,
              [url |-> file.items[job[i].n].url, home |-> Target(job[i]), live |-> TRUE])
         /\ job[i].n \in 1..Len(file.items)
<1>1. PICK j : j = job[i]
  OBVIOUS
<1>2. j.pc = "insert" /\ i \in Imports
  BY <1>1 DEF InsertBookmark, IInv, TypeOK
<1>3. Good(j) /\ Undisturbed(i, j) /\ file \in Files
  BY <1>1, <1>2 DEF IInv, TypeOK
<1>4. Hits(UrlAt(j.n)) = {}
  BY <1>2, <1>3 DEF Undisturbed, Steady, Running
<1>5. AtItem(j)
  BY <1>2, <1>3, ItemAt
<1> QED BY <1>1, <1>4, <1>5 DEF InsertBookmark, IsLive, Hits, UrlAt, AtItem

\* The way down to the folder of a path, by the cache.
LEMMA WayDown ==
  ASSUME TypeOK, NEW j, Stands(j), moved = {}, NEW q \in Paths, Cached(j.cache, q)
  PROVE  j.cache[q] \in At(q)
<1>1. q \in Seq(STRING) /\ Len(q) \in Nat \ {0} /\ SubSeq(q, 1, Len(q)) = q
  BY PathFacts
<1>2. PICK below : below = [k \in 1..Len(q) |-> j.cache[SubSeq(q, 1, k)]]
  OBVIOUS
<1>3. ASSUME NEW k \in 1..Len(q)
      PROVE  /\ below[k] \in Ids /\ folders[below[k]].live /\ folders[below[k]].name = q[k]
             /\ folders[below[k]].parent = IF k = 1 THEN Root ELSE below[k - 1]
  <2>1. PICK p : p = SubSeq(q, 1, k)
    OBVIOUS
  <2>2. /\ p \in Paths /\ Len(p) = k /\ p[k] = q[k]
        /\ \A m \in 1..k : SubSeq(p, 1, m) = SubSeq(q, 1, m)
    BY <1>1, <2>1, PathFacts, Beginnings
  <2>3. j.cache[p] # 0 /\ below[k] = j.cache[p]
    BY <1>2, <2>1 DEF Cached
  <2>4. j.cache[p] \in Ids
    BY <2>2, <2>3 DEF Stands, Points
  <2>5. /\ folders[j.cache[p]].live /\ folders[j.cache[p]].name = NameOf(p)
        /\ folders[j.cache[p]].parent = ParentIn(j, p)
    BY <2>2, <2>3 DEF Stands, PathsOf
  <2>6. NameOf(p) = q[k]
    BY <2>2 DEF NameOf
  <2>7. ParentIn(j, p) = IF k = 1 THEN Root ELSE below[k - 1]
    <3>1. CASE k = 1
      BY <2>2, <3>1 DEF ParentIn
    <3>2. CASE k # 1
      <4>1. k - 1 \in 1..k /\ k - 1 \in 1..Len(q)
        BY <1>1, <3>2
      <4>2. SubSeq(p, 1, k - 1) = SubSeq(q, 1, k - 1)
        BY <2>2, <4>1
      <4>3. below[k - 1] = j.cache[SubSeq(q, 1, k - 1)]
        BY <1>2, <4>1
      <4>4. ParentIn(j, p) = j.cache[SubSeq(p, 1, k - 1)]
        BY <2>2, <3>2 DEF ParentIn
      <4> QED BY <3>2, <4>2, <4>3, <4>4
    <3> QED BY <3>1, <3>2
  <2> QED BY <2>3, <2>4, <2>5, <2>6, <2>7
<1>4. below \in [1..Len(q) -> Ids]
  BY <1>2, <1>3
<1>5. below[Len(q)] = j.cache[q]
  <2>1. Len(q) \in 1..Len(q)
    BY <1>1
  <2>2. below[Len(q)] = j.cache[SubSeq(q, 1, Len(q))]
    BY <1>2, <2>1
  <2> QED BY <1>1, <2>2, Zenon
<1>6. j.cache[q] \in Ids
  BY <1>1, <1>3, <1>5
<1> QED BY <1>3, <1>4, <1>5, <1>6 DEF At

\* What is already where the file says stays there.
LEMMA StaysHome ==
  ASSUME IInv, NEW i \in alone, ImportStep(i), moved = {}, file.exports = {},
         \A n \in 1..Len(file.items) : AtHome(file.items[n])
  PROVE  bookmarks' = bookmarks
<1>0. PICK j : j = job[i]
  OBVIOUS
<1>1. i \in Imports /\ TypeOK /\ file \in Files
  BY DEF IInv, TypeOK
<1>2. Good(j) /\ Stands(j) /\ Works(i, j) /\ Undisturbed(i, j)
  BY <1>0, <1>1 DEF IInv
<1>3. ASSUME j.pc \in {"insert", "update"}
      PROVE  AtItem(j) /\ HitsIn(UrlAt(j.n), SpotAt(j, j.n)) # {}
  <2>1. AtItem(j)
    BY <1>1, <1>2, <1>3, ItemAt
  <2>2. PICK item : item = file.items[j.n]
    OBVIOUS
  <2>3. AtHome(item) /\ item.path \in Paths \cup {<<>>} /\ item.export \in Exports \cup {"none"}
    BY <1>1, <2>1, <2>2, FileFacts DEF AtItem
  <2>4. ~Made(j.ids, item)
    BY <1>2, <2>3 DEF Made, Good, IdsOK
  <2>5. Cached(j.cache, item.path)
    BY <2>1, <2>2, <2>4 DEF AtItem, Settled
  <2>6. HitsIn(item.url, Spot(j.ids, j.cache, item)) # {}
    <3>1. CASE item.path = <<>>
      BY <2>3, <2>4, <3>1 DEF AtHome, Spot
    <3>2. CASE item.path # <<>>
      <4>1. PICK q \in Paths : q = item.path
        BY <2>3, <3>2
      <4>2. j.cache[q] \in At(q)
        BY <1>1, <1>2, <2>5, <4>1, WayDown
      <4>3. \A f \in At(q) : HitsIn(item.url, f) # {}
        BY <2>3, <3>2, <4>1 DEF AtHome
      <4> QED BY <2>4, <3>2, <4>1, <4>2, <4>3 DEF Spot
    <3> QED BY <3>1, <3>2
  <2> QED BY <2>1, <2>2, <2>6 DEF UrlAt, SpotAt
<1>4. CASE InsertBookmark(i)
  <2>1. j.pc = "insert" /\ ~IsLive(file.items[j.n].url)
    BY <1>0, <1>4, InsertsNew DEF InsertBookmark
  <2> QED BY <1>3, <2>1 DEF HitsIn, Hits, IsLive, UrlAt
<1>5. CASE UpdateBookmark(i)
  <2>1. j.pc = "update" /\ bookmarks' = [bookmarks EXCEPT ![j.hit].home = Target(j)]
    BY <1>0, <1>5 DEF UpdateBookmark, Merged
  <2>2. bookmarks[j.hit].home = Target(j) /\ j.hit \in DOMAIN bookmarks
    BY <1>2, <1>3, <2>1 DEF Undisturbed, Steady, Running, AtItem, Works
  <2>3. bookmarks[j.hit] \in BookmarkRow /\ bookmarks \in Seq(BookmarkRow)
    BY <1>1, <2>2 DEF TypeOK
  <2>4. [bookmarks[j.hit] EXCEPT !.home = Target(j)] = bookmarks[j.hit]
    BY <2>2, <2>3 DEF BookmarkRow
  <2> QED BY <2>1, <2>2, <2>3, <2>4
<1> QED BY <1>4, <1>5, BookmarksOf

\* An import that nobody overlaps inserts no second live bookmark, and what a file says that
\* is already so stays as it is: to import an export again changes nothing.
THEOREM RepeatableCorrect == Spec => Repeatable
<1> DEFINE Once ==
      \A i \in alone : Len(bookmarks') > Len(bookmarks) /\ job'[i] # job[i] =>
        ~IsLive(bookmarks'[Len(bookmarks')].url)
<1> DEFINE Home ==
      \A i \in alone :
        /\ job'[i] # job[i] /\ moved = {} /\ file.exports = {}
        /\ \A n \in 1..Len(file.items) : AtHome(file.items[n])
        => UNCHANGED bookmarks
<1>1. IInv /\ [Next]_vars => Once
  <2> SUFFICES ASSUME IInv, [Next]_vars, NEW i \in alone, Len(bookmarks') > Len(bookmarks), job'[i] # job[i]
               PROVE  ~IsLive(bookmarks'[Len(bookmarks')].url)
    OBVIOUS
  <2>1. i \in Imports /\ bookmarks \in Seq(BookmarkRow) /\ Len(bookmarks) \in Nat
    BY DEF IInv, TypeOK
  <2>2. ImportStep(i)
    BY <2>1, OwnStep
  <2>3. bookmarks' # bookmarks
    BY <2>1
  <2>4. ~UpdateBookmark(i)
    <3> SUFFICES ASSUME UpdateBookmark(i) PROVE Len(bookmarks') = Len(bookmarks)
      BY <2>1
    <3>1. PICK s, h : bookmarks' = [bookmarks EXCEPT ![h].home = s]
      BY DEF UpdateBookmark, Merged
    <3> QED BY <2>1, <3>1
  <2>5. InsertBookmark(i)
    BY <2>2, <2>3, <2>4, BookmarksOf
  <2>6. PICK u, s : /\ ~IsLive(u)
                    /\ bookmarks' = Append(bookmarks, [url |-> u, home |-> s, live |-> TRUE])
    BY <2>5, InsertsNew
  <2>7. bookmarks'[Len(bookmarks')].url = u
    BY <2>1, <2>6
  <2> QED BY <2>6, <2>7
<1>2. IInv /\ [Next]_vars => Home
  <2> SUFFICES ASSUME IInv, [Next]_vars, NEW i \in alone, job'[i] # job[i], moved = {}, file.exports = {},
                      \A n \in 1..Len(file.items) : AtHome(file.items[n])
               PROVE  bookmarks' = bookmarks
    OBVIOUS
  <2>1. i \in Imports
    BY DEF IInv, TypeOK
  <2> QED BY <2>1, OwnStep, StaysHome
<1>3. IInv /\ [Next]_vars => [Once]_vars /\ [Home]_vars
  BY <1>1, <1>2
<1>4. Repeatable <=> [][Once]_vars /\ [][Home]_vars
  BY DEF Repeatable, NoTwins, RoundTrip
<1> QED BY <1>3, <1>4, AlwaysIInv, PTL DEF Spec
=============================================================================
