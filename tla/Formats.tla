------------------------------- MODULE Formats -------------------------------
(***************************************************************************)
(* The files of the two runtimes: what an export writes, from the rows it  *)
(* has read, and what the parser of the import makes of such a file.       *)
(*                                                                         *)
(* A file is what its bookmarks, folders and metadata say; quoting and     *)
(* layout are left out.                                                    *)
(***************************************************************************)
EXTENDS Library, Sequences

Formats == {"json", "csv", "html"}

NoId == Root

\* The names of a folder and those above it; the Inbox and what was not read end it.
RECURSIVE PathOf(_, _, _)
PathOf(fs, f, seen) ==
  IF f \notin DOMAIN fs \/ f = Inbox \/ f \in seen THEN <<>>
  ELSE Append(PathOf(fs, fs[f].up, seen \cup {f}), fs[f].name)
Path(fs, f) == PathOf(fs, f, {})

\* The walk of the HTML export goes from the top folders down.
Reached(fs, f) == f \in DOMAIN fs /\ \E g \in Chain(fs, f) : fs[g].up = Root

-----------------------------------------------------------------------------
\* Export

\* safeHref: a URL that is no http(s) becomes "#", the others are normalized.
Href(u) == CASE u = "script" -> "#" [] OTHER -> "canonical"
\* The server escapes an http(s) URL and leaves it as it is.
ServerHref(u) == IF u = "script" THEN "#" ELSE u

Item(b, url, export, path) == [bookmark |-> b, url |-> url, export |-> export, path |-> path]
NativeItem(fs, bs, b) == Item(b, bs[b].url, bs[b].in, Path(fs, bs[b].in))

FolderMeta(fs) == [f \in DOMAIN fs \ {Inbox} |-> [up |-> fs[f].up, vis |-> fs[f].vis]]
NoMeta == [items |-> {}, folders |-> <<>>]

\* meta stands for the whole native export that the Worker puts into CSV and HTML, heads
\* are the folders an HTML file has headings for.
File(format, items, meta, folders, heads) ==
  [format |-> format, items |-> items, hasMeta |-> meta # NoMeta, meta |-> meta,
   folders |-> folders, heads |-> heads]

ExportJson(fs, bs) ==
  File("json", {NativeItem(fs, bs, b) : b \in DOMAIN bs}, NoMeta, FolderMeta(fs), {})

ExportCsv(fs, bs) ==
  File("csv", {Item(b, bs[b].url, NoId, Path(fs, bs[b].in)) : b \in DOMAIN bs},
       [items |-> {NativeItem(fs, bs, b) : b \in DOMAIN bs}, folders |-> FolderMeta(fs)], <<>>, {})

Heads(fs) == {f \in DOMAIN fs \ {Inbox} : Reached(fs, f)}
Walked(fs, bs) == {b \in DOMAIN bs : Reached(fs, bs[b].in)}

ExportHtml(fs, bs) ==
  File("html", {Item(b, Href(bs[b].url), NoId, Path(fs, bs[b].in)) : b \in Walked(fs, bs)},
       [items |-> {NativeItem(fs, bs, b) : b \in Walked(fs, bs)}, folders |-> FolderMeta(fs)], <<>>, Heads(fs))

\* The server's files have no metadata.
ServerJson(fs, bs) == ExportJson(fs, bs)
ServerCsv(fs, bs) ==
  File("csv", {Item(b, bs[b].url, NoId, Path(fs, bs[b].in)) : b \in DOMAIN bs}, NoMeta, <<>>, {})
ServerHtml(fs, bs) ==
  File("html", {Item(b, ServerHref(bs[b].url), NoId, Path(fs, bs[b].in)) : b \in Walked(fs, bs)},
       NoMeta, <<>>, Heads(fs))

-----------------------------------------------------------------------------
\* Import: the parsers

Rejected == [ok |-> FALSE, items |-> {}, folders |-> <<>>]
Accepted(items, folders) == [ok |-> TRUE, items |-> items, folders |-> folders]

ParseJson(file) == Accepted(file.items, file.folders)

\* The items of the metadata are used, if they are those of the file.
Paired(file) ==
  /\ Cardinality(file.items) = Cardinality(file.meta.items)
  /\ \A i \in file.items : \E m \in file.meta.items : m.bookmark = i.bookmark /\ m.url = i.url
ParsePortable(file) ==
  IF Paired(file) THEN Accepted(file.meta.items, file.meta.folders) ELSE Rejected

\* CSV and HTML have the visibility of a folder in them, under its path.
ParseCsv(file) ==
  IF file.hasMeta THEN ParsePortable(file)
  ELSE IF file.items = {} THEN Rejected ELSE Accepted(file.items, <<>>)

\* An anchor without a URL is an error, and one error rejects the file.
ParseHtml(file) ==
  IF \E i \in file.items : i.url = "#" THEN Rejected
  ELSE IF file.hasMeta THEN ParsePortable(file)
  ELSE IF file.items = {} /\ file.heads = {} THEN Rejected ELSE Accepted(file.items, <<>>)

\* The server knows no metadata: in a CSV it takes that line for the header, in HTML
\* it passes it over.
ServerParse(file) ==
  IF (file.format = "csv" /\ file.hasMeta) \/ \E i \in file.items : i.url = "#" THEN Rejected
  ELSE Accepted(file.items, file.folders)

Parse(file) ==
  CASE file.format = "json" -> ParseJson(file)
    [] file.format = "csv"  -> ParseCsv(file)
    [] OTHER                -> ParseHtml(file)

\* Where the import puts a bookmark: by the id of its folder, else by its path, else
\* into the Inbox, whose path is empty.
PlaceOf_Path(parsed, i) == [id |-> NoId, path |-> i.path]
PlaceOf(parsed, i) ==
  IF i.export \in DOMAIN parsed.folders THEN [id |-> i.export, path |-> i.path]
  ELSE [id |-> NoId, path |-> i.path]
=============================================================================
