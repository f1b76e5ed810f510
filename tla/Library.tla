------------------------------- MODULE Library --------------------------------
(***************************************************************************)
(* The library as the requests that read it see it: the rows of folders    *)
(* and bookmarks, and the walk from a folder to the top.                   *)
(*                                                                         *)
(* Texts matter where they decide: folder names may be equal, and a URL    *)
(* may change when it is written as an HREF.                               *)
(***************************************************************************)
EXTENDS Integers, FiniteSets

CONSTANTS
  Folders, Bookmarks, Root, Inbox,
  Names,      \* names of folders
  Places      \* values of sort_order

ASSUME LibraryAssumption == Inbox \in Folders /\ Root \notin Folders /\ Places \subseteq Int
\* Ids are uuids.
ASSUME IdsAssumption == Folders \cap Bookmarks = {}

Visibilities == {"private", "unlisted", "public"}
FolderRow == [up : Folders \cup {Root}, vis : Visibilities, live : BOOLEAN, name : Names]
Spellings == {"canonical", "loose", "script"}
BookmarkRow == [in : Folders, vis : Visibilities, archived : BOOLEAN, live : BOOLEAN,
                place : Places, url : Spellings]

\* A folder and those above it, as far as they were read: fs maps the folders that were
\* read to their rows.
Chain(fs, f) ==
  LET walk[n \in Nat] ==
        IF n = 0 THEN {f} \cap DOMAIN fs
        ELSE LET seen == walk[n - 1] IN seen \cup ({fs[g].up : g \in seen} \cap DOMAIN fs)
  IN walk[Cardinality(DOMAIN fs)]
=============================================================================
