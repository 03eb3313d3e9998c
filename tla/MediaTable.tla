---------------------------- MODULE MediaTable ----------------------------
(***************************************************************************)
(* What movies.go, ebooks.go and flac.go of pkg/downloaderstore share: a   *)
(* SQLite table with a natural key and the full-text index that triggers   *)
(* keep beside it.  A table is the record of both and of the AUTOINCREMENT *)
(* counter.  A row has                                                     *)
(*   name   the key: the TMDB id, or title and author, or artist and album *)
(*   meta   the other columns that describe it                             *)
(*   links  the places among url_1 .. url_3 edited since it was last       *)
(*          written by an upsert                                           *)
(* and, as history, wanted and stale (see LinkEditsKept of MediaCatalog).  *)
(***************************************************************************)
EXTENDS Integers, FiniteSets, Sequences

CONSTANTS MediaNames,
          MediaLower,    \* MediaLower[n]: LOWER of the columns of the key
          Metas,         \* what an administrator may type; "" is nothing
          TmdbMeta,      \* TmdbMeta[n]: what TMDB says of movie n
          AuthorOf,      \* AuthorOf[n]: the author or artist in the key
          GenreOf,       \* GenreOf[m]: the genre, none of them part of another
          GoLower,       \* GoLower[l]: strings.ToLower, of all letters
          SqlLower,      \* SqlLower[l]: LOWER of SQLite, of ASCII letters
          Wild           \* genres with a character that LIKE reads as a pattern

FetchedMetas == {TmdbMeta[n] : n \in MediaNames}
Labels == {AuthorOf[n] : n \in MediaNames} \cup {GenreOf[m] : m \in Metas \cup FetchedMetas}

ASSUME MediaAssumption ==
  /\ MediaLower \in [MediaNames -> MediaNames]
  /\ "" \notin MediaNames /\ "" \notin Metas
  /\ DOMAIN TmdbMeta = MediaNames /\ FetchedMetas \cap Metas = {}
  /\ \A n, k \in MediaNames : TmdbMeta[n] = TmdbMeta[k] => n = k
  /\ Labels \subseteq DOMAIN GoLower /\ Labels \subseteq DOMAIN SqlLower

Kinds == {"movies", "ebooks", "flac"}

EmptyTable == [rows |-> {}, fts |-> {}, nextId |-> 1]

\* What the index holds of a row.
FtsOf(kind, r) ==
  [rowid |-> r.id, text |-> IF kind = "movies" THEN <<r.meta>> ELSE <<r.name, r.meta>>]

\* A slip: a row added after a deletion gets the id again.
LeastRowId(c) == CHOOSE i \in 1 .. c.nextId :
                   /\ \A r \in c.rows : r.id # i
                   /\ \A j \in 1 .. i - 1 : \E r \in c.rows : r.id = j

NewRowId(c) == c.nextId

\* A row with its trigger, unless UNIQUE refuses the key.
MediaInsert(kind, c, n, meta) ==
  LET r == [id |-> NewRowId(c), name |-> n, meta |-> meta, links |-> {},
            wanted |-> {}, stale |-> FALSE]
  IN IF \E s \in c.rows : s.name = n THEN {}
     ELSE {[rows |-> c.rows \cup {r}, fts |-> c.fts \cup {FtsOf(kind, r)},
            nextId |-> c.nextId + 1]}

\* A slip: the trigger adds the new text and leaves the old.
MediaChangeUnindexed(kind, c, r, s) ==
  [c EXCEPT !.rows = (@ \ {r}) \cup {s}, !.fts = @ \cup {FtsOf(kind, s)}]

MediaChange(kind, c, r, s) ==
  [c EXCEPT !.rows = (@ \ {r}) \cup {s},
            !.fts = (@ \ {FtsOf(kind, r)}) \cup {FtsOf(kind, s)}]

MediaRemove(kind, c, r) ==
  [c EXCEPT !.rows = @ \ {r}, !.fts = @ \ {FtsOf(kind, r)}]

\* UNIQUE on the key.
Clashes(c, r, n) == \E s \in c.rows \ {r} : s.name = n

\* The rows to which the index leads from a word, which is a name or a meta
\* as a whole: a word of the one is no word of another.
Matched(c, word) ==
  {r \in c.rows : \E e \in c.fts : e.rowid = r.id /\ word \in {e.text[i] : i \in DOMAIN e.text}}
=============================================================================
