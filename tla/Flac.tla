------------------------------- MODULE Flac -------------------------------
(***************************************************************************)
(* pkg/downloaderstore/flac.go: the statements on the table of albums,     *)
(* whose key is artist and album.  An upsert finds an album whatever the   *)
(* case of its key, UNIQUE compares the key as it is.                      *)
(***************************************************************************)
EXTENDS MediaTable

\* A slip: the lookup is as exact as the key.
FindFlacExactly(c, n) == {r \in c.rows : r.name = n}

FindFlac(c, n) == {r \in c.rows : MediaLower[r.name] = MediaLower[n]}

\* updateFlacTx: everything but the key.
OverwriteFlac(c, r, meta) ==
  MediaChange("flac", c, r, [r EXCEPT !.meta = meta, !.links = {}, !.wanted = {}, !.stale = FALSE])

UpsertFlac(c, n, meta) ==
  IF FindFlac(c, n) = {} THEN MediaInsert("flac", c, n, meta)
  ELSE {OverwriteFlac(c, r, meta) : r \in FindFlac(c, n)}

DeleteFlac(c, r) == MediaRemove("flac", c, r)

\* What UpdateFlacMeta writes back; the key may be edited.
MergedFlac(r, name, meta) ==
  [name |-> IF name = "" THEN r.name ELSE name, meta |-> IF meta = "" THEN r.meta ELSE meta]

SearchFlac(c, word) == Matched(c, word)

SearchFlacPaged(c, word) == Matched(c, word)

SearchAllFlac(c) == c.rows

GetFlacByID(c, id) == {r \in c.rows : r.id = id}

\* A slip: the artist is looked up as it was typed.
SearchFlacByArtistAsTyped(c, artist) == {r \in c.rows : SqlLower[AuthorOf[r.name]] = artist}

SearchFlacByArtist(c, artist) == {r \in c.rows : SqlLower[AuthorOf[r.name]] = GoLower[artist]}

\* The genre of an album is one, and compared as a whole.
SearchFlacByGenre(c, genre) == {r \in c.rows : SqlLower[GenreOf[r.meta]] = GoLower[genre]}

GetFlacArtists(c) == {AuthorOf[r.name] : r \in c.rows}

GetFlacGenres(c) == {GenreOf[r.meta] : r \in c.rows}
=============================================================================
