------------------------------ MODULE Ebooks ------------------------------
(***************************************************************************)
(* pkg/downloaderstore/ebooks.go: the statements on the table of ebooks,   *)
(* whose key is title and author.  An upsert finds an ebook whatever the   *)
(* case of its key, UNIQUE compares the key as it is.                      *)
(***************************************************************************)
EXTENDS MediaTable

\* A slip: only the column is lowered.
FindEbookHalfLowered(c, n) == {r \in c.rows : MediaLower[r.name] = n}

FindEbook(c, n) == {r \in c.rows : MediaLower[r.name] = MediaLower[n]}

\* updateEbookTx: everything but the key.
OverwriteEbook(c, r, meta) ==
  MediaChange("ebooks", c, r, [r EXCEPT !.meta = meta, !.links = {}, !.wanted = {}, !.stale = FALSE])

UpsertEbook(c, n, meta) ==
  IF FindEbook(c, n) = {} THEN MediaInsert("ebooks", c, n, meta)
  ELSE {OverwriteEbook(c, r, meta) : r \in FindEbook(c, n)}

DeleteEbook(c, r) == MediaRemove("ebooks", c, r)

\* What UpdateEbookMeta writes back; the key may be edited.
MergedEbook(r, name, meta) ==
  [name |-> IF name = "" THEN r.name ELSE name, meta |-> IF meta = "" THEN r.meta ELSE meta]

SearchEbooks(c, word) == Matched(c, word)

SearchEbooksPaged(c, word) == Matched(c, word)

SearchAllEbooks(c) == c.rows

GetEbookByID(c, id) == {r \in c.rows : r.id = id}

SearchEbooksByAuthor(c, author) == {r \in c.rows : SqlLower[AuthorOf[r.name]] = GoLower[author]}

SearchEbooksByGenre(c, genre) == {r \in c.rows : SqlLower[GenreOf[r.meta]] = GoLower[genre]}

GetEbookAuthors(c) == {AuthorOf[r.name] : r \in c.rows}

GetEbookGenres(c) == {GenreOf[r.meta] : r \in c.rows}
=============================================================================
