------------------------------ MODULE Movies ------------------------------
(***************************************************************************)
(* pkg/downloaderstore/movies.go: the statements on the table of movies,   *)
(* whose key is the TMDB id.  c is the table as a statement sees it.       *)
(***************************************************************************)
EXTENDS MediaTable

FindMovie(c, n) == {r \in c.rows : r.name = n}

\* updateMovieTx: everything but the key.
OverwriteMovie(c, r, meta) ==
  MediaChange("movies", c, r, [r EXCEPT !.meta = meta, !.links = {}, !.wanted = {}, !.stale = FALSE])

UpsertMovie(c, n, meta) ==
  IF FindMovie(c, n) = {} THEN MediaInsert("movies", c, n, meta)
  ELSE {OverwriteMovie(c, r, meta) : r \in FindMovie(c, n)}

DeleteMovie(c, r) == MediaRemove("movies", c, r)

\* What UpdateMovieMeta writes back: fields that were not sent as they were
\* read.
MergedMovie(r, meta) == [name |-> r.name, meta |-> IF meta = "" THEN r.meta ELSE meta]

SearchMovies(c, word) == Matched(c, word)

SearchAllMovies(c) == c.rows

GetMovieByTmdbID(c, n) == {r \in c.rows : r.name = n}

GetMovieByID(c, id) == {r \in c.rows : r.id = id}

\* sanitizeLike puts a backslash before a wild character, which LIKE without
\* ESCAPE takes for a character of the genre: nothing matches.
SearchMoviesByGenre(c, genre) ==
  IF genre \in Wild THEN {} ELSE {r \in c.rows : SqlLower[GenreOf[r.meta]] = GoLower[genre]}

\* A year stands in the meta that has it.
SearchMoviesByYear(c, year) == {r \in c.rows : r.meta = year}

GetMovieGenres(c) == {GenreOf[r.meta] : r \in c.rows}

GetMovieYears(c) == {r.meta : r \in c.rows}
=============================================================================
