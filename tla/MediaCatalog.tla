--------------------------- MODULE MediaCatalog ---------------------------
(***************************************************************************)
(* The movies, ebooks and albums and the handlers over them, in            *)
(* internal/services/downloader.  Each kind has a database of its own and  *)
(* nothing in common with the others but its code, so mkind says which one *)
(* is looked at.  One connection writes: a bulk request holds it for its   *)
(* whole transaction, while an edit reads a row and writes it back in two  *)
(* statements between which others may write.  Visitors read what is       *)
(* committed: a count, then the rows, then the keys for their links.       *)
(***************************************************************************)
EXTENDS Movies, Ebooks, Flac, BulkRequest

CONSTANTS Editors, MediaVisitors,
          MaxMediaOps,    \* bound on requests, bulk requests by their entries
          MaxMediaBulk,   \* bound on the entries of a bulk request
          MediaDbMayFail

ASSUME MediaBounds ==
  {MaxMediaOps, MaxMediaBulk} \subseteq Nat /\ MediaDbMayFail \in BOOLEAN

VARIABLES
  mkind,         \* the kind of this catalog
  media,         \* its table, as committed
  mediaTx,       \* the open transaction of a bulk request
  mediaEdit,     \* mediaEdit[a]: the edit that administrator a has begun
  mediaVisit,    \* mediaVisit[v]: where the request of visitor v is
  mediaReport,   \* the answer to the last bulk request
  mediaRenamed,  \* history: an edit changed a key
  mediaRefused,  \* history: UNIQUE refused an insertion
  mediaOps       \* counter for the bound

mediaVars == <<mkind, media, mediaTx, mediaEdit, mediaVisit, mediaReport,
               mediaRenamed, mediaRefused, mediaOps>>

MediaIdle == [of |-> "nothing"]

MediaInit ==
  /\ mkind \in Kinds
  /\ media = EmptyTable
  /\ mediaTx = [open |-> FALSE]
  /\ mediaEdit = [a \in Editors |-> MediaIdle]
  /\ mediaVisit = [v \in MediaVisitors |-> MediaIdle]
  /\ mediaReport = NoReport
  /\ mediaRenamed = FALSE /\ mediaRefused = FALSE
  /\ mediaOps = 0

\* What may be sent for a new row: for a movie without a title, what TMDB has.
MetasFor(n) == IF mkind = "movies" THEN Metas \cup {TmdbMeta[n]} ELSE Metas

NewRequest == ~ mediaTx.open /\ mediaOps < MaxMediaOps /\ mediaOps' = mediaOps + 1

-----------------------------------------------------------------------------
(* Adding and deleting; rows are the tables an upsert may leave.           *)

\* History: a link edit that has read a row which then is written or gone
\* writes what it read.
Outdated(touched) ==
  [a \in Editors |-> IF mediaEdit[a].of = "links" /\ mediaEdit[a].id \in touched
                     THEN [mediaEdit[a] EXCEPT !.outdated = TRUE] ELSE mediaEdit[a]]

Touched(c, d) == {r.id : r \in (c.rows \ d.rows)}

AddMedia(tables) ==
  /\ NewRequest
  /\ \/ /\ media' \in tables
        /\ mediaEdit' = Outdated(Touched(media, media'))
        /\ UNCHANGED mediaRefused
     \/ /\ tables = {} \/ MediaDbMayFail
        /\ mediaRefused' = (mediaRefused \/ tables = {})
        /\ UNCHANGED <<media, mediaEdit>>
  /\ UNCHANGED <<mkind, mediaTx, mediaVisit, mediaReport, mediaRenamed>>

MoviesAdminAdd(n, meta) == mkind = "movies" /\ AddMedia(UpsertMovie(media, n, meta))
EbooksAdminAdd(n, meta) == mkind = "ebooks" /\ AddMedia(UpsertEbook(media, n, meta))
FlacAdminAdd(n, meta)   == mkind = "flac" /\ AddMedia(UpsertFlac(media, n, meta))

DeleteMedia(table) ==
  /\ NewRequest
  /\ media' = table
  /\ mediaEdit' = Outdated(Touched(media, table))
  /\ UNCHANGED <<mkind, mediaTx, mediaVisit, mediaReport, mediaRenamed, mediaRefused>>

MoviesAdminDelete(r) == mkind = "movies" /\ DeleteMedia(DeleteMovie(media, r))
EbooksAdminDelete(r) == mkind = "ebooks" /\ DeleteMedia(DeleteEbook(media, r))
FlacAdminDelete(r)   == mkind = "flac" /\ DeleteMedia(DeleteFlac(media, r))

-----------------------------------------------------------------------------
(* Bulk requests: valid says which entries pass the validation and, for a  *)
(* movie, get their metadata.                                              *)

BeginBulk(valid) ==
  /\ ~ mediaTx.open
  /\ mediaOps + Len(valid) <= MaxMediaOps /\ mediaOps' = mediaOps + Len(valid)
  /\ mediaTx' = [open |-> TRUE, table |-> media, valid |-> valid, next |-> 1,
                 errors |-> {}, applied |-> {}]
  /\ UNCHANGED <<mkind, media, mediaEdit, mediaVisit, mediaReport, mediaRenamed, mediaRefused>>

MoviesAdminBulkAdd(valid) == mkind = "movies" /\ BeginBulk(valid)
EbooksAdminBulkAdd(valid) == mkind = "ebooks" /\ BeginBulk(valid)
FlacAdminBulkAdd(valid)   == mkind = "flac" /\ BeginBulk(valid)

\* The next entry; one that fails is skipped.
BulkMedia(tables) ==
  /\ mediaTx.next <= Len(Indexed(mediaTx.valid))
  /\ \/ /\ \E c \in tables :
             mediaTx' = [mediaTx EXCEPT !.table = c, !.next = @ + 1,
                                        !.applied = @ \cup {Indexed(mediaTx.valid)[mediaTx.next]}]
        /\ UNCHANGED mediaRefused
     \/ /\ tables = {} \/ MediaDbMayFail
        /\ mediaTx' = [mediaTx EXCEPT !.next = @ + 1, !.errors = @ \cup {mediaTx.next}]
        /\ mediaRefused' = (mediaRefused \/ tables = {})
  /\ UNCHANGED <<mkind, media, mediaEdit, mediaVisit, mediaReport, mediaRenamed, mediaOps>>

BulkUpsertMovies(n, meta) ==
  mkind = "movies" /\ mediaTx.open /\ BulkMedia(UpsertMovie(mediaTx.table, n, meta))

BulkUpsertEbooks(n, meta) ==
  mkind = "ebooks" /\ mediaTx.open /\ BulkMedia(UpsertEbook(mediaTx.table, n, meta))

BulkUpsertFlac(n, meta) ==
  mkind = "flac" /\ mediaTx.open /\ BulkMedia(UpsertFlac(mediaTx.table, n, meta))

CommitBulk ==
  /\ mediaTx.open /\ mediaTx.next > Len(Indexed(mediaTx.valid))
  /\ media' = mediaTx.table /\ mediaTx' = [open |-> FALSE]
  /\ mediaReport' = Report(mediaTx.valid, mediaTx.applied, mediaTx.errors)
  /\ mediaEdit' = Outdated(Touched(media, mediaTx.table))
  /\ UNCHANGED <<mkind, mediaVisit, mediaRenamed, mediaRefused, mediaOps>>

\* The transaction could not begin or cannot be committed, or the server
\* stops and nothing is answered.
RollBackBulk ==
  /\ mediaTx.open /\ MediaDbMayFail
  /\ mediaTx' = [open |-> FALSE]
  /\ \/ /\ mediaTx.next \in {1, Len(Indexed(mediaTx.valid)) + 1}
        /\ mediaReport' = Refusal(mediaTx.valid)
     \/ mediaReport' = NoReport
  /\ UNCHANGED <<mkind, media, mediaEdit, mediaVisit, mediaRenamed, mediaRefused, mediaOps>>

-----------------------------------------------------------------------------
(* Edits.                                                                  *)

BeginEdit(a, edit) ==
  /\ ~ mediaTx.open
  /\ mediaEdit' = [mediaEdit EXCEPT ![a] = edit]
  /\ UNCHANGED <<mkind, media, mediaTx, mediaVisit, mediaReport, mediaRenamed, mediaRefused>>

\* The first statement of an UpdateXMeta, merged being what it will write.
ReadMeta(a, r, merged) ==
  /\ mediaEdit[a] = MediaIdle /\ NewRequest
  /\ BeginEdit(a, [of |-> "meta", id |-> r.id, merged |-> merged])

\* A slip: the second statement writes whole rows, like that of UpdateApp.
WriteMetaAsRead(a) ==
  /\ mediaEdit[a].of = "meta" /\ ~ mediaTx.open
  /\ \E r \in media.rows :
       /\ r.id = mediaEdit[a].id
       /\ media' = MediaChange(mkind, media, r,
            [r EXCEPT !.meta = mediaEdit[a].merged.meta, !.links = {}])
  /\ mediaEdit' = [mediaEdit EXCEPT ![a] = MediaIdle]
  /\ UNCHANGED <<mkind, mediaTx, mediaVisit, mediaReport, mediaRenamed, mediaRefused, mediaOps>>

\* Its second statement: a row that is gone is no error, a key that another
\* row has is refused.
WriteMeta(a) ==
  /\ mediaEdit[a].of = "meta" /\ ~ mediaTx.open
  /\ LET edit == mediaEdit[a]
         rows == {r \in media.rows : r.id = edit.id /\ ~ Clashes(media, r, edit.merged.name)}
         Written(r) == [r EXCEPT !.name = edit.merged.name, !.meta = edit.merged.meta]
     IN \/ /\ rows = {}
           /\ UNCHANGED <<media, mediaRenamed>>
        \/ \E r \in rows :
             /\ media' = MediaChange(mkind, media, r, Written(r))
             /\ mediaRenamed' = (mediaRenamed \/ r.name # edit.merged.name)
  /\ mediaEdit' = [mediaEdit EXCEPT ![a] = MediaIdle]
  /\ UNCHANGED <<mkind, mediaTx, mediaVisit, mediaReport, mediaRefused, mediaOps>>

\* What is sent may be blank and then changes nothing.
UpdateMovieMeta(a) ==
  \/ \E r \in media.rows, meta \in Metas \cup {""} : ReadMeta(a, r, MergedMovie(r, meta))
  \/ WriteMeta(a)

UpdateEbookMeta(a) ==
  \/ \E r \in media.rows, name \in MediaNames \cup {""}, meta \in Metas \cup {""} :
        ReadMeta(a, r, MergedEbook(r, name, meta))
  \/ WriteMeta(a)

UpdateFlacMeta(a) ==
  \/ \E r \in media.rows, name \in MediaNames \cup {""}, meta \in Metas \cup {""} :
        ReadMeta(a, r, MergedFlac(r, name, meta))
  \/ WriteMeta(a)

MoviesAdminEdit(a) == mkind = "movies" /\ UpdateMovieMeta(a)
EbooksAdminEdit(a) == mkind = "ebooks" /\ UpdateEbookMeta(a)
FlacAdminEdit(a)   == mkind = "flac" /\ UpdateFlacMeta(a)

\* AdminRefreshTmdb: the TMDB id of a row is read, the metadata fetched, and
\* then UpdateMovieMeta called for the id of the row.
MoviesAdminRefreshTmdb(a) ==
  /\ mkind = "movies"
  /\ \/ /\ mediaEdit[a] = MediaIdle /\ mediaOps < MaxMediaOps /\ mediaOps' = mediaOps + 1
        /\ \E r \in media.rows :
             mediaEdit' = [mediaEdit EXCEPT ![a] = [of |-> "refresh", id |-> r.id, name |-> r.name]]
        /\ UNCHANGED <<mkind, media, mediaTx, mediaVisit, mediaReport, mediaRenamed, mediaRefused>>
     \/ /\ mediaEdit[a].of = "refresh" /\ UNCHANGED mediaOps
        /\ \/ \E r \in GetMovieByID(media, mediaEdit[a].id) :
                BeginEdit(a, [of |-> "meta", id |-> r.id,
                              merged |-> MergedMovie(r, TmdbMeta[mediaEdit[a].name])])
           \/ /\ GetMovieByID(media, mediaEdit[a].id) = {} \/ MediaDbMayFail  \* or TMDB
              /\ BeginEdit(a, MediaIdle)

\* The two statements of an UpdateXLinks; sent are the places it names.
ReadLinks(a, r, sent) ==
  /\ mediaEdit[a] = MediaIdle /\ NewRequest
  /\ BeginEdit(a, [of |-> "links", id |-> r.id, sent |-> sent, links |-> r.links \cup sent,
                   outdated |-> FALSE])

WriteLinks(a) ==
  /\ mediaEdit[a].of = "links" /\ ~ mediaTx.open
  /\ LET edit == mediaEdit[a]
         others == [Outdated({edit.id}) EXCEPT ![a] = MediaIdle]
         Written(r) == [r EXCEPT !.links = edit.links, !.wanted = @ \cup edit.sent,
                                 !.stale = @ \/ edit.outdated]
     IN /\ \/ /\ \A r \in media.rows : r.id # edit.id
              /\ UNCHANGED media
           \/ \E r \in media.rows :
                /\ r.id = edit.id
                /\ media' = MediaChange(mkind, media, r, Written(r))
        /\ mediaEdit' = others
  /\ UNCHANGED <<mkind, mediaTx, mediaVisit, mediaReport, mediaRenamed, mediaRefused, mediaOps>>

UpdateLinks(a) ==
  \/ \E r \in media.rows, sent \in (SUBSET {1, 2}) \ {{}} : ReadLinks(a, r, sent)
  \/ WriteLinks(a)

MoviesAdminEditLinks(a) == mkind = "movies" /\ UpdateLinks(a)
EbooksAdminEditLinks(a) == mkind = "ebooks" /\ UpdateLinks(a)
FlacAdminEditLinks(a)   == mkind = "flac" /\ UpdateLinks(a)

-----------------------------------------------------------------------------
(* Requests that read.  A query is a way to search, by, and what for.      *)
(* Page and limit are left out: every answer has all its rows.             *)

MovieRows(q, c) ==
  CASE q.by \in {"text", "find"} -> SearchMovies(c, q.key)
    [] q.by = "genre" -> SearchMoviesByGenre(c, q.key)
    [] q.by = "year"  -> SearchMoviesByYear(c, q.key)
    [] q.by = "tmdb"  -> GetMovieByTmdbID(c, q.key)
    [] q.by = "id"    -> GetMovieByID(c, q.key)
    [] q.by = "all"   -> SearchAllMovies(c)

EbookRows(q, c) ==
  CASE q.by = "text"   -> SearchEbooksPaged(c, q.key)
    [] q.by = "find"   -> SearchEbooks(c, q.key)
    [] q.by = "genre"  -> SearchEbooksByGenre(c, q.key)
    [] q.by = "author" -> SearchEbooksByAuthor(c, q.key)
    [] q.by = "id"     -> GetEbookByID(c, q.key)
    [] q.by = "all"    -> SearchAllEbooks(c)

FlacRows(q, c) ==
  CASE q.by = "text"   -> SearchFlacPaged(c, q.key)
    [] q.by = "find"   -> SearchFlac(c, q.key)
    [] q.by = "genre"  -> SearchFlacByGenre(c, q.key)
    [] q.by = "author" -> SearchFlacByArtist(c, q.key)
    [] q.by = "id"     -> GetFlacByID(c, q.key)
    [] q.by = "all"    -> SearchAllFlac(c)

RowsOf(q, c) ==
  CASE mkind = "movies" -> MovieRows(q, c)
    [] mkind = "ebooks" -> EbookRows(q, c)
    [] mkind = "flac"   -> FlacRows(q, c)

\* History: the rows that the query is about, whatever its statements say.
Meant(q, r) ==
  CASE q.by = "genre"  -> GenreOf[r.meta] = q.key
    [] q.by = "author" -> AuthorOf[r.name] = q.key
    [] q.by = "tmdb"   -> r.name = q.key
    [] q.by = "id"     -> r.id = q.key
    [] q.by = "year"   -> r.meta = q.key
    [] q.by = "all"    -> TRUE
    [] OTHER -> q.key = r.meta \/ (mkind # "movies" /\ q.key = r.name)

\* The count; requests for one row have none.
Ask(v, q) ==
  /\ mediaVisit[v] = MediaIdle
  /\ mediaOps < MaxMediaOps /\ mediaOps' = mediaOps + 1
  /\ mediaVisit' = [mediaVisit EXCEPT ![v] =
       [of |-> "counted", q |-> q, none |-> RowsOf(q, media) = {},
        seen |-> {r \in media.rows : Meant(q, r)}]]
  /\ UNCHANGED <<mkind, media, mediaTx, mediaEdit, mediaReport, mediaRenamed, mediaRefused>>

Words == MediaNames \cup Metas \cup FetchedMetas

MoviesSearch(v) ==
  /\ mkind = "movies"
  /\ \/ \E word \in Words : Ask(v, [by |-> "text", key |-> word])
     \/ \E n \in MediaNames : Ask(v, [by |-> "tmdb", key |-> n])
EbooksSearch(v) == mkind = "ebooks" /\ \E word \in Words : Ask(v, [by |-> "text", key |-> word])
FlacSearch(v)   == mkind = "flac" /\ \E word \in Words : Ask(v, [by |-> "text", key |-> word])

MoviesBrowseByYear(v) ==
  mkind = "movies" /\ \E year \in GetMovieYears(media) : Ask(v, [by |-> "year", key |-> year])
EbooksBrowseByAuthor(v) ==
  mkind = "ebooks" /\ \E a \in GetEbookAuthors(media) : Ask(v, [by |-> "author", key |-> a])
FlacBrowseByArtist(v) ==
  mkind = "flac" /\ \E a \in GetFlacArtists(media) : Ask(v, [by |-> "author", key |-> a])

MoviesBrowseByGenre(v) ==
  mkind = "movies" /\ \E g \in GetMovieGenres(media) : Ask(v, [by |-> "genre", key |-> g])
EbooksBrowseByGenre(v) ==
  mkind = "ebooks" /\ \E g \in GetEbookGenres(media) : Ask(v, [by |-> "genre", key |-> g])
FlacBrowseByGenre(v) ==
  mkind = "flac" /\ \E g \in GetFlacGenres(media) : Ask(v, [by |-> "genre", key |-> g])

\* AdminGet and AdminList.
AdminRead(v) ==
  \/ \E r \in media.rows : Ask(v, [by |-> "id", key |-> r.id])
  \/ \E word \in Words : Ask(v, [by |-> "find", key |-> word])
  \/ Ask(v, [by |-> "all", key |-> ""])
MoviesAdminRead(v) == mkind = "movies" /\ AdminRead(v)
EbooksAdminRead(v) == mkind = "ebooks" /\ AdminRead(v)
FlacAdminRead(v)   == mkind = "flac" /\ AdminRead(v)

Browsed == {"genre", "author", "year"}
Administered == {"id", "find", "all"}

\* Whether an answer is "not found"; an administrator's list may be empty.
MovieMissing(q, none, rows, items) ==
  CASE q.by \in Browsed -> none
    [] q.by \in {"text", "tmdb", "id"} -> rows = {}
    [] OTHER -> FALSE
EbookMissing(q, none, rows, items) ==
  CASE q.by \in Browsed -> none
    [] q.by = "text" -> items = {}
    [] q.by = "id" -> rows = {}
    [] OTHER -> FALSE
FlacMissing(q, none, rows, items) ==
  CASE q.by \in Browsed -> none
    [] q.by = "text" -> items = {}
    [] q.by = "id" -> rows = {}
    [] OTHER -> FALSE

Missing(q, none, rows, items) ==
  CASE mkind = "movies" -> MovieMissing(q, none, rows, items)
    [] mkind = "ebooks" -> EbookMissing(q, none, rows, items)
    [] mkind = "flac"   -> FlacMissing(q, none, rows, items)

\* Items of visitors have a key in place of url_1, and are left out if there
\* is none: keyed are the rows whose link got one.
MovieItems(rows, keyed) == {r \in rows : r.id \in keyed}
EbookItems(rows, keyed) == {r \in rows : r.id \in keyed}
FlacItems(rows, keyed)  == {r \in rows : r.id \in keyed}

Items(q, rows, keyed) ==
  CASE q.by \in Administered -> rows
    [] mkind = "movies" -> MovieItems(rows, keyed)
    [] mkind = "ebooks" -> EbookItems(rows, keyed)
    [] mkind = "flac"   -> FlacItems(rows, keyed)

\* The rows, the keys for their links and the answer.
Answer(v) ==
  /\ mediaVisit[v].of = "counted"
  /\ \E keyed \in {{}, {r.id : r \in media.rows}} :
       LET q == mediaVisit[v].q
           rows == RowsOf(q, media)
           items == Items(q, rows, keyed)
       IN mediaVisit' = [mediaVisit EXCEPT ![v] =
            [of |-> "answered", q |-> q, items |-> items,
             missing |-> Missing(q, mediaVisit[v].none, rows, items),
             keyed |-> keyed, steady |-> mediaVisit[v].seen \cap media.rows]]
  /\ UNCHANGED <<mkind, media, mediaTx, mediaEdit, mediaReport, mediaRenamed, mediaRefused,
                 mediaOps>>

Forget(v) ==
  /\ mediaVisit[v].of = "answered"
  /\ mediaVisit' = [mediaVisit EXCEPT ![v] = MediaIdle]
  /\ UNCHANGED <<mkind, media, mediaTx, mediaEdit, mediaReport, mediaRenamed, mediaRefused,
                 mediaOps>>

-----------------------------------------------------------------------------
MediaWrites ==
  \/ \E n \in MediaNames : \E meta \in MetasFor(n) :
        \/ MoviesAdminAdd(n, meta) \/ EbooksAdminAdd(n, meta) \/ FlacAdminAdd(n, meta)
        \/ BulkUpsertMovies(n, meta) \/ BulkUpsertEbooks(n, meta) \/ BulkUpsertFlac(n, meta)
  \/ \E size \in 1 .. MaxMediaBulk : \E valid \in [1 .. size -> BOOLEAN] :
        MoviesAdminBulkAdd(valid) \/ EbooksAdminBulkAdd(valid) \/ FlacAdminBulkAdd(valid)
  \/ CommitBulk \/ RollBackBulk
  \/ \E r \in media.rows : MoviesAdminDelete(r) \/ EbooksAdminDelete(r) \/ FlacAdminDelete(r)

MediaEdits(a) ==
  \/ MoviesAdminEdit(a) \/ EbooksAdminEdit(a) \/ FlacAdminEdit(a)
  \/ MoviesAdminRefreshTmdb(a)
  \/ MoviesAdminEditLinks(a) \/ EbooksAdminEditLinks(a) \/ FlacAdminEditLinks(a)

MediaVisits(v) ==
  \/ MoviesSearch(v) \/ EbooksSearch(v) \/ FlacSearch(v)
  \/ MoviesBrowseByYear(v) \/ EbooksBrowseByAuthor(v) \/ FlacBrowseByArtist(v)
  \/ MoviesBrowseByGenre(v) \/ EbooksBrowseByGenre(v) \/ FlacBrowseByGenre(v)
  \/ MoviesAdminRead(v) \/ EbooksAdminRead(v) \/ FlacAdminRead(v)
  \/ Answer(v) \/ Forget(v)

MediaNext ==
  \/ MediaWrites
  \/ \E a \in Editors : MediaEdits(a)
  \/ \E v \in MediaVisitors : MediaVisits(v)

MediaSpec == MediaInit /\ [][MediaNext]_mediaVars

-----------------------------------------------------------------------------
MediaRows == [id : Nat, name : MediaNames, meta : Metas \cup FetchedMetas,
              links : SUBSET {1, 2}, wanted : SUBSET {1, 2}, stale : BOOLEAN]

TableOK(c) == c.rows \subseteq MediaRows /\ c.nextId \in Nat

MediaTypeOK ==
  /\ mkind \in Kinds /\ TableOK(media)
  /\ mediaTx.open => TableOK(mediaTx.table)
  /\ \A a \in Editors : mediaEdit[a].of \in {"nothing", "meta", "links", "refresh"}
  /\ \A v \in MediaVisitors : mediaVisit[v].of \in {"nothing", "counted", "answered"}
  /\ mediaRenamed \in BOOLEAN /\ mediaRefused \in BOOLEAN /\ mediaOps \in 0 .. MaxMediaOps

\* Ids and keys tell the rows apart, and the text index holds what they hold
\* now, through edits, deletions and transactions that are rolled back.
IndexFits ==
  /\ \A r, s \in media.rows : r.id = s.id \/ r.name = s.name => r = s
  /\ media.fts = {FtsOf(mkind, r) : r \in media.rows}

\* No two ebooks, and no two albums, have keys that differ in case only
\* unless an edit changed one.
MediaAlikeOnlyByRenaming ==
  mkind # "movies" =>
     \A r, s \in media.rows : MediaLower[r.name] = MediaLower[s.name] => r = s \/ mediaRenamed

\* UNIQUE never refuses what an upsert did not find: the lookup ignores no
\* more than the key does.
UpsertFindsTheKey == ~ mediaRefused

\* Metadata from TMDB is that of the row's own id, however long the fetch
\* took and whatever was deleted and added meanwhile.
TmdbMetaFits ==
  mkind = "movies" =>
     \A r \in media.rows : r.meta \in FetchedMetas => r.meta = TmdbMeta[r.name]

\* A link that an edit has set stays set, and no other comes back, through
\* overlapping edits of the metadata, refreshes and bulk requests, unless
\* something that writes links overlapped the edit.
LinkEditsKept == \A r \in media.rows : r.links = r.wanted \/ r.stale

\* The same of the reports of movies, ebooks and albums.
MediaBulkReported == Truthful(mediaReport)

Plain(label) == GoLower[label] = SqlLower[label] /\ label \notin Wild

\* A row that was there all the time is in the answer, if its link got a
\* key: between count and rows nothing may get lost, unless the two
\* lower-casings differ on the label or it has a wild character.
SteadyRowsAreFound ==
  \A v \in MediaVisitors : mediaVisit[v].of = "answered" =>
     LET visit == mediaVisit[v]
         due == {r \in visit.steady : r.id \in visit.keyed}
     IN \/ visit.q.by \in {"genre", "author"} /\ ~ Plain(visit.q.key)
        \/ due = {}
        \/ due \subseteq visit.items /\ ~ visit.missing

\* The rows of movies, ebooks or albums, their keys and the text index fit
\* each other (pkg/downloaderstore).
MediaFits == MediaTypeOK /\ IndexFits /\ UpsertFindsTheKey /\ MediaAlikeOnlyByRenaming

\* Writes that were prepared from an older state, the edits of the admin and
\* the metadata from TMDB, still fit the row they reach.
MediaEditsFit == TmdbMetaFits /\ LinkEditsKept
=============================================================================
