---------------------------- MODULE MCCatalogs ----------------------------
(***************************************************************************)
(* The catalogs and the links of their answers, for TLC: applications,     *)
(* movies, ebooks and albums, the masked links of a list and the links of  *)
(* a page.  They share neither tables nor keys of Redis, so each is        *)
(* checked with the others at rest: part is the one that moves.            *)
(***************************************************************************)
EXTENDS AppCatalog, MediaCatalog, MaskedLinks, PageLinks, TLC

VARIABLE part

catalogVars == <<appVars, mediaVars, maskVars, pageVars, part>>

CatalogsInit ==
  /\ part \in {"app", "media", "mask", "page"}
  /\ AppInit /\ MediaInit /\ MaskInit /\ PageInit
  \* what does not move need not be of each of its kinds
  /\ part # "media" => mkind = "flac"

AppMoves == part = "app" /\ AppNext /\ UNCHANGED <<part, mediaVars, maskVars, pageVars>>

MediaMoves == part = "media" /\ MediaNext /\ UNCHANGED <<part, appVars, maskVars, pageVars>>

MaskMoves == part = "mask" /\ MaskNext /\ UNCHANGED <<part, appVars, mediaVars, pageVars>>

PageMoves == part = "page" /\ PageNext /\ UNCHANGED <<part, appVars, mediaVars, maskVars>>

CatalogsNext == AppMoves \/ MediaMoves \/ MaskMoves \/ PageMoves

CatalogsSpec == CatalogsInit /\ [][CatalogsNext]_catalogVars

\* The reports of the bulk requests of all catalogs: one that was committed
\* names every entry once, as processed or failed and by its place in the
\* request.  One whose transaction failed names no entry as processed and one that
\* was passed on as failed, though no other, or the handler panics (the
\* AdminBulkAdd handlers).
ReportsAreTrue == BulkReported /\ MediaBulkReported

----------------------------------------------------------------------------
(* The instance. *)

\* Foo and foo differ in case, Foo! in what a slug leaves out.
MCNames == {"Foo", "foo", "Foo!"}
MCLowerOf == [n \in MCNames |-> IF n = "Foo" THEN "foo" ELSE n]
MCSlugOf == [n \in MCNames |-> "foo"]

MCMediaNames == {"Foo", "foo"}
MCMediaLower == [n \in MCMediaNames |-> "foo"]
MCTmdb == [n \in MCMediaNames |-> IF n = "Foo" THEN "tFoo" ELSE "tfoo"]
MCAuthor == [n \in MCMediaNames |-> IF n = "Foo" THEN "Anon" ELSE "anon"]

\* sci_fi holds a character that LIKE takes for any other.
MCGenre ==
  [m \in {"m1"} \cup {MCTmdb[n] : n \in MCMediaNames} |-> IF m = "m1" THEN "drama" ELSE "sci_fi"]
MCLower == [l \in {"Anon", "anon", "drama", "sci_fi"} |-> IF l = "Anon" THEN "anon" ELSE l]

MCBatches == {<<"u1">>, <<"u1", "u2">>}

\* A page with one file and one with two.
MCFiles == [video |-> 1, album |-> 2]
MCSite == [video |-> "vidoy", album |-> "instagram"]

\* Requests differ only in name; the parts share their model values.
CatalogSymmetry == Permutations(Admins)
=============================================================================
