---------------------------- MODULE AppCatalog ----------------------------
(***************************************************************************)
(* pkg/appstore/db.go and the handlers over it: the applications of one    *)
(* platform and their versions, in SQLite.  One connection writes, so a    *)
(* transaction is never interleaved with another writer; others read what  *)
(* is committed, each statement from a state of its own.  An edit reads a  *)
(* row and writes it back in two statements without a transaction.         *)
(*                                                                         *)
(* An application has a name and an image, which stands for the columns    *)
(* that do not identify it.  A slug is <<toSlug(name), n>>: n = 1 is the   *)
(* bare one, n <= MaxSuffix the one with that suffix, and a greater n a    *)
(* suffix from the clock.  born and the sets stripped, refused and so on   *)
(* are history: a number no two applications share, whatever their ids.    *)
(***************************************************************************)
EXTENDS Integers, FiniteSets, FiniteSetsExt, Sequences, BulkRequest

CONSTANTS Names,
          LowerOf,       \* LowerOf[n]: LOWER(n), as one of the names
          SlugOf,        \* SlugOf[n]: toSlug(n)
          Clock,         \* what the clock may show when a suffix is taken from it
          MaxSuffix,     \* the last suffix that is tried (9)
          VersionTexts,
          Images,        \* "" is none
          Admins, Visitors,
          MaxBulk,       \* bound on the entries of a bulk request (200)
          MaxAppOps,     \* bound on requests, bulk requests by their entries
          AppDbMayFail   \* may SQLite refuse a statement

ASSUME AppAssumption ==
  /\ LowerOf \in [Names -> Names]
  /\ MaxSuffix \in Nat \ {0} /\ \A t \in Clock : t \in Nat /\ t > MaxSuffix
  /\ {MaxBulk, MaxAppOps} \subseteq Nat /\ AppDbMayFail \in BOOLEAN

VARIABLES
  catalog,     \* what is committed: apps, versions and the AUTOINCREMENT counters
  tx,          \* the open transaction of a bulk request, or NoTx
  editing,     \* editing[a]: the edit that administrator a has begun
  visitor,     \* visitor[v]: where request v is, with what it has read
  report,      \* the answer to the last bulk request
  renamed,     \* history: an edit changed a name
  stripped,    \* history: applications that lost their last version to a
               \* deletion, or their first one to an error in a bulk request
  refused,     \* history: slugs for which an insertion was refused
  appOps       \* counter for the bound

appVars == <<catalog, tx, editing, visitor, report, renamed, stripped, refused, appOps>>

NoTx == [open |-> FALSE]
NoEdit == [of |-> "nothing"]
Idle == [at |-> "idle"]

AppInit ==
  /\ catalog = [apps |-> {}, versions |-> {}, nextApp |-> 1, nextVersion |-> 1]
  /\ tx = NoTx
  /\ editing = [a \in Admins |-> NoEdit]
  /\ visitor = [v \in Visitors |-> Idle]
  /\ report = NoReport
  /\ renamed = FALSE /\ stripped = {} /\ refused = {}
  /\ appOps = 0

-----------------------------------------------------------------------------
(* Statements; c is the catalog as the statement sees it.                  *)

Taken(c) == {a.slug : a \in c.apps}

VersionsOf(c, app) == {v \in c.versions : v.app = app.id}

HasVersion(c, app, text) == \E v \in VersionsOf(c, app) : v.text = text

FreeSuffixes(c, n) == {i \in 1 .. MaxSuffix : <<SlugOf[n], i>> \notin Taken(c)}

\* A slip: the last suffix is used without asking whether it is taken.
SlugUntested(c, n) ==
  IF FreeSuffixes(c, n) = {} THEN {<<SlugOf[n], MaxSuffix>>}
  ELSE {<<SlugOf[n], Min(FreeSuffixes(c, n))>>}

\* A slip: names are compared as they are written.
NamedExactly(c, n) == {a \in c.apps : a.name = n}

\* A slip: without AUTOINCREMENT an id is used again.
LeastAppId(c) == Min({i \in 1 .. c.nextApp : \A a \in c.apps : a.id # i})

\* A slip: foreign keys are off.
DeletedAlone(c, app) == [c EXCEPT !.apps = @ \ {app}]

\* The slug a new application gets: the bare one, else the first suffix that
\* is free, else the time.
SlugsFor(c, n) ==
  IF FreeSuffixes(c, n) = {} THEN {<<SlugOf[n], t>> : t \in Clock}
  ELSE {<<SlugOf[n], Min(FreeSuffixes(c, n))>>}

\* After renamings there may be several, of which SQLite returns one.
NamedLike(c, n) == {a \in c.apps : LowerOf[a.name] = LowerOf[n]}

NewAppId(c) == c.nextApp

NewApp(c, n, slug, image) ==
  [id |-> NewAppId(c), born |-> c.nextApp, slug |-> slug, name |-> n, image |-> image]

InsertApp(c, app) == [c EXCEPT !.apps = @ \cup {app}, !.nextApp = @ + 1]

\* insertVersionTx.
InsertVersion(c, app, text) ==
  [c EXCEPT !.versions = @ \cup {[id |-> c.nextVersion, app |-> app.id, born |-> app.born,
                                  text |-> text, urls |-> {}]},
            !.nextVersion = @ + 1]

SetImage(c, app, image) ==
  IF image = "" THEN c
  ELSE [c EXCEPT !.apps = (@ \ {app}) \cup {[app EXCEPT !.image = image]}]

\* ON DELETE CASCADE.
Deleted(c, app) == [c EXCEPT !.apps = @ \ {app}, !.versions = @ \ VersionsOf(c, app)]

\* What an entry makes of the catalog: a new application with its version,
\* another version of one that is there, or nothing if it has that version.
Entered(c, n, text, image) ==
  IF NamedLike(c, n) = {}
  THEN {InsertVersion(InsertApp(c, app), app, text) :
          app \in {NewApp(c, n, slug, image) : slug \in SlugsFor(c, n) \ Taken(c)}}
  ELSE {IF HasVersion(c, app, text) THEN c
        ELSE InsertVersion(SetImage(c, app, image), app, text) : app \in NamedLike(c, n)}

\* What its statements may have done when one of them fails.
HalfEntered(c, n, text, image) ==
  {c} \cup (IF NamedLike(c, n) = {}
            THEN {InsertApp(c, NewApp(c, n, slug, image)) : slug \in SlugsFor(c, n) \ Taken(c)}
            ELSE {SetImage(c, app, image) :
                    app \in {b \in NamedLike(c, n) : ~ HasVersion(c, b, text)}})

\* The slugs for which the insertion of a new application is refused.
Refusals(c, n) == IF NamedLike(c, n) = {} THEN SlugsFor(c, n) \cap Taken(c) ELSE {}

-----------------------------------------------------------------------------
(* Faulty variants: slips the code could contain.                          *)

\* Commits although the version could not be inserted.
UpsertHalf(n, text, image) ==
  /\ ~ tx.open /\ appOps < MaxAppOps
  /\ appOps' = appOps + 1
  /\ catalog' \in Entered(catalog, n, text, image) \cup HalfEntered(catalog, n, text, image)
  /\ UNCHANGED <<tx, editing, visitor, report, renamed, stripped, refused>>

-----------------------------------------------------------------------------
\* Upsert, of a valid request: all or nothing.  A question about a slug that
\* fails is taken for a no, and then the insertion fails.
Upsert(n, text, image) ==
  /\ ~ tx.open /\ appOps < MaxAppOps
  /\ appOps' = appOps + 1
  /\ \/ catalog' \in Entered(catalog, n, text, image) /\ UNCHANGED refused
     \/ /\ Refusals(catalog, n) # {} \/ AppDbMayFail
        /\ refused' = refused \cup Refusals(catalog, n)
        /\ UNCHANGED catalog
  /\ UNCHANGED <<tx, editing, visitor, report, renamed, stripped>>

\* BulkUpsert opens its transaction; valid says which entries pass
\* validateEntry.
BulkBegin(valid) ==
  /\ ~ tx.open
  /\ appOps + Len(valid) <= MaxAppOps /\ appOps' = appOps + Len(valid)
  /\ tx' = [open |-> TRUE, catalog |-> catalog, valid |-> valid, next |-> 1,
            errors |-> {}, applied |-> {}, stripped |-> {}, refused |-> {}]
  /\ UNCHANGED <<catalog, editing, visitor, report, renamed, stripped, refused>>

\* The next entry; what failed statements did stays.
BulkEntry(n, text, image) ==
  /\ tx.open /\ tx.next <= Len(Indexed(tx.valid))
  /\ \/ \E c \in Entered(tx.catalog, n, text, image) :
           tx' = [tx EXCEPT !.catalog = c, !.next = @ + 1,
                            !.applied = @ \cup {Indexed(tx.valid)[tx.next]}]
     \/ \E c \in HalfEntered(tx.catalog, n, text, image) :
           /\ AppDbMayFail \/ (Refusals(tx.catalog, n) # {} /\ c = tx.catalog)
           /\ tx' = [tx EXCEPT !.catalog = c, !.next = @ + 1, !.errors = @ \cup {tx.next},
                               !.refused = @ \cup Refusals(tx.catalog, n),
                               !.stripped = @ \cup {a.born : a \in c.apps \ tx.catalog.apps}]
  /\ UNCHANGED <<catalog, editing, visitor, report, renamed, stripped, refused, appOps>>

\* The transaction is committed and the request answered.
BulkCommit ==
  /\ tx.open /\ tx.next > Len(Indexed(tx.valid))
  /\ catalog' = tx.catalog /\ tx' = NoTx
  /\ report' = Report(tx.valid, tx.applied, tx.errors)
  /\ stripped' = stripped \cup tx.stripped /\ refused' = refused \cup tx.refused
  /\ UNCHANGED <<editing, visitor, renamed, appOps>>

\* SQLite rolls back: the transaction could not begin or cannot be committed,
\* or the server stops and nothing is answered.
BulkRollback ==
  /\ tx.open /\ AppDbMayFail
  /\ tx' = NoTx
  /\ \/ tx.next \in {1, Len(Indexed(tx.valid)) + 1} /\ report' = Refusal(tx.valid)
     \/ report' = NoReport
  /\ UNCHANGED <<catalog, editing, visitor, renamed, stripped, refused, appOps>>

\* Delete and DeleteVersion.
DeleteApp(app) ==
  /\ ~ tx.open /\ appOps < MaxAppOps /\ app \in catalog.apps
  /\ appOps' = appOps + 1
  /\ catalog' = Deleted(catalog, app)
  /\ UNCHANGED <<tx, editing, visitor, report, renamed, stripped, refused>>

DeleteVersion(version) ==
  /\ ~ tx.open /\ appOps < MaxAppOps /\ version \in catalog.versions
  /\ appOps' = appOps + 1
  /\ catalog' = [catalog EXCEPT !.versions = @ \ {version}]
  /\ stripped' = IF \E v \in catalog.versions \ {version} : v.app = version.app
                 THEN stripped ELSE stripped \cup {version.born}
  /\ UNCHANGED <<tx, editing, visitor, report, renamed, refused>>

\* A slip: what was not sent is written too.
AsSent(sent, was) == sent

\* What is sent replaces what was there, unless it is empty.
Merged(sent, was) == IF sent = "" THEN was ELSE sent

\* UpdateApp: the row is read by its slug and merged with what was sent.
UpdateAppRead(a, app, name, image) ==
  /\ ~ tx.open /\ appOps < MaxAppOps /\ editing[a] = NoEdit /\ app \in catalog.apps
  /\ appOps' = appOps + 1
  /\ editing' = [editing EXCEPT ![a] =
       [of |-> "app", slug |-> app.slug, sent |-> <<name, image>>,
        name |-> Merged(name, app.name), image |-> Merged(image, app.image)]]
  /\ UNCHANGED <<catalog, tx, visitor, report, renamed, stripped, refused>>

\* The whole row is written; UNIQUE refuses a name that another one has.  No
\* row may be left, or that of another application.
UpdateAppWrite(a) ==
  /\ ~ tx.open /\ editing[a].of = "app"
  /\ LET rows == {app \in catalog.apps : app.slug = editing[a].slug}
         Rewritten(app) == [app EXCEPT !.name = editing[a].name, !.image = editing[a].image]
     IN IF \E app \in catalog.apps \ rows : app.name = editing[a].name
        THEN UNCHANGED <<catalog, renamed>>
        ELSE /\ catalog' = [catalog EXCEPT !.apps = (@ \ rows) \cup {Rewritten(r) : r \in rows}]
             /\ renamed' = (renamed \/ \E r \in rows : r.name # editing[a].name)
  /\ editing' = [editing EXCEPT ![a] = NoEdit]
  /\ UNCHANGED <<tx, visitor, report, stripped, refused, appOps>>

\* UpdateVersion: urls are the places among url_1 and url_2 that were ever
\* edited; sent are those this edit names.
UpdateVersionRead(a, version, sent) ==
  /\ ~ tx.open /\ appOps < MaxAppOps /\ editing[a] = NoEdit /\ version \in catalog.versions
  /\ appOps' = appOps + 1
  /\ editing' = [editing EXCEPT ![a] =
       [of |-> "version", id |-> version.id, sent |-> sent, urls |-> version.urls \cup sent]]
  /\ UNCHANGED <<catalog, tx, visitor, report, renamed, stripped, refused>>

UpdateVersionWrite(a) ==
  /\ ~ tx.open /\ editing[a].of = "version"
  /\ catalog' = [catalog EXCEPT !.versions =
       {IF v.id = editing[a].id THEN [v EXCEPT !.urls = editing[a].urls] ELSE v : v \in @}]
  /\ editing' = [editing EXCEPT ![a] = NoEdit]
  /\ UNCHANGED <<tx, visitor, report, renamed, stripped, refused, appOps>>

-----------------------------------------------------------------------------
(* Requests that read: applications by one statement, their versions by    *)
(* the next.  A count taken before decides only whether there is an answer.*)

ReadApps(v, apps) ==
  /\ visitor[v] = Idle
  /\ appOps < MaxAppOps /\ appOps' = appOps + 1
  /\ visitor' = [visitor EXCEPT ![v] = [at |-> "listed", apps |-> apps]]
  /\ UNCHANGED <<catalog, tx, editing, report, renamed, stripped, refused>>

Search(v, base) == ReadApps(v, {app \in catalog.apps : SlugOf[app.name] = base})

SearchAll(v) == ReadApps(v, catalog.apps)

\* The category of an application is left open.
SearchByCategory(v) == \E apps \in SUBSET catalog.apps : ReadApps(v, apps)

GetBySlug(v) == \E app \in catalog.apps : ReadApps(v, {app})

\* A slip: only the last id is asked for.
GetVersionsOfLast(v) ==
  /\ visitor[v].at = "listed"
  /\ \E last \in visitor[v].apps :
       visitor' = [visitor EXCEPT ![v] =
         [at |-> "answered",
          items |-> {[app |-> app, versions |-> IF app = last THEN VersionsOf(catalog, app) ELSE {}] :
                       app \in @.apps}]]
  /\ UNCHANGED <<catalog, tx, editing, report, renamed, stripped, refused, appOps>>

\* batchGetVersions.
GetVersions(v) ==
  /\ visitor[v].at = "listed"
  /\ visitor' = [visitor EXCEPT ![v] =
       [at |-> "answered",
        items |-> {[app |-> app, versions |-> VersionsOf(catalog, app)] : app \in @.apps}]]
  /\ UNCHANGED <<catalog, tx, editing, report, renamed, stripped, refused, appOps>>

Answered(v) ==
  /\ visitor[v].at = "answered"
  /\ visitor' = [visitor EXCEPT ![v] = Idle]
  /\ UNCHANGED <<catalog, tx, editing, report, renamed, stripped, refused, appOps>>

-----------------------------------------------------------------------------
(* The routes of internal/services/app.  They check what is sent, call one  *)
(* of the above and answer.                                                *)

AdminAdd(n, text, image) == Upsert(n, text, image)

AdminBulkAdd == \E size \in 1 .. MaxBulk : \E valid \in [1 .. size -> BOOLEAN] : BulkBegin(valid)

BulkUpsert ==
  \/ \E n \in Names, text \in VersionTexts, image \in Images : BulkEntry(n, text, image)
  \/ BulkCommit \/ BulkRollback

AdminDelete == \E app \in catalog.apps : DeleteApp(app)

AdminDeleteVersion == \E version \in catalog.versions : DeleteVersion(version)

AdminEdit(a) ==
  \/ \E app \in catalog.apps, name \in Names \cup {""}, image \in Images :
        UpdateAppRead(a, app, name, image)
  \/ UpdateAppWrite(a)

AdminEditVersion(a) ==
  \/ \E version \in catalog.versions, sent \in (SUBSET {1, 2}) \ {{}} :
        UpdateVersionRead(a, version, sent)
  \/ UpdateVersionWrite(a)

\* All applications, or those a keyword finds.
AdminList(v) == SearchAll(v) \/ \E n \in Names : Search(v, SlugOf[n])

AdminGet(v) == GetBySlug(v)

search(v) == \E n \in Names : Search(v, SlugOf[n])

browseByCategory(v) == SearchByCategory(v)

-----------------------------------------------------------------------------
AppWrites ==
  \/ \E n \in Names, text \in VersionTexts, image \in Images : AdminAdd(n, text, image)
  \/ AdminBulkAdd \/ BulkUpsert \/ AdminDelete \/ AdminDeleteVersion

AppReads(v) ==
  \/ search(v) \/ browseByCategory(v) \/ AdminList(v) \/ AdminGet(v)
  \/ GetVersions(v) \/ Answered(v)

AppNext ==
  \/ AppWrites
  \/ \E a \in Admins : AdminEdit(a) \/ AdminEditVersion(a)
  \/ \E v \in Visitors : AppReads(v)

AppSpec == AppInit /\ [][AppNext]_appVars

-----------------------------------------------------------------------------
Slugs == {SlugOf[n] : n \in Names} \X (1 .. MaxSuffix \cup Clock)
AppRows == [id : Nat, born : Nat, slug : Slugs, name : Names, image : Images]
VersionRows == [id : Nat, app : Nat, born : Nat, text : VersionTexts, urls : SUBSET {1, 2}]

CatalogOK(c) ==
  /\ c.apps \subseteq AppRows /\ c.versions \subseteq VersionRows
  /\ c.nextApp \in Nat /\ c.nextVersion \in Nat

AppTypeOK ==
  /\ CatalogOK(catalog)
  /\ tx.open => CatalogOK(tx.catalog)
  /\ \A v \in Visitors : visitor[v].at = "listed" => visitor[v].apps \subseteq AppRows
  /\ \A a \in Admins : editing[a].of \in {"nothing", "app", "version"}
  /\ renamed \in BOOLEAN /\ refused \subseteq Slugs /\ appOps \in 0 .. MaxAppOps

\* A version belongs to an application, the one it was added to: nothing
\* that is deleted leaves versions behind, for nobody or for a later
\* application.
VersionsHaveApps ==
  \A v \in catalog.versions : \E a \in catalog.apps : a.id = v.app /\ a.born = v.born

\* An application without versions lost them to an administrator, or to an
\* error in a bulk request.
NoBareApps ==
  \A a \in catalog.apps : VersionsOf(catalog, a) = {} => a.born \in stripped

\* No two applications have names that differ in case only, unless an edit
\* renamed one: upserts add to the application that is there.
AlikeOnlyByRenaming ==
  \A a, b \in catalog.apps : LowerOf[a.name] = LowerOf[b.name] => a = b \/ renamed

\* An application is not refused for its slug unless the clock gave it, so
\* that one name after the other of the same slug can be added.
RefusedOnlyByClock == \A slug \in refused : slug[2] > MaxSuffix

\* The report of a bulk request tells what became of it, whichever of its
\* statements, and whether its transaction, failed.
BulkReported == Truthful(report)

\* An answer never shows the versions of one application under another,
\* although both are read from different states.
AnswersAreOfOne ==
  \A v \in Visitors : visitor[v].at = "answered" =>
     \A item \in visitor[v].items : \A version \in item.versions : version.born = item.app.born

\* An answer shows an application without versions only if it was stripped
\* of them or has been deleted since it was read.
AnswersAreFull ==
  \A v \in Visitors : visitor[v].at = "answered" =>
     \A item \in visitor[v].items :
        item.versions = {} => \/ item.app.born \in stripped
                              \/ \A a \in catalog.apps : a.born # item.app.born

\* The tables apps and versions fit each other through upserts, bulk requests,
\* edits and deletions (pkg/appstore/db.go).
AppsFit ==
  /\ AppTypeOK
  /\ VersionsHaveApps /\ NoBareApps
  /\ AlikeOnlyByRenaming /\ RefusedOnlyByClock

\* What a search or a listing answers fits too, although it reads the
\* applications and their versions one after the other.
AppAnswersFit == AnswersAreOfOne /\ AnswersAreFull
=============================================================================
