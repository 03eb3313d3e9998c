-------------------------- MODULE CatalogProofs ---------------------------
(***************************************************************************)
(* What the tables of applications and of media keep through edits, bulk   *)
(* requests and deletions, and what the reports of bulk requests, the      *)
(* answers to visitors and the searches say, for any names, texts, images, *)
(* metadata and numbers of administrators and visitors.                    *)
(***************************************************************************)
EXTENDS MCCatalogs, FilterProofs

(* Applications and their versions. *)

Catalogs == [apps : SUBSET AppRows, versions : SUBSET VersionRows, nextApp : Nat, nextVersion : Nat]

\* Ids are given once.
Keyed(c) ==
  /\ \A a \in c.apps : a.born = a.id /\ a.id < c.nextApp
  /\ \A a, b \in c.apps : a.id = b.id => a = b

Owned(c) == \A v \in c.versions : v.born = v.app /\ \E a \in c.apps : a.id = v.app

\* Applications without versions are among cut.
BareOnly(c, cut) == \A a \in c.apps : VersionsOf(c, a) = {} => a.born \in cut

Distinct(c) == \A a, b \in c.apps : LowerOf[a.name] = LowerOf[b.name] => a = b

Fits(c, cut) == c \in Catalogs /\ Keyed(c) /\ Owned(c) /\ BareOnly(c, cut)

\* The fields of the rows of both tables.
LEMMA RowFields ==
  /\ \A a \in AppRows : /\ a.id \in Nat /\ a.born \in Nat /\ a.slug \in Slugs
                        /\ a.name \in Names /\ a.image \in Images
  /\ \A v \in VersionRows : /\ v.id \in Nat /\ v.app \in Nat /\ v.born \in Nat
                            /\ v.text \in VersionTexts /\ v.urls \in SUBSET {1, 2}
  BY DEF AppRows, VersionRows

\* A set of suffixes has a least one.
LEMMA LeastSuffix ==
  ASSUME NEW S \in SUBSET Nat, S # {}
  PROVE  Min(S) \in S
  BY LeastNumber DEF Min

\* The slug of a new application is a slug, and taken only if it is of the clock.
LEMMA NewSlugs ==
  ASSUME NEW c \in Catalogs, NEW n \in Names
  PROVE  /\ SlugsFor(c, n) \subseteq Slugs
         /\ \A slug \in Refusals(c, n) : slug \in Slugs /\ slug[2] > MaxSuffix
  <1>1. CASE FreeSuffixes(c, n) = {}
    <2>1. SlugsFor(c, n) = {<<SlugOf[n], t>> : t \in Clock}
      BY <1>1 DEF SlugsFor
    <2>2. \A t \in Clock : <<SlugOf[n], t>> \in Slugs /\ <<SlugOf[n], t>>[2] > MaxSuffix
      BY AppAssumption DEF Slugs
    <2> QED
      BY <2>1, <2>2 DEF Refusals
  <1>2. CASE FreeSuffixes(c, n) # {}
    <2> DEFINE least == Min(FreeSuffixes(c, n))
    <2>1. least \in FreeSuffixes(c, n)
      <3>1. FreeSuffixes(c, n) \in SUBSET Nat
        BY AppAssumption DEF FreeSuffixes
      <3> QED
        BY <1>2, <3>1, LeastSuffix
    <2>2. SlugsFor(c, n) = {<<SlugOf[n], least>>}
      BY <1>2 DEF SlugsFor
    <2> HIDE DEF least
    <2>3. <<SlugOf[n], least>> \in Slugs /\ <<SlugOf[n], least>> \notin Taken(c)
      BY <2>1 DEF FreeSuffixes, Slugs
    <2> QED
      BY <2>2, <2>3 DEF Refusals
  <1> QED
    BY <1>1, <1>2

\* A version is added to an application, which is no longer bare.
LEMMA VersionFits ==
  ASSUME NEW c, NEW cut, NEW app \in AppRows, NEW text \in VersionTexts,
         c \in Catalogs, Keyed(c), Owned(c), BareOnly(c, cut \cup {app.born}),
         app.born = app.id, \E a \in c.apps : a.id = app.id
  PROVE  /\ Fits(InsertVersion(c, app, text), cut)
         /\ InsertVersion(c, app, text).apps = c.apps
  <1> DEFINE row == [id |-> c.nextVersion, app |-> app.id, born |-> app.born, text |-> text, urls |-> {}]
             c2 == InsertVersion(c, app, text)
  <1>1. row \in VersionRows
    BY RowFields DEF VersionRows, Catalogs
  <1>3. row.app = app.id /\ row.born = app.born
    OBVIOUS
  <1>6. c2 = [c EXCEPT !.versions = @ \cup {row}, !.nextVersion = @ + 1]
    BY DEF InsertVersion
  <1> HIDE DEF row, c2
  <1>2. /\ c2 \in Catalogs /\ c2.apps = c.apps /\ c2.nextApp = c.nextApp
        /\ c2.versions = c.versions \cup {row}
    <2>1. c2 = [apps |-> c.apps, versions |-> c.versions \cup {row}, nextApp |-> c.nextApp,
                nextVersion |-> c.nextVersion + 1]
      BY <1>6 DEF Catalogs
    <2>2. /\ c.apps \in SUBSET AppRows /\ c.versions \cup {row} \in SUBSET VersionRows
          /\ c.nextApp \in Nat /\ c.nextVersion + 1 \in Nat
      BY <1>1 DEF Catalogs
    <2> QED
      BY <2>1, <2>2 DEF Catalogs
  <1>4. Keyed(c2) /\ Owned(c2)
    BY <1>2, <1>3 DEF Keyed, Owned
  <1>5. BareOnly(c2, cut)
    <2> SUFFICES ASSUME NEW a \in c.apps, VersionsOf(c2, a) = {} PROVE a.born \in cut
      BY <1>2 DEF BareOnly
    <2>1. row.app # a.id
      BY <1>2 DEF VersionsOf
    <2>2. VersionsOf(c, a) = {}
      BY <1>2 DEF VersionsOf
    <2>3. a.born \in cut \cup {app.born}
      BY <2>2 DEF BareOnly
    <2>4. a.born = a.id
      BY DEF Keyed
    <2> QED
      BY <1>3, <2>1, <2>3, <2>4
  <1> QED
    BY <1>2, <1>4, <1>5 DEF Fits, c2

\* A new application, of a name that none has in any case, has no versions yet.
LEMMA AppFits ==
  ASSUME NEW c, NEW cut, Fits(c, cut), NEW n \in Names, NEW image \in Images, NEW slug \in Slugs,
         NamedLike(c, n) = {}
  PROVE  LET app == NewApp(c, n, slug, image)
             c2  == InsertApp(c, app)
         IN  /\ app \in AppRows /\ app.born = app.id /\ app \in c2.apps /\ app \notin c.apps
             /\ Fits(c2, cut \cup {app.born}) /\ (Distinct(c) => Distinct(c2))
             /\ c2.apps \ c.apps = {app}
  <1> DEFINE app == NewApp(c, n, slug, image)
             c2  == InsertApp(c, app)
  <1>1. /\ app \in AppRows /\ app.born = c.nextApp /\ app.id = c.nextApp /\ app.name = n
        /\ c.nextApp \in Nat
    BY DEF NewApp, NewAppId, AppRows, Fits, Catalogs
  <1>9. c2 = [c EXCEPT !.apps = @ \cup {app}, !.nextApp = @ + 1]
    BY DEF InsertApp
  <1> HIDE DEF app, c2
  <1>2. c2 \in Catalogs /\ c2.apps = c.apps \cup {app} /\ c2.nextApp = c.nextApp + 1 /\ c2.versions = c.versions
    <2>1. c2 = [apps |-> c.apps \cup {app}, versions |-> c.versions, nextApp |-> c.nextApp + 1,
                nextVersion |-> c.nextVersion]
      BY <1>9 DEF Fits, Catalogs
    <2>2. /\ c.apps \cup {app} \in SUBSET AppRows /\ c.versions \in SUBSET VersionRows
          /\ c.nextApp + 1 \in Nat /\ c.nextVersion \in Nat
      BY <1>1 DEF Fits, Catalogs
    <2> QED
      BY <2>1, <2>2 DEF Catalogs
  <1>3. \A a \in c.apps : a.id \in Nat /\ a.id < c.nextApp /\ a.born = a.id
    BY RowFields DEF Fits, Catalogs, Keyed
  <1>4. app \notin c.apps
    BY <1>1, <1>3
  <1>5. Keyed(c2)
    BY <1>1, <1>2, <1>3 DEF Fits, Keyed
  <1>6. Owned(c2)
    BY <1>2 DEF Fits, Owned
  <1>7. BareOnly(c2, cut \cup {app.born})
    BY <1>2 DEF Fits, BareOnly, VersionsOf
  <1>8. Distinct(c) => Distinct(c2)
    BY <1>1, <1>2 DEF Distinct, NamedLike
  <1> QED
    BY <1>1, <1>2, <1>4, <1>5, <1>6, <1>7, <1>8 DEF Fits, app, c2

\* An application is rewritten under its id, with its name.
LEMMA ImageFits ==
  ASSUME NEW c, NEW cut, Fits(c, cut), NEW app \in c.apps, NEW image \in Images
  PROVE  /\ Fits(SetImage(c, app, image), cut)
         /\ Distinct(c) => Distinct(SetImage(c, app, image))
         /\ \E a \in SetImage(c, app, image).apps : a.id = app.id
  <1>1. CASE image = ""
    BY <1>1 DEF SetImage
  <1>2. CASE image # ""
    <2> DEFINE row == [app EXCEPT !.image = image]
               c2  == SetImage(c, app, image)
    <2>1. app \in AppRows
      BY DEF Fits, Catalogs
    <2>2. row \in AppRows /\ row.id = app.id /\ row.born = app.born /\ row.name = app.name
      BY <2>1 DEF AppRows
    <2>3. /\ c2 \in Catalogs /\ c2.apps = (c.apps \ {app}) \cup {row}
          /\ c2.nextApp = c.nextApp /\ c2.versions = c.versions
      BY <1>2, <2>2 DEF SetImage, Fits, Catalogs
    <2> HIDE DEF row, c2
    <2>4. Keyed(c2)
      BY <2>2, <2>3 DEF Fits, Keyed
    <2>5. Owned(c2)
      BY <2>2, <2>3 DEF Fits, Owned
    <2>6. BareOnly(c2, cut)
      BY <2>2, <2>3 DEF Fits, BareOnly, VersionsOf
    <2>7. Distinct(c) => Distinct(c2)
      BY <2>2, <2>3 DEF Distinct
    <2> QED
      BY <2>2, <2>3, <2>4, <2>5, <2>6, <2>7 DEF Fits, c2
  <1> QED
    BY <1>1, <1>2

\* A larger set of excuses.
LEMMA Excused ==
  ASSUME NEW c, NEW cut, NEW more, Fits(c, cut), cut \subseteq more
  PROVE  Fits(c, more)
  BY DEF Fits, BareOnly

\* An entry of Upsert or BulkUpsert that went through.
LEMMA EnteredFits ==
  ASSUME NEW c, NEW cut, Fits(c, cut), NEW n \in Names, NEW text \in VersionTexts, NEW image \in Images,
         NEW c2 \in Entered(c, n, text, image)
  PROVE  Fits(c2, cut) /\ (Distinct(c) => Distinct(c2))
  <1>1. CASE NamedLike(c, n) = {}
    <2>1. PICK slug \in SlugsFor(c, n) \ Taken(c) :
            c2 = InsertVersion(InsertApp(c, NewApp(c, n, slug, image)), NewApp(c, n, slug, image), text)
      BY <1>1 DEF Entered
    <2> DEFINE app == NewApp(c, n, slug, image)
               c1  == InsertApp(c, app)
    <2>2. slug \in Slugs
      BY NewSlugs DEF Fits
    <2>3. /\ app \in AppRows /\ app.born = app.id /\ app \in c1.apps
          /\ Fits(c1, cut \cup {app.born}) /\ (Distinct(c) => Distinct(c1))
      BY <1>1, <2>2, AppFits
    <2>4. c2 = InsertVersion(c1, app, text)
      BY <2>1
    <2> HIDE DEF app, c1
    <2>5. Fits(c2, cut) /\ c2.apps = c1.apps
      BY <2>3, <2>4, VersionFits DEF Fits
    <2> QED
      BY <2>3, <2>5 DEF Distinct
  <1>2. CASE NamedLike(c, n) # {}
    <2>1. PICK app \in NamedLike(c, n) :
            c2 = IF HasVersion(c, app, text) THEN c ELSE InsertVersion(SetImage(c, app, image), app, text)
      BY <1>2 DEF Entered
    <2>2. app \in c.apps /\ app \in AppRows /\ app.born = app.id
      BY DEF NamedLike, Fits, Catalogs, Keyed
    <2> DEFINE c1 == SetImage(c, app, image)
    <2>3. Fits(c1, cut) /\ (Distinct(c) => Distinct(c1)) /\ \E a \in c1.apps : a.id = app.id
      BY <2>2, ImageFits
    <2> HIDE DEF c1
    <2>4. c1 \in Catalogs /\ Keyed(c1) /\ Owned(c1) /\ BareOnly(c1, cut \cup {app.born})
      BY <2>3 DEF Fits, BareOnly
    <2>5. CASE c2 = InsertVersion(c1, app, text)
      <3>1. Fits(c2, cut) /\ c2.apps = c1.apps
        BY <2>2, <2>3, <2>4, <2>5, VersionFits
      <3> QED
        BY <2>3, <3>1 DEF Distinct
    <2> QED
      BY <2>1, <2>5 DEF c1
  <1> QED
    BY <1>1, <1>2

\* An entry of BulkUpsert that failed: the application it leaves bare is one
\* that it added or changed.
LEMMA HalfEnteredFits ==
  ASSUME NEW c, NEW cut, Fits(c, cut), NEW n \in Names, NEW text \in VersionTexts, NEW image \in Images,
         NEW c2 \in HalfEntered(c, n, text, image)
  PROVE  Fits(c2, cut \cup {a.born : a \in c2.apps \ c.apps}) /\ (Distinct(c) => Distinct(c2))
  <1>1. CASE c2 = c
    BY <1>1, Excused
  <1>2. CASE NamedLike(c, n) = {} /\ c2 # c
    <2>1. PICK slug \in SlugsFor(c, n) \ Taken(c) : c2 = InsertApp(c, NewApp(c, n, slug, image))
      BY <1>2 DEF HalfEntered
    <2>2. slug \in Slugs
      BY NewSlugs DEF Fits
    <2> DEFINE app == NewApp(c, n, slug, image)
    <2>3. Fits(c2, cut \cup {app.born}) /\ (Distinct(c) => Distinct(c2)) /\ c2.apps \ c.apps = {app}
      BY <1>2, <2>1, <2>2, AppFits
    <2> HIDE DEF app
    <2> QED
      BY <2>3, Excused
  <1>3. CASE NamedLike(c, n) # {} /\ c2 # c
    <2>1. PICK app \in NamedLike(c, n) : c2 = SetImage(c, app, image)
      BY <1>3 DEF HalfEntered
    <2>2. app \in c.apps
      BY DEF NamedLike
    <2>3. Fits(c2, cut) /\ (Distinct(c) => Distinct(c2))
      BY <2>1, <2>2, ImageFits
    <2> QED
      BY <2>3, Excused
  <1> QED
    BY <1>1, <1>2, <1>3

\* A deletion takes the versions along, so that none is left without owner.
LEMMA DeletedFits ==
  ASSUME NEW c, NEW cut, Fits(c, cut), NEW app \in c.apps
  PROVE  Fits(Deleted(c, app), cut) /\ (Distinct(c) => Distinct(Deleted(c, app)))
  <1> DEFINE c2 == Deleted(c, app)
  <1>1. c2 = [apps |-> c.apps \ {app}, versions |-> c.versions \ VersionsOf(c, app),
              nextApp |-> c.nextApp, nextVersion |-> c.nextVersion]
    <2> DEFINE lost == VersionsOf(c, app)
    <2>1. c2 = [c EXCEPT !.apps = @ \ {app}, !.versions = @ \ lost]
      BY DEF Deleted
    <2> HIDE DEF lost, c2
    <2>2. c2 = [apps |-> c.apps \ {app}, versions |-> c.versions \ lost,
                nextApp |-> c.nextApp, nextVersion |-> c.nextVersion]
      BY <2>1 DEF Fits, Catalogs
    <2> QED
      BY <2>2 DEF lost
  <1> HIDE DEF c2
  <1>2. c2 \in Catalogs /\ c2.apps = c.apps \ {app} /\ c2.versions = c.versions \ VersionsOf(c, app)
        /\ c2.nextApp = c.nextApp
    BY <1>1 DEF Fits, Catalogs
  <1>3. Keyed(c2)
    BY <1>2 DEF Fits, Keyed
  <1>4. Owned(c2)
    BY <1>2 DEF Fits, Owned, VersionsOf
  <1>5. BareOnly(c2, cut)
    BY <1>2 DEF Fits, BareOnly, Keyed, VersionsOf
  <1>6. Distinct(c) => Distinct(c2)
    BY <1>2 DEF Distinct
  <1> QED
    BY <1>2, <1>3, <1>4, <1>5, <1>6 DEF Fits, c2

\* The last version of an application is recorded as its last.
LEMMA VersionDeletedFits ==
  ASSUME NEW c, NEW cut, NEW more, Fits(c, cut), NEW version \in c.versions, cut \subseteq more,
         (\E v \in c.versions \ {version} : v.app = version.app) \/ version.born \in more
  PROVE  /\ Fits([c EXCEPT !.versions = @ \ {version}], more)
         /\ [c EXCEPT !.versions = @ \ {version}].apps = c.apps
  <1> DEFINE c2 == [c EXCEPT !.versions = @ \ {version}]
  <1>1. c2 = [apps |-> c.apps, versions |-> c.versions \ {version},
              nextApp |-> c.nextApp, nextVersion |-> c.nextVersion]
    BY DEF Fits, Catalogs
  <1> HIDE DEF c2
  <1>2. c2 \in Catalogs /\ c2.apps = c.apps /\ c2.versions = c.versions \ {version}
        /\ c2.nextApp = c.nextApp
    BY <1>1 DEF Fits, Catalogs
  <1>3. Keyed(c2) /\ Owned(c2)
    BY <1>2 DEF Fits, Keyed, Owned
  <1>4. BareOnly(c2, more)
    <2> SUFFICES ASSUME NEW a \in c.apps, VersionsOf(c2, a) = {} PROVE a.born \in more
      BY <1>2 DEF BareOnly
    <2>1. CASE version.app = a.id
      <3>1. ~ \E v \in c.versions \ {version} : v.app = version.app
        BY <1>2, <2>1 DEF VersionsOf
      <3> QED
        BY <2>1, <3>1 DEF Fits, Owned, Keyed
    <2>2. CASE version.app # a.id
      <3>1. VersionsOf(c, a) = {}
        BY <1>2, <2>2 DEF VersionsOf
      <3> QED
        BY <3>1 DEF Fits, BareOnly
    <2> QED
      BY <2>1, <2>2
  <1> QED
    BY <1>2, <1>3, <1>4 DEF Fits, c2

Renamings(rows, new, name, image) ==
  /\ \A a \in new : \E r \in rows : a = [r EXCEPT !.name = name, !.image = image]
  /\ \A r \in rows : [r EXCEPT !.name = name, !.image = image] \in new

\* Rows are rewritten under their ids.
LEMMA RewrittenFits ==
  ASSUME NEW c, NEW cut, Fits(c, cut), NEW rows \in SUBSET c.apps, NEW name \in Names, NEW image \in Images,
         NEW new, Renamings(rows, new, name, image),
         NEW c2, c2 = [c EXCEPT !.apps = (@ \ rows) \cup new]
  PROVE  /\ Fits(c2, cut)
         /\ Distinct(c) /\ (\A r \in rows : r.name = name) => Distinct(c2)
  <1> DEFINE Rewritten(r) == [r EXCEPT !.name = name, !.image = image]
  <1>1. \A r \in rows : /\ Rewritten(r) \in AppRows /\ Rewritten(r).id = r.id /\ Rewritten(r).born = r.born
                        /\ Rewritten(r).name = name
    BY DEF Fits, Catalogs, AppRows
  <1>9. (\A a \in new : \E r \in rows : a = Rewritten(r)) /\ \A r \in rows : Rewritten(r) \in new
    BY DEF Renamings
  <1> HIDE DEF Rewritten
  <1>3. /\ new \subseteq AppRows
        /\ \A a \in new : a.name = name /\ \E r \in rows : a.id = r.id /\ a.born = r.born /\ a = Rewritten(r)
        /\ \A r \in rows : \E a \in new : a.id = r.id
    BY <1>1, <1>9
  <1>2. c2 = [apps |-> (c.apps \ rows) \cup new, versions |-> c.versions,
              nextApp |-> c.nextApp, nextVersion |-> c.nextVersion]
    BY DEF Fits, Catalogs
  <1>4. /\ c2 \in Catalogs /\ c2.apps = (c.apps \ rows) \cup new /\ c2.versions = c.versions
        /\ c2.nextApp = c.nextApp
    BY <1>2, <1>3 DEF Fits, Catalogs
  <1>5. Keyed(c2)
    <2>1. \A a \in c2.apps : a.born = a.id /\ a.id < c.nextApp
      BY <1>3, <1>4 DEF Fits, Keyed
    <2>2. \A a, b \in c2.apps : a.id = b.id => a = b
      BY <1>3, <1>4 DEF Fits, Keyed
    <2> QED
      BY <1>4, <2>1, <2>2 DEF Keyed
  <1>6. Owned(c2)
    <2> SUFFICES ASSUME NEW v \in c.versions PROVE v.born = v.app /\ \E a \in c2.apps : a.id = v.app
      BY <1>4 DEF Owned
    <2>1. v.born = v.app /\ \E a \in c.apps : a.id = v.app
      BY DEF Fits, Owned
    <2> QED
      BY <1>3, <1>4, <2>1
  <1>7. BareOnly(c2, cut)
    BY <1>3, <1>4 DEF Fits, BareOnly, VersionsOf
  <1>8. ASSUME Distinct(c), \A r \in rows : r.name = name PROVE Distinct(c2)
    <2> SUFFICES ASSUME NEW a \in c2.apps, NEW b \in c2.apps, LowerOf[a.name] = LowerOf[b.name] PROVE a = b
      BY DEF Distinct
    <2>1. \A x \in c2.apps : \E r \in c.apps : r.id = x.id /\ r.name = x.name
      BY <1>3, <1>4, <1>8
    <2>2. PICK r \in c.apps, q \in c.apps : r.id = a.id /\ r.name = a.name /\ q.id = b.id /\ q.name = b.name
      BY <2>1
    <2>3. a.id = b.id
      BY <1>8, <2>2 DEF Distinct
    <2> QED
      BY <1>5, <2>3 DEF Keyed
  <1> QED
    BY <1>4, <1>5, <1>6, <1>7, <1>8 DEF Fits

Readdressings(c, new, id, urls) ==
  /\ \A w \in new : \E v \in c.versions : w = IF v.id = id THEN [v EXCEPT !.urls = urls] ELSE v
  /\ \A v \in c.versions : (IF v.id = id THEN [v EXCEPT !.urls = urls] ELSE v) \in new

\* The addresses of a version change no row but that version's.
LEMMA UrlsFit ==
  ASSUME NEW c, NEW cut, Fits(c, cut), NEW id \in Nat, NEW urls \in SUBSET {1, 2},
         NEW new, Readdressings(c, new, id, urls),
         NEW c2, c2 = [c EXCEPT !.versions = new]
  PROVE  Fits(c2, cut) /\ c2.apps = c.apps
  <1> DEFINE Edited(v) == IF v.id = id THEN [v EXCEPT !.urls = urls] ELSE v
  <1>1. \A v \in c.versions : Edited(v) \in VersionRows /\ Edited(v).app = v.app /\ Edited(v).born = v.born
    BY DEF Fits, Catalogs, VersionRows
  <1>9. (\A w \in new : \E v \in c.versions : w = Edited(v)) /\ \A v \in c.versions : Edited(v) \in new
    BY DEF Readdressings
  <1> HIDE DEF Edited
  <1>3. /\ new \subseteq VersionRows
        /\ \A w \in new : \E v \in c.versions : w.app = v.app /\ w.born = v.born
        /\ \A v \in c.versions : \E w \in new : w.app = v.app
    BY <1>1, <1>9
  <1>2. c2 = [apps |-> c.apps, versions |-> new, nextApp |-> c.nextApp, nextVersion |-> c.nextVersion]
    BY DEF Fits, Catalogs
  <1>4. c2 \in Catalogs /\ c2.apps = c.apps /\ c2.versions = new /\ c2.nextApp = c.nextApp
    BY <1>2, <1>3 DEF Fits, Catalogs
  <1>5. Keyed(c2) /\ Owned(c2)
    BY <1>3, <1>4 DEF Fits, Keyed, Owned
  <1>6. BareOnly(c2, cut)
    BY <1>3, <1>4 DEF Fits, BareOnly, VersionsOf
  <1> QED
    BY <1>4, <1>5, <1>6 DEF Fits

-----------------------------------------------------------------------------
TableInv == Fits(catalog, stripped) /\ (renamed \/ Distinct(catalog))

\* What an open transaction sees fits too, with what it will add to stripped.
TxInv ==
  tx.open =>
    /\ tx \in [open : {TRUE}, catalog : Catalogs, valid : {tx.valid}, next : {tx.next},
               errors : {tx.errors}, applied : {tx.applied}, stripped : {tx.stripped},
               refused : {tx.refused}]
    /\ Fits(tx.catalog, stripped \cup tx.stripped)
    /\ renamed \/ Distinct(tx.catalog)
    /\ \A slug \in tx.refused : slug \in Slugs /\ slug[2] > MaxSuffix

RefusedInv == \A slug \in refused : slug \in Slugs /\ slug[2] > MaxSuffix

EditRows ==
  {NoEdit}
  \cup [of : {"app"}, slug : Slugs, sent : (Names \cup {""}) \X Images, name : Names, image : Images]
  \cup [of : {"version"}, id : Nat, sent : SUBSET {1, 2}, urls : SUBSET {1, 2}]

VisitorRows ==
  {Idle} \cup [at : {"listed"}, apps : SUBSET AppRows]
         \cup [at : {"answered"}, items : SUBSET [app : AppRows, versions : SUBSET VersionRows]]

RequestInv == editing \in [Admins -> EditRows] /\ visitor \in [Visitors -> VisitorRows]

CountInv == renamed \in BOOLEAN /\ appOps \in 0 .. MaxAppOps

AppInv == TableInv /\ TxInv /\ RefusedInv /\ RequestInv /\ CountInv

\* The fields of an edit, by what it is of.
LEMMA EditFields ==
  ASSUME NEW row \in EditRows
  PROVE  /\ row.of \in {"nothing", "app", "version"}
         /\ row.of = "app" => row.name \in Names /\ row.image \in Images
         /\ row.of = "version" => row.id \in Nat /\ row.urls \in SUBSET {1, 2}
  <1>1. CASE row = NoEdit
    <2>1. row.of = "nothing"
      BY <1>1 DEF NoEdit
    <2> QED
      BY <2>1
  <1>2. CASE row \in [of : {"app"}, slug : Slugs, sent : (Names \cup {""}) \X Images, name : Names, image : Images]
    BY <1>2
  <1>3. CASE row \in [of : {"version"}, id : Nat, sent : SUBSET {1, 2}, urls : SUBSET {1, 2}]
    BY <1>3
  <1> QED
    BY <1>1, <1>2, <1>3 DEF EditRows

\* The invariant holds of the empty catalog.
LEMMA AppInvInit == AppInit => AppInv
  <1> SUFFICES ASSUME AppInit PROVE AppInv
    OBVIOUS
  <1>1. TableInv
    <2>1. catalog = [apps |-> {}, versions |-> {}, nextApp |-> 1, nextVersion |-> 1]
      BY DEF AppInit
    <2>2. catalog \in Catalogs /\ catalog.apps = {} /\ catalog.versions = {}
      BY <2>1 DEF Catalogs
    <2> QED
      BY <2>2 DEF TableInv, Fits, Keyed, Owned, BareOnly, Distinct
  <1>2. TxInv /\ RefusedInv
    BY DEF AppInit, NoTx, TxInv, RefusedInv
  <1>3. RequestInv
    BY DEF AppInit, RequestInv, EditRows, VisitorRows
  <1>4. CountInv
    <2>1. renamed \in BOOLEAN
      BY DEF AppInit
    <2>2. appOps \in 0 .. MaxAppOps
      BY AppAssumption DEF AppInit
    <2> QED
      BY <2>1, <2>2 DEF CountInv
  <1> QED
    BY <1>1, <1>2, <1>3, <1>4 DEF AppInv

\* Requests count towards the bound.
LEMMA Counted ==
  ASSUME AppInv, NEW n \in Nat, appOps + n <= MaxAppOps, appOps' = appOps + n
  PROVE  appOps' \in 0 .. MaxAppOps
  BY AppAssumption DEF AppInv, CountInv

\* One application is added, or updated, in a transaction of its own.
LEMMA UpsertKeeps ==
  ASSUME AppInv, NEW n \in Names, NEW text \in VersionTexts, NEW image \in Images, Upsert(n, text, image)
  PROVE  AppInv'
  <1>1. ~ tx.open /\ UNCHANGED <<tx, editing, visitor, renamed, stripped>>
    BY DEF Upsert
  <1>2. TableInv' /\ RefusedInv'
    <2>1. CASE catalog' \in Entered(catalog, n, text, image) /\ UNCHANGED refused
      BY <1>1, <2>1, EnteredFits DEF AppInv, TableInv, RefusedInv
    <2>2. CASE refused' = refused \cup Refusals(catalog, n) /\ UNCHANGED catalog
      <3>1. catalog \in Catalogs
        BY DEF AppInv, TableInv, Fits
      <3> QED
        BY <1>1, <2>2, <3>1, NewSlugs DEF AppInv, TableInv, RefusedInv
    <2> QED
      BY <2>1, <2>2 DEF Upsert
  <1>3. TxInv' /\ RequestInv'
    BY <1>1 DEF AppInv, TxInv, RequestInv
  <1>4. appOps' \in 0 .. MaxAppOps
    BY AppAssumption DEF Upsert, AppInv, CountInv
  <1> QED
    BY <1>1, <1>2, <1>3, <1>4 DEF AppInv, CountInv

\* A bulk request opens its transaction over the catalog as committed.
LEMMA BulkBeginKeeps ==
  ASSUME AppInv, NEW size \in 1 .. MaxBulk, NEW valid \in [1 .. size -> BOOLEAN], BulkBegin(valid)
  PROVE  AppInv'
  <1>1. /\ appOps + Len(valid) <= MaxAppOps /\ appOps' = appOps + Len(valid)
        /\ UNCHANGED <<catalog, editing, visitor, renamed, stripped, refused>>
        /\ tx' = [open |-> TRUE, catalog |-> catalog, valid |-> valid, next |-> 1,
                  errors |-> {}, applied |-> {}, stripped |-> {}, refused |-> {}]
    BY DEF BulkBegin
  <1>2. valid \in Seq(BOOLEAN) /\ Len(valid) \in Nat
    BY AppAssumption
  <1>3. appOps' \in 0 .. MaxAppOps
    BY <1>1, <1>2, Counted
  <1>4. TableInv' /\ RefusedInv' /\ RequestInv'
    BY <1>1 DEF AppInv, TableInv, RefusedInv, RequestInv
  <1>5. TxInv'
    <2>1. /\ tx'.catalog = catalog /\ tx'.stripped = {} /\ tx'.refused = {}
          /\ tx' \in [open : {TRUE}, catalog : Catalogs, valid : {tx'.valid}, next : {tx'.next},
                      errors : {tx'.errors}, applied : {tx'.applied}, stripped : {tx'.stripped},
                      refused : {tx'.refused}]
      BY <1>1 DEF AppInv, TableInv, Fits
    <2>2. Fits(catalog, stripped \cup {}) /\ (renamed \/ Distinct(catalog))
      BY Excused DEF AppInv, TableInv
    <2> QED
      BY <1>1, <2>1, <2>2 DEF TxInv
  <1> QED
    BY <1>1, <1>3, <1>4, <1>5 DEF AppInv, CountInv

\* Its next entry is entered, entered by half or refused.
LEMMA BulkEntryKeeps ==
  ASSUME AppInv, NEW n \in Names, NEW text \in VersionTexts, NEW image \in Images, BulkEntry(n, text, image)
  PROVE  AppInv'
  <1>1. tx.open /\ UNCHANGED <<catalog, editing, visitor, renamed, stripped, refused, appOps>>
    BY DEF BulkEntry
  <1>2. TableInv' /\ RefusedInv' /\ RequestInv' /\ CountInv'
    BY <1>1 DEF AppInv, TableInv, RefusedInv, RequestInv, CountInv
  <1>3. /\ Fits(tx.catalog, stripped \cup tx.stripped) /\ (renamed \/ Distinct(tx.catalog))
        /\ \A slug \in tx.refused : slug \in Slugs /\ slug[2] > MaxSuffix
        /\ tx \in [open : {TRUE}, catalog : Catalogs, valid : {tx.valid}, next : {tx.next},
                   errors : {tx.errors}, applied : {tx.applied}, stripped : {tx.stripped},
                   refused : {tx.refused}]
        /\ tx.catalog \in Catalogs
    BY <1>1 DEF AppInv, TxInv, Fits
  <1>4. ASSUME NEW c \in Entered(tx.catalog, n, text, image), NEW done,
               tx' = [tx EXCEPT !.catalog = c, !.next = @ + 1, !.applied = @ \cup {done}]
        PROVE  TxInv'
    <2>1. Fits(c, stripped \cup tx.stripped) /\ (renamed \/ Distinct(c))
      BY <1>3, EnteredFits
    <2>2. /\ tx'.catalog = c /\ tx'.stripped = tx.stripped /\ tx'.refused = tx.refused
          /\ tx' \in [open : {TRUE}, catalog : Catalogs, valid : {tx'.valid}, next : {tx'.next},
                      errors : {tx'.errors}, applied : {tx'.applied}, stripped : {tx'.stripped},
                      refused : {tx'.refused}]
      BY <1>3, <1>4, <2>1 DEF Fits
    <2> QED
      BY <1>1, <1>3, <2>1, <2>2 DEF TxInv
  <1>5. ASSUME NEW c \in HalfEntered(tx.catalog, n, text, image),
               tx' = [tx EXCEPT !.catalog = c, !.next = @ + 1, !.errors = @ \cup {tx.next},
                                !.refused = @ \cup Refusals(tx.catalog, n),
                                !.stripped = @ \cup {a.born : a \in c.apps \ tx.catalog.apps}]
        PROVE  TxInv'
    <2> DEFINE bare == {a.born : a \in c.apps \ tx.catalog.apps}
               more == Refusals(tx.catalog, n)
    <2>1. Fits(c, (stripped \cup tx.stripped) \cup bare) /\ (renamed \/ Distinct(c))
      BY <1>3, HalfEnteredFits
    <2>2. \A slug \in more : slug \in Slugs /\ slug[2] > MaxSuffix
      BY <1>3, NewSlugs
    <2>3. tx' = [tx EXCEPT !.catalog = c, !.next = @ + 1, !.errors = @ \cup {tx.next},
                           !.refused = @ \cup more, !.stripped = @ \cup bare]
      BY <1>5
    <2> HIDE DEF bare, more
    <2>4. /\ tx'.catalog = c /\ tx'.stripped = tx.stripped \cup bare /\ tx'.refused = tx.refused \cup more
          /\ tx' \in [open : {TRUE}, catalog : Catalogs, valid : {tx'.valid}, next : {tx'.next},
                      errors : {tx'.errors}, applied : {tx'.applied}, stripped : {tx'.stripped},
                      refused : {tx'.refused}]
      BY <1>3, <2>1, <2>3 DEF Fits
    <2>5. Fits(c, stripped \cup tx'.stripped)
      BY <2>1, <2>4, Excused
    <2> QED
      BY <1>1, <1>3, <2>1, <2>2, <2>4, <2>5 DEF TxInv
  <1>6. TxInv'
    BY <1>4, <1>5 DEF BulkEntry
  <1> QED
    BY <1>2, <1>6 DEF AppInv

\* Its transaction is committed or rolled back.
LEMMA BulkEndKeeps ==
  ASSUME AppInv, BulkCommit \/ BulkRollback
  PROVE  AppInv'
  <1>1. tx.open /\ tx' = NoTx /\ UNCHANGED <<editing, visitor, renamed, appOps>>
    BY DEF BulkCommit, BulkRollback
  <1>2. TxInv' /\ RequestInv' /\ CountInv'
    BY <1>1 DEF AppInv, TxInv, NoTx, RequestInv, CountInv
  <1>3. TableInv' /\ RefusedInv'
    <2>1. CASE BulkCommit
      BY <1>1, <2>1 DEF BulkCommit, AppInv, TxInv, TableInv, RefusedInv
    <2>2. CASE BulkRollback
      BY <1>1, <2>2 DEF BulkRollback, AppInv, TableInv, RefusedInv
    <2> QED
      BY <2>1, <2>2
  <1> QED
    BY <1>2, <1>3 DEF AppInv

\* Applications and versions are deleted.
LEMMA DeletionKeeps ==
  ASSUME AppInv, AdminDelete \/ AdminDeleteVersion
  PROVE  AppInv'
  <1>1. ~ tx.open /\ UNCHANGED <<tx, editing, visitor, renamed, refused>>
    BY DEF AdminDelete, DeleteApp, AdminDeleteVersion, DeleteVersion
  <1>2. TableInv'
    <2>1. ASSUME NEW app \in catalog.apps, DeleteApp(app)
          PROVE  TableInv'
      BY <1>1, <2>1, DeletedFits DEF DeleteApp, AppInv, TableInv
    <2>2. ASSUME NEW version \in catalog.versions, DeleteVersion(version)
          PROVE  TableInv'
      <3>1. stripped \subseteq stripped' /\ ((\E v \in catalog.versions \ {version} : v.app = version.app)
                                             \/ version.born \in stripped')
        BY <2>2 DEF DeleteVersion
      <3>2. catalog' = [catalog EXCEPT !.versions = @ \ {version}]
        BY <2>2 DEF DeleteVersion
      <3>3. Fits(catalog', stripped') /\ catalog'.apps = catalog.apps
        BY <3>1, <3>2, VersionDeletedFits DEF AppInv, TableInv
      <3> QED
        BY <1>1, <3>3 DEF AppInv, TableInv, Distinct
    <2> QED
      BY <2>1, <2>2 DEF AdminDelete, AdminDeleteVersion
  <1>3. TxInv' /\ RefusedInv' /\ RequestInv'
    BY <1>1 DEF AppInv, TxInv, RefusedInv, RequestInv
  <1>4. appOps' \in 0 .. MaxAppOps
    BY AppAssumption DEF AdminDelete, DeleteApp, AdminDeleteVersion, DeleteVersion, AppInv, CountInv
  <1> QED
    BY <1>1, <1>2, <1>3, <1>4 DEF AppInv, CountInv

EditReads(a) ==
  \/ \E app \in catalog.apps, name \in Names \cup {""}, image \in Images :
        UpdateAppRead(a, app, name, image)
  \/ \E version \in catalog.versions, sent \in (SUBSET {1, 2}) \ {{}} :
        UpdateVersionRead(a, version, sent)

\* An edit reads: what it will write is typed.
LEMMA EditReadKeeps ==
  ASSUME AppInv, NEW a \in Admins, EditReads(a)
  PROVE  AppInv'
  <1>1. /\ ~ tx.open /\ UNCHANGED <<catalog, tx, visitor, renamed, stripped, refused>>
    BY DEF EditReads, UpdateAppRead, UpdateVersionRead
  <1>6. appOps < MaxAppOps /\ appOps' = appOps + 1
    BY DEF EditReads, UpdateAppRead, UpdateVersionRead
  <1>7. appOps \in 0 .. MaxAppOps
    BY DEF AppInv, CountInv
  <1>2. PICK row \in EditRows : editing' = [editing EXCEPT ![a] = row]
    <2>1. catalog.apps \subseteq AppRows /\ catalog.versions \subseteq VersionRows
      BY DEF AppInv, TableInv, Fits, Catalogs
    <2>2. ASSUME NEW app \in catalog.apps, NEW name \in Names \cup {""}, NEW image \in Images,
                 UpdateAppRead(a, app, name, image)
          PROVE  \E row \in EditRows : editing' = [editing EXCEPT ![a] = row]
      <3> DEFINE row == [of |-> "app", slug |-> app.slug, sent |-> <<name, image>>,
                         name |-> Merged(name, app.name), image |-> Merged(image, app.image)]
      <3>1. Merged(name, app.name) \in Names /\ Merged(image, app.image) \in Images /\ app.slug \in Slugs
        BY <2>1, RowFields DEF Merged
      <3>2. row \in EditRows
        BY <3>1 DEF EditRows
      <3>3. editing' = [editing EXCEPT ![a] = row]
        BY <2>2 DEF UpdateAppRead
      <3> QED
        BY <3>2, <3>3
    <2>3. ASSUME NEW version \in catalog.versions, NEW sent \in (SUBSET {1, 2}) \ {{}},
                 UpdateVersionRead(a, version, sent)
          PROVE  \E row \in EditRows : editing' = [editing EXCEPT ![a] = row]
      <3> DEFINE row == [of |-> "version", id |-> version.id, sent |-> sent, urls |-> version.urls \cup sent]
      <3>1. row \in EditRows
        BY <2>1, RowFields DEF EditRows
      <3>2. editing' = [editing EXCEPT ![a] = row]
        BY <2>3 DEF UpdateVersionRead
      <3> QED
        BY <3>1, <3>2
    <2> QED
      BY <2>2, <2>3 DEF EditReads
  <1>3. TableInv' /\ TxInv' /\ RefusedInv'
    BY <1>1 DEF AppInv, TableInv, TxInv, RefusedInv
  <1>4. RequestInv'
    BY <1>1, <1>2 DEF AppInv, RequestInv
  <1>5. appOps' \in 0 .. MaxAppOps
    BY <1>6, <1>7, AppAssumption
  <1> QED
    BY <1>1, <1>3, <1>4, <1>5 DEF AppInv, CountInv

\* An edit writes over the row that has its id, if there still is one.
LEMMA EditWriteKeeps ==
  ASSUME AppInv, NEW a \in Admins, UpdateAppWrite(a) \/ UpdateVersionWrite(a)
  PROVE  AppInv'
  <1>1. /\ ~ tx.open /\ editing' = [editing EXCEPT ![a] = NoEdit]
        /\ UNCHANGED <<tx, visitor, stripped, refused, appOps>>
    BY DEF UpdateAppWrite, UpdateVersionWrite
  <1>2. TxInv' /\ RefusedInv'
    BY <1>1 DEF AppInv, TxInv, RefusedInv
  <1>3. RequestInv'
    BY <1>1 DEF AppInv, RequestInv, EditRows
  <1>4. TableInv' /\ renamed' \in BOOLEAN
    <2>1. editing[a] \in EditRows /\ Fits(catalog, stripped) /\ (renamed \/ Distinct(catalog)) /\ renamed \in BOOLEAN
      BY DEF AppInv, RequestInv, TableInv, CountInv
    <2>2. CASE UpdateAppWrite(a)
      <3> DEFINE rows == {app \in catalog.apps : app.slug = editing[a].slug}
                 name == editing[a].name
                 image == editing[a].image
                 Rewritten(r) == [r EXCEPT !.name = name, !.image = image]
                 new == {Rewritten(r) : r \in rows}
      <3>1. name \in Names /\ image \in Images
        BY <2>1, <2>2, EditFields DEF UpdateAppWrite
      <3>2. CASE UNCHANGED <<catalog, renamed>>
        BY <1>1, <2>1, <3>2 DEF TableInv
      <3>3. CASE /\ catalog' = [catalog EXCEPT !.apps = (@ \ rows) \cup {Rewritten(r) : r \in rows}]
                 /\ renamed' = (renamed \/ \E r \in rows : r.name # name)
        <4>1. rows \in SUBSET catalog.apps /\ Renamings(rows, new, name, image)
          BY DEF Renamings
        <4>5. catalog' = [catalog EXCEPT !.apps = (@ \ rows) \cup new]
          BY <3>3
        <4> HIDE DEF rows, name, image, new
        <4>2. /\ Fits(catalog', stripped)
              /\ Distinct(catalog) /\ (\A r \in rows : r.name = name) => Distinct(catalog')
          BY <2>1, <3>1, <4>1, <4>5, RewrittenFits
        <4>3. renamed' \in BOOLEAN
          BY <3>3, Zenon
        <4>4. renamed' \/ (~ renamed /\ \A r \in rows : r.name = name)
          BY <3>3
        <4> QED
          BY <1>1, <2>1, <4>2, <4>3, <4>4 DEF TableInv
      <3> QED
        BY <2>2, <3>2, <3>3 DEF UpdateAppWrite
    <2>3. CASE UpdateVersionWrite(a)
      <3>1. editing[a].id \in Nat /\ editing[a].urls \in SUBSET {1, 2}
        BY <2>1, <2>3, EditFields DEF UpdateVersionWrite
      <3>2. Fits(catalog', stripped) /\ catalog'.apps = catalog.apps /\ renamed' = renamed
        <4> DEFINE id == editing[a].id
                   urls == editing[a].urls
                   new == {IF v.id = id THEN [v EXCEPT !.urls = urls] ELSE v : v \in catalog.versions}
        <4>1. Readdressings(catalog, new, id, urls)
          BY DEF Readdressings
        <4>2. catalog' = [catalog EXCEPT !.versions = new] /\ renamed' = renamed
          BY <2>3 DEF UpdateVersionWrite
        <4>3. id \in Nat /\ urls \in SUBSET {1, 2}
          BY <3>1
        <4> HIDE DEF id, urls, new
        <4>4. Fits(catalog', stripped) /\ catalog'.apps = catalog.apps
          <5>1. Fits(catalog, stripped) /\ catalog' = [catalog EXCEPT !.versions = new]
            BY <2>1, <4>2
          <5> QED
            BY <4>1, <4>3, <5>1, UrlsFit
        <4> QED
          BY <4>2, <4>4
      <3> QED
        BY <1>1, <2>1, <3>2 DEF TableInv, Distinct
    <2> QED
      BY <2>2, <2>3
  <1> QED
    BY <1>1, <1>2, <1>3, <1>4 DEF AppInv, CountInv

\* Visitors and administrators who only read change no table.
LEMMA VisitKeeps ==
  ASSUME AppInv, NEW v \in Visitors, AppReads(v)
  PROVE  AppInv'
  <1>1. catalog.apps \subseteq AppRows /\ catalog.versions \subseteq VersionRows
    BY DEF AppInv, TableInv, Fits, Catalogs
  <1>2. ASSUME NEW apps \in SUBSET catalog.apps, ReadApps(v, apps)
        PROVE  AppInv'
    <2>1. UNCHANGED <<catalog, tx, editing, renamed, stripped, refused>>
      BY <1>2 DEF ReadApps
    <2>2. [at |-> "listed", apps |-> apps] \in VisitorRows
      BY <1>1 DEF VisitorRows
    <2>3. RequestInv'
      BY <1>2, <2>1, <2>2 DEF ReadApps, AppInv, RequestInv
    <2>4. appOps' \in 0 .. MaxAppOps
      BY <1>2, AppAssumption DEF ReadApps, AppInv, CountInv
    <2> QED
      BY <2>1, <2>3, <2>4 DEF AppInv, TableInv, TxInv, RefusedInv, CountInv
  <1>3. ASSUME GetVersions(v) \/ Answered(v)
        PROVE  AppInv'
    <2>1. UNCHANGED <<catalog, tx, editing, renamed, stripped, refused, appOps>>
      BY <1>3 DEF GetVersions, Answered
    <2>2. RequestInv'
      <3>1. CASE GetVersions(v)
        <4> DEFINE items == {[app |-> app, versions |-> VersionsOf(catalog, app)] : app \in visitor[v].apps}
        <4>1. visitor[v].at = "listed" /\ visitor[v] \in VisitorRows
          BY <3>1 DEF GetVersions, AppInv, RequestInv
        <4>2. visitor[v].apps \subseteq AppRows
          BY <4>1 DEF VisitorRows, Idle
        <4>3. items \subseteq [app : AppRows, versions : SUBSET VersionRows]
          BY <1>1, <4>2 DEF VersionsOf
        <4>4. visitor' = [visitor EXCEPT ![v] = [at |-> "answered", items |-> items]]
          BY <3>1 DEF GetVersions, AppInv, RequestInv
        <4> HIDE DEF items
        <4>5. [at |-> "answered", items |-> items] \in VisitorRows
          BY <4>3 DEF VisitorRows
        <4> QED
          BY <2>1, <4>4, <4>5 DEF AppInv, RequestInv
      <3>2. CASE Answered(v)
        BY <2>1, <3>2 DEF Answered, AppInv, RequestInv, VisitorRows
      <3> QED
        BY <1>3, <3>1, <3>2
    <2> QED
      BY <2>1, <2>2 DEF AppInv, TableInv, TxInv, RefusedInv, CountInv
  <1>4. (\E apps \in SUBSET catalog.apps : ReadApps(v, apps)) \/ GetVersions(v) \/ Answered(v)
    BY DEF AppReads, search, Search, browseByCategory, SearchByCategory, AdminList, SearchAll, AdminGet, GetBySlug
  <1> QED
    BY <1>2, <1>3, <1>4

\* Every action keeps the invariant, by its own lemma.
LEMMA AppInvHolds == AppSpec => []AppInv
  <1>1. AppInit => AppInv
    BY AppInvInit
  <1>2. AppInv /\ [AppNext]_appVars => AppInv'
    <2> SUFFICES ASSUME AppInv, [AppNext]_appVars PROVE AppInv'
      OBVIOUS
    <2>1. CASE AppWrites
      BY <2>1, UpsertKeeps, BulkBeginKeeps, BulkEntryKeeps, BulkEndKeeps, DeletionKeeps
      DEF AppWrites, AdminAdd, AdminBulkAdd, BulkUpsert
    <2>2. CASE \E a \in Admins : AdminEdit(a) \/ AdminEditVersion(a)
      BY <2>2, EditReadKeeps, EditWriteKeeps DEF AdminEdit, AdminEditVersion, EditReads
    <2>3. CASE \E v \in Visitors : AppReads(v)
      BY <2>3, VisitKeeps
    <2>4. CASE UNCHANGED appVars
      BY <2>4 DEF appVars, AppInv, TableInv, TxInv, RefusedInv, RequestInv, CountInv
    <2> QED
      BY <2>1, <2>2, <2>3, <2>4 DEF AppNext
  <1> QED
    BY <1>1, <1>2, PTL DEF AppSpec

\* AppsFit: ids are given once and ON DELETE CASCADE takes the versions along,
\* an upsert is all or nothing, a bulk request reports what it left bare, and
\* a free suffix is free when it is used, since one transaction writes.
THEOREM AppsKeepFitting == AppSpec => []AppsFit
  <1>1. AppInv => AppsFit
    <2> SUFFICES ASSUME AppInv PROVE AppsFit
      OBVIOUS
    <2>1. AppTypeOK
      <3>1. CatalogOK(catalog) /\ (tx.open => CatalogOK(tx.catalog))
        BY DEF AppInv, TableInv, TxInv, Fits, Catalogs, CatalogOK
      <3>2. \A v \in Visitors : visitor[v].at = "listed" => visitor[v].apps \subseteq AppRows
        BY DEF AppInv, RequestInv, VisitorRows, Idle
      <3>3. \A a \in Admins : editing[a].of \in {"nothing", "app", "version"}
        BY EditFields DEF AppInv, RequestInv
      <3> QED
        BY <3>1, <3>2, <3>3 DEF AppTypeOK, AppInv, RefusedInv, CountInv
    <2>2. VersionsHaveApps
      BY DEF AppInv, TableInv, Fits, Owned, Keyed, VersionsHaveApps
    <2>3. NoBareApps /\ AlikeOnlyByRenaming /\ RefusedOnlyByClock
      BY DEF AppInv, TableInv, Fits, BareOnly, Distinct, RefusedInv, NoBareApps, AlikeOnlyByRenaming,
             RefusedOnlyByClock
    <2> QED
      BY <2>1, <2>2, <2>3 DEF AppsFit
  <1> QED
    BY <1>1, AppInvHolds, PTL

-----------------------------------------------------------------------------
(* Bulk requests, and what visitors are answered.                          *)

\* The places passed on are the valid ones, each once.
LEMMA IndexedPlaces ==
  ASSUME NEW valid \in Seq(BOOLEAN)
  PROVE  /\ Indexed(valid) \in Seq(Nat)
         /\ \A k \in 1 .. Len(Indexed(valid)) : Indexed(valid)[k] \in DOMAIN valid /\ valid[Indexed(valid)[k]]
         /\ \A i \in DOMAIN valid : valid[i] => \E k \in 1 .. Len(Indexed(valid)) : Indexed(valid)[k] = i
         /\ \A j, k \in 1 .. Len(Indexed(valid)) : Indexed(valid)[j] = Indexed(valid)[k] => j = k
  <1> DEFINE s == [i \in DOMAIN valid |-> i]
             T == {i \in DOMAIN valid : valid[i]}
             t == Kept(s, T)
  <1>0. DOMAIN valid = 1 .. Len(valid) /\ Len(valid) \in Nat
    BY LenProperties
  <1>1. s \in Seq(Nat) /\ Len(s) = Len(valid) /\ \A i \in 1 .. Len(valid) : s[i] = i
    BY <1>0
  <1>2. t \in Seq(Nat) /\ \E p : Selects(p, t, s, T, Len(s))
    <2> HIDE DEF s, T
    <2> QED
      BY <1>1, KeptSelects
  <1> HIDE DEF s, t
  <1>3. PICK p : Selects(p, t, s, T, Len(valid))
    BY <1>1, <1>2
  <1>4. Len(t) \in Nat
    BY <1>2, LenProperties
  <1>5. \A k \in 1 .. Len(t) : p[k] \in 1 .. Len(valid)
    BY <1>3 DEF Selects
  <1>6. \A k \in 1 .. Len(t) : t[k] = p[k] /\ t[k] \in T
    BY <1>1, <1>3, <1>5 DEF Selects
  <1>7. \A i \in 1 .. Len(valid) : i \in T => \E k \in 1 .. Len(t) : p[k] = i
    BY <1>1, <1>3 DEF Selects
  <1>8. \A j, k \in 1 .. Len(t) : j < k => p[j] < p[k]
    BY <1>3 DEF Selects
  <1>9. \A j, k \in 1 .. Len(t) : t[j] = t[k] => j = k
    <2> SUFFICES ASSUME NEW j \in 1 .. Len(t), NEW k \in 1 .. Len(t), t[j] = t[k] PROVE j = k
      OBVIOUS
    <2>1. p[j] = p[k] /\ p[j] \in Nat
      BY <1>5, <1>6
    <2>2. ~ (j < k) /\ ~ (k < j)
      BY <1>8, <2>1
    <2> QED
      BY <2>2, <1>4
  <1>10. Indexed(valid) = t
    BY DEF Indexed, s, t
  <1> QED
    BY <1>0, <1>2, <1>6, <1>7, <1>9, <1>10

\* A report that was made entry by entry.
LEMMA ReportNamesAll ==
  ASSUME NEW valid \in Seq(BOOLEAN), NEW errors \in SUBSET (1 .. Len(Indexed(valid))), NEW applied,
         applied = {Indexed(valid)[k] : k \in (1 .. Len(Indexed(valid))) \ errors}
  PROVE  Truthful(Report(valid, applied, errors))
  <1> DEFINE t == Indexed(valid)
             r == Report(valid, applied, errors)
  <1>1. DOMAIN valid = 1 .. Len(valid) /\ \A i \in DOMAIN valid : valid[i] \in BOOLEAN
    BY LenProperties, ElementOfSeq
  <1>2. /\ \A k \in 1 .. Len(t) : t[k] \in DOMAIN valid /\ valid[t[k]]
        /\ \A i \in DOMAIN valid : valid[i] => \E k \in 1 .. Len(t) : t[k] = i
        /\ \A j, k \in 1 .. Len(t) : t[j] = t[k] => j = k
    BY IndexedPlaces
  <1>3. r.applied = applied /\ r.valid = valid /\ r.is = "committed"
        /\ r.failed = {i \in DOMAIN valid : ~ valid[i]} \cup {t[e] : e \in errors}
    BY DEF Report, Failed
  <1>5. applied = {t[k] : k \in (1 .. Len(t)) \ errors}
    OBVIOUS
  <1> HIDE DEF t, r
  <1>6. errors \subseteq 1 .. Len(t)
    BY DEF t
  <1>4. applied \cup r.failed = 1 .. Len(valid) /\ applied \cap r.failed = {}
    <2>1. \A k \in 1 .. Len(t) : t[k] \in applied \cup r.failed
      BY <1>3, <1>5
    <2>2. 1 .. Len(valid) \subseteq applied \cup r.failed
      BY <1>1, <1>2, <1>3, <2>1
    <2>3. applied \subseteq 1 .. Len(valid)
      <3> SUFFICES ASSUME NEW k \in (1 .. Len(t)) \ errors PROVE t[k] \in 1 .. Len(valid)
        BY <1>5
      <3> QED
        BY <1>1, <1>2
    <2>5. r.failed \subseteq 1 .. Len(valid)
      <3>1. \A e \in errors : t[e] \in 1 .. Len(valid)
        BY <1>1, <1>2, <1>6
      <3> QED
        BY <1>1, <1>3, <3>1
    <2>4. ASSUME NEW i \in applied, i \in r.failed PROVE FALSE
      <3>1. PICK k \in (1 .. Len(t)) \ errors : i = t[k]
        BY <1>5
      <3>2. PICK e \in errors : i = t[e]
        BY <1>2, <1>3, <2>4, <3>1
      <3> QED
        BY <1>2, <1>6, <3>1, <3>2
    <2> QED
      BY <2>2, <2>3, <2>4, <2>5
  <1> QED
    BY <1>1, <1>3, <1>4 DEF Truthful, r

\* A request that was refused as a whole names an entry that was passed on.
LEMMA RefusalNamesOne ==
  ASSUME NEW valid \in Seq(BOOLEAN)
  PROVE  Truthful(Refusal(valid))
  <1> DEFINE t == Indexed(valid)
  <1>1. CASE t = <<>>
    BY <1>1 DEF Refusal, Truthful
  <1>2. CASE t # <<>>
    <2>1. t \in Seq(Nat) /\ Len(t) \in Nat /\ Len(t) # 0
      BY <1>2, IndexedPlaces, LenProperties, EmptySeq
    <2>2. t[1] \in DOMAIN valid /\ valid[t[1]]
      BY <2>1, IndexedPlaces
    <2>3. t[1] \in Failed(valid, {1})
      BY DEF Failed
    <2> HIDE DEF t
    <2>4. Refusal(valid) = [is |-> "refused", valid |-> valid, applied |-> {}, failed |-> Failed(valid, {1})]
      BY <1>2 DEF Refusal, t
    <2> QED
      BY <2>2, <2>3, <2>4 DEF Truthful
  <1> QED
    BY <1>1, <1>2

\* What an open bulk request has done so far: next is the first place that is
\* left, and every one before is applied or an error.
Tallied(valid, next, errors, applied) ==
  /\ valid \in Seq(BOOLEAN)
  /\ next \in 1 .. Len(Indexed(valid)) + 1
  /\ errors \subseteq 1 .. next - 1
  /\ applied = {Indexed(valid)[k] : k \in (1 .. next - 1) \ errors}

\* The next entry is tallied, as applied or as failed.
LEMMA TallyGrows ==
  ASSUME NEW valid, NEW next, NEW errors, NEW applied, Tallied(valid, next, errors, applied),
         next <= Len(Indexed(valid))
  PROVE  /\ Tallied(valid, next + 1, errors, applied \cup {Indexed(valid)[next]})
         /\ Tallied(valid, next + 1, errors \cup {next}, applied)
  <1> DEFINE t == Indexed(valid)
  <1>1. t \in Seq(Nat) /\ Len(t) \in Nat
    BY IndexedPlaces, LenProperties DEF Tallied
  <1>2. valid \in Seq(BOOLEAN) /\ next \in 1 .. Len(t) + 1 /\ errors \subseteq 1 .. next - 1 /\ next <= Len(t)
        /\ applied = {t[k] : k \in (1 .. next - 1) \ errors}
    BY DEF Tallied
  <1> HIDE DEF t
  <1>3. next + 1 \in 1 .. Len(t) + 1 /\ (next + 1) - 1 = next /\ next \in Nat
    BY <1>1, <1>2
  <1>4. (1 .. next) \ errors = ((1 .. next - 1) \ errors) \cup {next}
    BY <1>2, <1>3
  <1>5. (1 .. next) \ (errors \cup {next}) = (1 .. next - 1) \ errors
    BY <1>2, <1>3
  <1>6. applied \cup {t[next]} = {t[k] : k \in (1 .. next) \ errors}
    BY <1>2, <1>4
  <1>7. applied = {t[k] : k \in (1 .. next) \ (errors \cup {next})}
    BY <1>2, <1>5
  <1>8. errors \subseteq 1 .. next /\ errors \cup {next} \subseteq 1 .. next
    BY <1>2, <1>3
  <1>9. valid \in Seq(BOOLEAN) /\ next + 1 \in 1 .. Len(Indexed(valid)) + 1
    BY <1>2, <1>3 DEF t
  <1> QED
    BY <1>3, <1>6, <1>7, <1>8, <1>9 DEF Tallied, t

\* When all have been tallied, the report is true.
LEMMA TallyTells ==
  ASSUME NEW valid, NEW next, NEW errors, NEW applied, Tallied(valid, next, errors, applied),
         next > Len(Indexed(valid))
  PROVE  Truthful(Report(valid, applied, errors))
  <1> DEFINE t == Indexed(valid)
  <1>1. t \in Seq(Nat) /\ Len(t) \in Nat
    BY IndexedPlaces, LenProperties DEF Tallied
  <1>2. next - 1 = Len(t)
    BY <1>1 DEF Tallied
  <1>3. valid \in Seq(BOOLEAN) /\ errors \in SUBSET (1 .. Len(t)) /\ applied = {t[k] : k \in (1 .. Len(t)) \ errors}
    BY <1>2 DEF Tallied
  <1> QED
    BY <1>3, ReportNamesAll

\* At first nothing has been tallied.
LEMMA TallyStarts ==
  ASSUME NEW valid \in Seq(BOOLEAN)
  PROVE  Tallied(valid, 1, {}, {})
  <1>1. Len(Indexed(valid)) \in Nat
    BY IndexedPlaces, LenProperties
  <1>2. 1 \in 1 .. Len(Indexed(valid)) + 1 /\ (1 .. 1 - 1) \ {} = {}
    BY <1>1
  <1> QED
    BY <1>2 DEF Tallied

-----------------------------------------------------------------------------
\* What is tallied in an open transaction, and the last report.
AppTallied ==
  /\ tx.open => /\ tx \in [open : {TRUE}, catalog : Catalogs, valid : {tx.valid}, next : {tx.next},
                           errors : {tx.errors}, applied : {tx.applied}, stripped : {tx.stripped},
                           refused : {tx.refused}]
                /\ Tallied(tx.valid, tx.next, tx.errors, tx.applied)
  /\ Truthful(report)

\* BulkReported, by the tally of the open transaction.
LEMMA AppReports == AppSpec => []BulkReported
  <1>1. AppInit => AppTallied
    BY DEF AppInit, NoTx, NoReport, AppTallied, Truthful
  <1>2. AppInv /\ AppInv' /\ AppTallied /\ [AppNext]_appVars => AppTallied'
    <2> SUFFICES ASSUME AppInv, AppInv', AppTallied, [AppNext]_appVars PROVE AppTallied'
      OBVIOUS
    <2>1. CASE UNCHANGED <<tx, report>>
      BY <2>1 DEF AppTallied
    <2>2. ASSUME NEW size \in 1 .. MaxBulk, NEW valid \in [1 .. size -> BOOLEAN], BulkBegin(valid)
          PROVE  AppTallied'
      <3>1. valid \in Seq(BOOLEAN)
        BY AppAssumption
      <3>2. tx'.valid = valid /\ tx'.next = 1 /\ tx'.errors = {} /\ tx'.applied = {} /\ report' = report
        BY <2>2 DEF BulkBegin
      <3>3. Tallied(valid, 1, {}, {})
        BY <3>1, TallyStarts
      <3>4. tx'.open
        BY <2>2 DEF BulkBegin
      <3> QED
        BY <3>2, <3>3, <3>4 DEF AppTallied, AppInv, TxInv
    <2>3. ASSUME NEW n \in Names, NEW text \in VersionTexts, NEW image \in Images, BulkEntry(n, text, image)
          PROVE  AppTallied'
      <3>1. /\ tx.open /\ tx.next <= Len(Indexed(tx.valid)) /\ report' = report
            /\ Tallied(tx.valid, tx.next, tx.errors, tx.applied)
        BY <2>3 DEF BulkEntry, AppTallied
      <3>2. /\ tx'.valid = tx.valid /\ tx'.next = tx.next + 1 /\ tx'.open
            /\ \/ tx'.errors = tx.errors /\ tx'.applied = tx.applied \cup {Indexed(tx.valid)[tx.next]}
               \/ tx'.errors = tx.errors \cup {tx.next} /\ tx'.applied = tx.applied
        <4>1. tx \in [open : {TRUE}, catalog : Catalogs, valid : {tx.valid}, next : {tx.next},
                           errors : {tx.errors}, applied : {tx.applied}, stripped : {tx.stripped},
                           refused : {tx.refused}]
          BY <3>1 DEF AppTallied
        <4>2. ASSUME NEW c, NEW done, tx' = [tx EXCEPT !.catalog = c, !.next = @ + 1,
                            !.applied = @ \cup {done}]
              PROVE  /\ tx'.valid = tx.valid /\ tx'.next = tx.next + 1 /\ tx'.open
                     /\ tx'.errors = tx.errors /\ tx'.applied = tx.applied \cup {done}
          BY <4>1, <4>2
        <4>3. ASSUME NEW c, NEW no, NEW cut, tx' = [tx EXCEPT !.catalog = c, !.next = @ + 1, !.errors = @ \cup {tx.next},
                               !.refused = @ \cup no, !.stripped = @ \cup cut]
              PROVE  /\ tx'.valid = tx.valid /\ tx'.next = tx.next + 1 /\ tx'.open
                     /\ tx'.errors = tx.errors \cup {tx.next} /\ tx'.applied = tx.applied
          BY <4>1, <4>3
        <4> QED
          <5>1. CASE \E c \in Entered(tx.catalog, n, text, image) :
                       tx' = [tx EXCEPT !.catalog = c, !.next = @ + 1,
                                        !.applied = @ \cup {Indexed(tx.valid)[tx.next]}]
            BY <4>2, <5>1
          <5>2. CASE \E c \in HalfEntered(tx.catalog, n, text, image) :
                       tx' = [tx EXCEPT !.catalog = c, !.next = @ + 1, !.errors = @ \cup {tx.next},
                               !.refused = @ \cup Refusals(tx.catalog, n),
                               !.stripped = @ \cup {a.born : a \in c.apps \ tx.catalog.apps}]
            BY <4>3, <5>2
          <5> QED
            BY <2>3, <5>1, <5>2 DEF BulkEntry
      <3>3. Tallied(tx'.valid, tx'.next, tx'.errors, tx'.applied)
        <4>1. /\ Tallied(tx.valid, tx.next + 1, tx.errors, tx.applied \cup {Indexed(tx.valid)[tx.next]})
              /\ Tallied(tx.valid, tx.next + 1, tx.errors \cup {tx.next}, tx.applied)
          BY <3>1, TallyGrows
        <4> QED
          BY <3>2, <4>1
      <3> QED
        BY <3>1, <3>2, <3>3 DEF AppTallied, AppInv, TxInv
    <2>4. CASE BulkCommit
      <3>1. tx' = NoTx /\ report' = Report(tx.valid, tx.applied, tx.errors)
            /\ tx.next > Len(Indexed(tx.valid)) /\ Tallied(tx.valid, tx.next, tx.errors, tx.applied)
        BY <2>4 DEF BulkCommit, AppTallied
      <3>2. Truthful(report')
        BY <3>1, TallyTells
      <3> QED
        BY <3>1, <3>2 DEF AppTallied, NoTx
    <2>5. CASE BulkRollback
      <3>1. tx' = NoTx /\ tx.valid \in Seq(BOOLEAN) /\ report' \in {Refusal(tx.valid), NoReport}
        BY <2>5 DEF BulkRollback, AppTallied, Tallied
      <3>2. Truthful(report')
        BY <3>1, RefusalNamesOne DEF NoReport, Truthful
      <3> QED
        BY <3>1, <3>2 DEF AppTallied, NoTx
    <2>6. CASE AppWrites
      <3>1. ASSUME NEW n \in Names, NEW text \in VersionTexts, NEW image \in Images, AdminAdd(n, text, image)
            PROVE  UNCHANGED <<tx, report>>
        BY <3>1 DEF AdminAdd, Upsert
      <3>2. ASSUME AdminDelete \/ AdminDeleteVersion
            PROVE  UNCHANGED <<tx, report>>
        BY <3>2 DEF AdminDelete, AdminDeleteVersion, DeleteApp, DeleteVersion
      <3> QED
        BY <2>1, <2>2, <2>3, <2>4, <2>5, <2>6, <3>1, <3>2 DEF AppWrites, AdminBulkAdd, BulkUpsert
    <2>7. CASE \E a \in Admins : AdminEdit(a) \/ AdminEditVersion(a)
      BY <2>1, <2>7 DEF AdminEdit, AdminEditVersion, UpdateAppRead, UpdateAppWrite, UpdateVersionRead, UpdateVersionWrite
    <2>8. CASE \E v \in Visitors : AppReads(v)
      BY <2>1, <2>8 DEF AppReads, search, Search, browseByCategory, SearchByCategory, AdminList, SearchAll,
                        AdminGet, GetBySlug, ReadApps, GetVersions, Answered
    <2>9. CASE UNCHANGED appVars
      BY <2>1, <2>9 DEF appVars
    <2> QED
      BY <2>6, <2>7, <2>8, <2>9 DEF AppNext
  <1>3. AppTallied => BulkReported
    BY DEF AppTallied, BulkReported
  <1> QED
    BY <1>1, <1>2, <1>3, AppInvHolds, PTL DEF AppSpec

-----------------------------------------------------------------------------
\* From c to d no application got a number that was given before.
Grown(c, d) ==
  /\ d.nextApp >= c.nextApp
  /\ \A a \in d.apps : a.born >= c.nextApp \/ \E b \in c.apps : b.born = a.born

\* Growing is reflexive.
LEMMA GrownSame ==
  ASSUME NEW c, c.nextApp \in Nat, NEW d, d.nextApp = c.nextApp,
         \A a \in d.apps : \E b \in c.apps : b.born = a.born
  PROVE  Grown(c, d)
  BY DEF Grown

\* It is transitive.
LEMMA GrownOn ==
  ASSUME NEW c \in Catalogs, NEW d \in Catalogs, NEW e \in Catalogs, Grown(c, d), Grown(d, e)
  PROVE  Grown(c, e)
  <1>1. c.nextApp \in Nat /\ d.nextApp \in Nat /\ e.nextApp \in Nat
    BY DEF Catalogs
  <1>2. \A a \in e.apps : a.born \in Nat
    BY RowFields DEF Catalogs
  <1> QED
    BY <1>1, <1>2 DEF Grown

\* A catalog grows with a version.
LEMMA VersionGrows ==
  ASSUME NEW c \in Catalogs, NEW app, NEW text
  PROVE  /\ InsertVersion(c, app, text).apps = c.apps
         /\ InsertVersion(c, app, text).nextApp = c.nextApp
  <1> DEFINE row == [id |-> c.nextVersion, app |-> app.id, born |-> app.born, text |-> text, urls |-> {}]
             c2 == InsertVersion(c, app, text)
  <1>1. c2 = [c EXCEPT !.versions = @ \cup {row}, !.nextVersion = @ + 1]
    BY DEF InsertVersion
  <1> HIDE DEF row, c2
  <1>2. c2.apps = c.apps /\ c2.nextApp = c.nextApp
    BY <1>1 DEF Catalogs
  <1> QED
    BY <1>2 DEF c2

\* A catalog grows with an application.
LEMMA AppGrows ==
  ASSUME NEW c \in Catalogs, NEW n, NEW slug, NEW image
  PROVE  LET d == InsertApp(c, NewApp(c, n, slug, image)) IN
         Grown(c, d)
  <1> DEFINE app == NewApp(c, n, slug, image)
             d == InsertApp(c, app)
  <1>1. app.born = c.nextApp /\ c.nextApp \in Nat
    BY DEF NewApp, Catalogs
  <1>2. d = [c EXCEPT !.apps = @ \cup {app}, !.nextApp = @ + 1]
    BY DEF InsertApp
  <1> HIDE DEF app, d
  <1>3. d.apps = c.apps \cup {app} /\ d.nextApp = c.nextApp + 1
    BY <1>2 DEF Catalogs
  <1>4. Grown(c, d)
    BY <1>1, <1>3 DEF Grown
  <1> QED
    BY <1>4 DEF app, d

\* A catalog grows with an image.
LEMMA ImageGrows ==
  ASSUME NEW c \in Catalogs, NEW app \in c.apps, NEW image
  PROVE  Grown(c, SetImage(c, app, image)) /\ SetImage(c, app, image).nextApp = c.nextApp
  <1> DEFINE d == SetImage(c, app, image)
             row == [app EXCEPT !.image = image]
  <1>1. app \in AppRows /\ c.nextApp \in Nat
    BY DEF Catalogs
  <1>2. row.born = app.born
    BY <1>1 DEF AppRows
  <1>3. d = c \/ d = [c EXCEPT !.apps = (@ \ {app}) \cup {row}]
    BY DEF SetImage
  <1> HIDE DEF d, row
  <1>4. d.nextApp = c.nextApp /\ d.apps \subseteq c.apps \cup {row}
    BY <1>3 DEF Catalogs
  <1>5. \A a \in d.apps : \E b \in c.apps : b.born = a.born
    BY <1>2, <1>4
  <1>6. Grown(c, d)
    BY <1>1, <1>4, <1>5, GrownSame
  <1> QED
    BY <1>4, <1>6 DEF d

\* A catalog grows with an entry of a request.
LEMMA EntryGrows ==
  ASSUME NEW c, NEW cut, Fits(c, cut), NEW n \in Names, NEW text \in VersionTexts, NEW image \in Images,
         NEW d \in Entered(c, n, text, image) \cup HalfEntered(c, n, text, image)
  PROVE  Grown(c, d)
  <1>0. c \in Catalogs /\ c.nextApp \in Nat
    BY DEF Fits, Catalogs
  <1>1. CASE d = c
    BY <1>0, <1>1, GrownSame
  <1>2. ASSUME NEW slug \in SlugsFor(c, n) \ Taken(c), NamedLike(c, n) = {}
        PROVE  LET d1 == InsertApp(c, NewApp(c, n, slug, image)) IN
               /\ Grown(c, d1)
               /\ d = InsertVersion(d1, NewApp(c, n, slug, image), text) => Grown(c, d)
    <2> DEFINE d1 == InsertApp(c, NewApp(c, n, slug, image))
    <2>1. slug \in Slugs
      BY <1>0, NewSlugs
    <2>2. d1 \in Catalogs
      BY <1>2, <2>1, AppFits DEF Fits
    <2>3. Grown(c, d1)
      BY <1>0, AppGrows
    <2> HIDE DEF d1
    <2>4. ASSUME d = InsertVersion(d1, NewApp(c, n, slug, image), text) PROVE Grown(c, d)
      <3>1. d.apps = d1.apps /\ d.nextApp = d1.nextApp
        BY <2>2, <2>4, VersionGrows
      <3> QED
        BY <2>3, <3>1 DEF Grown
    <2> QED
      BY <2>3, <2>4 DEF d1
  <1>3. ASSUME NEW app \in NamedLike(c, n)
        PROVE  /\ Grown(c, SetImage(c, app, image))
               /\ d = InsertVersion(SetImage(c, app, image), app, text) => Grown(c, d)
    <2> DEFINE d1 == SetImage(c, app, image)
    <2>1. app \in c.apps
      BY DEF NamedLike
    <2>2. d1 \in Catalogs
      BY <2>1, ImageFits DEF Fits
    <2>3. Grown(c, d1)
      BY <1>0, <2>1, ImageGrows
    <2> HIDE DEF d1
    <2>4. ASSUME d = InsertVersion(d1, app, text) PROVE Grown(c, d)
      <3>1. d.apps = d1.apps /\ d.nextApp = d1.nextApp
        BY <2>2, <2>4, VersionGrows
      <3> QED
        BY <2>3, <3>1 DEF Grown
    <2> QED
      BY <2>3, <2>4 DEF d1
  <1>4. CASE d \in Entered(c, n, text, image)
    <2>1. CASE NamedLike(c, n) = {}
      <3>1. PICK slug \in SlugsFor(c, n) \ Taken(c) :
              d = InsertVersion(InsertApp(c, NewApp(c, n, slug, image)), NewApp(c, n, slug, image), text)
        BY <1>4, <2>1 DEF Entered
      <3> QED
        BY <1>2, <2>1, <3>1
    <2>2. CASE NamedLike(c, n) # {}
      <3>1. PICK app \in NamedLike(c, n) :
              d = IF HasVersion(c, app, text) THEN c ELSE InsertVersion(SetImage(c, app, image), app, text)
        BY <1>4, <2>2 DEF Entered
      <3> QED
        BY <1>1, <1>3, <3>1
    <2> QED
      BY <2>1, <2>2
  <1>5. CASE d \in HalfEntered(c, n, text, image) /\ d # c
    <2>1. CASE NamedLike(c, n) = {}
      <3>1. PICK slug \in SlugsFor(c, n) \ Taken(c) : d = InsertApp(c, NewApp(c, n, slug, image))
        BY <1>5, <2>1 DEF HalfEntered
      <3> QED
        BY <1>2, <2>1, <3>1
    <2>2. CASE NamedLike(c, n) # {}
      <3>1. PICK app \in NamedLike(c, n) : d = SetImage(c, app, image)
        BY <1>5, <2>2 DEF HalfEntered
      <3> QED
        BY <1>3, <3>1
    <2> QED
      BY <2>1, <2>2
  <1> QED
    BY <1>1, <1>4, <1>5

\* What a visitor has read or been answered is of applications that are there
\* or gone, never of ones to come.
VisitInv ==
  \A v \in Visitors :
    /\ visitor[v].at = "listed" => \A a \in visitor[v].apps : a.born = a.id /\ a.id < catalog.nextApp
    /\ visitor[v].at = "answered" => \A item \in visitor[v].items :
         /\ item.app.born < catalog.nextApp
         /\ \A version \in item.versions : version.born = item.app.born
         /\ item.versions = {} => \/ item.app.born \in stripped
                                  \/ \A a \in catalog.apps : a.born # item.app.born

\* A transaction works on a catalog that has grown out of the committed one.
TxGrown == tx.open => Grown(catalog, tx.catalog)

\* The catalog, committed or in a transaction, has its form.
LEMMA CatalogIs ==
  ASSUME AppInv
  PROVE  catalog \in Catalogs /\ catalog.nextApp \in Nat /\ (\A a \in catalog.apps : a.born \in Nat)
  BY RowFields DEF AppInv, TableInv, Fits, Catalogs

\* Writing gives no visitor's application a successor.
LEMMA VisitsKept ==
  ASSUME AppInv, AppInv', VisitInv, UNCHANGED visitor, Grown(catalog, catalog'), stripped \subseteq stripped'
  PROVE  VisitInv'
  <1>1. visitor' = visitor
    OBVIOUS
  <1>2. catalog.nextApp \in Nat /\ catalog'.nextApp \in Nat /\ catalog'.nextApp >= catalog.nextApp
    BY CatalogIs DEF Grown, AppInv, TableInv, Fits, Catalogs
  <1>3. \A v \in Visitors : visitor[v] \in VisitorRows
    BY DEF AppInv, RequestInv
  <1>4. ASSUME NEW v \in Visitors, visitor[v].at = "listed", NEW a \in visitor[v].apps
        PROVE  a.born = a.id /\ a.id < catalog'.nextApp
    <2>1. a \in AppRows
      BY <1>3, <1>4 DEF VisitorRows, Idle
    <2>2. a.id \in Nat
      BY <2>1, RowFields
    <2> QED
      BY <1>2, <1>4, <2>2 DEF VisitInv
  <1>5. ASSUME NEW v \in Visitors, visitor[v].at = "answered", NEW item \in visitor[v].items
        PROVE  /\ item.app.born < catalog'.nextApp
               /\ \A version \in item.versions : version.born = item.app.born
               /\ item.versions = {} => \/ item.app.born \in stripped'
                                        \/ \A a \in catalog'.apps : a.born # item.app.born
    <2>1. item \in [app : AppRows, versions : SUBSET VersionRows]
      BY <1>3, <1>5 DEF VisitorRows, Idle
    <2>2. item.app.born \in Nat
      BY <2>1, RowFields
    <2>3. /\ item.app.born < catalog.nextApp
          /\ \A version \in item.versions : version.born = item.app.born
          /\ item.versions = {} => \/ item.app.born \in stripped
                                   \/ \A a \in catalog.apps : a.born # item.app.born
      BY <1>5 DEF VisitInv
    <2>4. ASSUME \A a \in catalog.apps : a.born # item.app.born, NEW a \in catalog'.apps
          PROVE  a.born # item.app.born
      <3>1. a.born >= catalog.nextApp \/ \E b \in catalog.apps : b.born = a.born
        BY DEF Grown
      <3> QED
        BY <1>2, <2>2, <2>3, <2>4, <3>1
    <2> QED
      BY <1>2, <2>2, <2>3, <2>4
  <1> QED
    BY <1>1, <1>4, <1>5 DEF VisitInv

\* Writes give no id again: the catalog grows, and what is cut is on record.
LEMMA WritesAreNew ==
  ASSUME AppInv, AppInv', TxGrown, AppWrites
  PROVE  UNCHANGED visitor /\ Grown(catalog, catalog') /\ stripped \subseteq stripped' /\ TxGrown'
  <1>0. Fits(catalog, stripped) /\ catalog \in Catalogs /\ catalog.nextApp \in Nat
    BY CatalogIs DEF AppInv, TableInv
  <1>1. Grown(catalog, catalog)
    BY <1>0, GrownSame
  <1>2. ASSUME NEW n \in Names, NEW text \in VersionTexts, NEW image \in Images, AdminAdd(n, text, image)
        PROVE  UNCHANGED <<visitor, stripped>> /\ Grown(catalog, catalog') /\ TxGrown'
    <2>1. Grown(catalog, catalog')
      BY <1>0, <1>1, <1>2, EntryGrows DEF AdminAdd, Upsert
    <2> QED
      BY <1>2, <2>1 DEF AdminAdd, Upsert, TxGrown
  <1>3. ASSUME NEW valid, BulkBegin(valid)
        PROVE  UNCHANGED <<visitor, stripped>> /\ Grown(catalog, catalog') /\ TxGrown'
    <2>1. UNCHANGED <<visitor, stripped, catalog>> /\ tx'.catalog = catalog
      BY <1>3 DEF BulkBegin
    <2> QED
      BY <1>1, <2>1 DEF TxGrown
  <1>4. ASSUME NEW n \in Names, NEW text \in VersionTexts, NEW image \in Images, BulkEntry(n, text, image)
        PROVE  UNCHANGED <<visitor, stripped>> /\ Grown(catalog, catalog') /\ TxGrown'
    <2>1. tx.open /\ UNCHANGED <<visitor, stripped, catalog>>
      BY <1>4 DEF BulkEntry
    <2>2. /\ Fits(tx.catalog, stripped \cup tx.stripped) /\ tx.catalog \in Catalogs
          /\ tx \in [open : {TRUE}, catalog : Catalogs, valid : {tx.valid}, next : {tx.next},
                     errors : {tx.errors}, applied : {tx.applied}, stripped : {tx.stripped},
                     refused : {tx.refused}]
      BY <2>1 DEF AppInv, TxInv, Fits
    <2>3. PICK c \in Entered(tx.catalog, n, text, image) \cup HalfEntered(tx.catalog, n, text, image) :
            tx'.catalog = c
      <3>1. ASSUME NEW c, NEW done, tx' = [tx EXCEPT !.catalog = c, !.next = @ + 1, !.applied = @ \cup {done}]
            PROVE  tx'.catalog = c
        BY <2>2, <3>1
      <3>2. ASSUME NEW c, NEW no, NEW cut, tx' = [tx EXCEPT !.catalog = c, !.next = @ + 1, !.errors = @ \cup {tx.next},
                             !.refused = @ \cup no, !.stripped = @ \cup cut]
            PROVE  tx'.catalog = c
        BY <2>2, <3>2
      <3> QED
        BY <1>4, <3>1, <3>2 DEF BulkEntry
    <2>4. Grown(tx.catalog, c)
      BY <2>2, EntryGrows
    <2>5. c \in Catalogs
      BY <2>2, <2>3, EnteredFits, HalfEnteredFits DEF Fits
    <2>6. Grown(catalog, c)
      BY <1>0, <2>1, <2>2, <2>4, <2>5, GrownOn DEF TxGrown
    <2> QED
      BY <1>1, <2>1, <2>3, <2>6 DEF TxGrown
  <1>5. ASSUME BulkCommit \/ BulkRollback
        PROVE  UNCHANGED visitor /\ stripped \subseteq stripped' /\ Grown(catalog, catalog') /\ TxGrown'
    <2>1. tx.open /\ tx' = NoTx /\ UNCHANGED visitor /\ stripped \subseteq stripped' /\ catalog' \in {catalog, tx.catalog}
      BY <1>5 DEF BulkCommit, BulkRollback
    <2> QED
      BY <1>1, <2>1 DEF TxGrown, NoTx
  <1>6. ASSUME AdminDelete \/ AdminDeleteVersion
        PROVE  UNCHANGED visitor /\ stripped \subseteq stripped' /\ Grown(catalog, catalog') /\ TxGrown'
    <2>1. ~ tx.open /\ UNCHANGED <<visitor, tx>> /\ stripped \subseteq stripped'
      BY <1>6 DEF AdminDelete, AdminDeleteVersion, DeleteApp, DeleteVersion
    <2>2. catalog'.apps \subseteq catalog.apps /\ catalog'.nextApp = catalog.nextApp
      <3>1. ASSUME NEW app, catalog' = Deleted(catalog, app)
            PROVE  catalog'.apps \subseteq catalog.apps /\ catalog'.nextApp = catalog.nextApp
        <4> DEFINE lost == VersionsOf(catalog, app)
        <4>1. catalog' = [catalog EXCEPT !.apps = @ \ {app}, !.versions = @ \ lost]
          BY <3>1 DEF Deleted
        <4> HIDE DEF lost
        <4> QED
          BY <1>0, <4>1 DEF Catalogs
      <3>2. ASSUME NEW version, catalog' = [catalog EXCEPT !.versions = @ \ {version}]
            PROVE  catalog'.apps \subseteq catalog.apps /\ catalog'.nextApp = catalog.nextApp
        BY <1>0, <3>2 DEF Catalogs
      <3> QED
        BY <1>6, <3>1, <3>2 DEF AdminDelete, AdminDeleteVersion, DeleteApp, DeleteVersion
    <2>3. Grown(catalog, catalog')
      BY <1>0, <2>2, GrownSame
    <2> QED
      BY <2>1, <2>3 DEF TxGrown
  <1> QED
    BY <1>2, <1>3, <1>4, <1>5, <1>6 DEF AppWrites, AdminBulkAdd, BulkUpsert

\* Edits give no id again either.
LEMMA EditsAreNew ==
  ASSUME AppInv, AppInv', TxGrown, NEW a \in Admins, AdminEdit(a) \/ AdminEditVersion(a)
  PROVE  UNCHANGED visitor /\ Grown(catalog, catalog') /\ stripped \subseteq stripped' /\ TxGrown'
  <1>0. catalog \in Catalogs /\ catalog.nextApp \in Nat
    BY CatalogIs
  <1>1. ~ tx.open /\ UNCHANGED <<visitor, tx, stripped>>
    BY DEF AdminEdit, AdminEditVersion, UpdateAppRead, UpdateAppWrite, UpdateVersionRead, UpdateVersionWrite
  <1>2. Grown(catalog, catalog')
    <2>1. CASE catalog' = catalog
      BY <1>0, <2>1, GrownSame
    <2>2. CASE UpdateAppWrite(a) /\ catalog' # catalog
      <3> DEFINE rows == {app \in catalog.apps : app.slug = editing[a].slug}
                 Rewritten(app) == [app EXCEPT !.name = editing[a].name, !.image = editing[a].image]
                 new == {Rewritten(r) : r \in rows}
      <3>1. catalog' = [catalog EXCEPT !.apps = (@ \ rows) \cup new]
        BY <2>2 DEF UpdateAppWrite
      <3>2. \A r \in catalog.apps : Rewritten(r).born = r.born
        BY <1>0 DEF Catalogs, AppRows
      <3>3. \A x \in new : \E r \in catalog.apps : r.born = x.born
        BY <3>2
      <3> HIDE DEF rows, new
      <3>4. catalog'.apps = (catalog.apps \ rows) \cup new /\ catalog'.nextApp = catalog.nextApp
        BY <1>0, <3>1 DEF Catalogs
      <3>5. \A x \in catalog'.apps : \E b \in catalog.apps : b.born = x.born
        BY <3>3, <3>4
      <3> QED
        BY <1>0, <3>4, <3>5, GrownSame
    <2>3. CASE UpdateVersionWrite(a)
      <3> DEFINE new == {IF v.id = editing[a].id THEN [v EXCEPT !.urls = editing[a].urls] ELSE v : v \in catalog.versions}
      <3>1. catalog' = [catalog EXCEPT !.versions = new]
        BY <2>3 DEF UpdateVersionWrite
      <3> HIDE DEF new
      <3>2. catalog'.apps = catalog.apps /\ catalog'.nextApp = catalog.nextApp
        BY <1>0, <3>1 DEF Catalogs
      <3> QED
        BY <1>0, <3>2, GrownSame
    <2> QED
      BY <2>1, <2>2, <2>3 DEF AdminEdit, AdminEditVersion, UpdateAppRead, UpdateVersionRead
  <1> QED
    BY <1>1, <1>2 DEF TxGrown

\* A visit reads rows, then versions, of catalogs of which the later has grown.
LEMMA VisitsFit ==
  ASSUME AppInv, AppInv', VisitInv, TxGrown, NEW v \in Visitors, AppReads(v)
  PROVE  VisitInv' /\ TxGrown'
  <1>0. Fits(catalog, stripped) /\ visitor \in [Visitors -> VisitorRows]
    BY DEF AppInv, TableInv, RequestInv
  <1>1. UNCHANGED <<catalog, tx, stripped>>
    BY DEF AppReads, search, Search, browseByCategory, SearchByCategory, AdminList, SearchAll,
           AdminGet, GetBySlug, ReadApps, GetVersions, Answered
  <1>7. TxGrown'
    BY <1>1 DEF TxGrown
  <1>2. ASSUME NEW row, visitor' = [visitor EXCEPT ![v] = row],
               row.at = "listed" => \A a \in row.apps : a.born = a.id /\ a.id < catalog.nextApp,
               row.at = "answered" => \A item \in row.items :
                 /\ item.app.born < catalog.nextApp
                 /\ \A version \in item.versions : version.born = item.app.born
                 /\ item.versions = {} => \/ item.app.born \in stripped
                                          \/ \A a \in catalog.apps : a.born # item.app.born
        PROVE  VisitInv'
    <2>1. \A w \in Visitors : visitor'[w] = IF w = v THEN row ELSE visitor[w]
      BY <1>0, <1>2
    <2> QED
      BY <1>1, <1>2, <2>1 DEF VisitInv
  <1>3. ASSUME NEW apps \in SUBSET catalog.apps, ReadApps(v, apps) PROVE VisitInv'
    <2> DEFINE row == [at |-> "listed", apps |-> apps]
    <2>1. visitor' = [visitor EXCEPT ![v] = row] /\ row.at = "listed" /\ row.apps = apps
      BY <1>3 DEF ReadApps
    <2>2. \A a \in apps : a.born = a.id /\ a.id < catalog.nextApp
      BY <1>0 DEF Fits, Keyed
    <2> HIDE DEF row
    <2> QED
      BY <1>2, <2>1, <2>2
  <1>4. CASE GetVersions(v)
    <2> DEFINE items == {[app |-> app, versions |-> VersionsOf(catalog, app)] : app \in visitor[v].apps}
               row == [at |-> "answered", items |-> items]
    <2>1. visitor' = [visitor EXCEPT ![v] = row] /\ row.at = "answered" /\ row.items = items
      BY <1>0, <1>4 DEF GetVersions
    <2>2. \A app \in visitor[v].apps : app.born = app.id /\ app.id < catalog.nextApp
      BY <1>4 DEF GetVersions, VisitInv
    <2>3. ASSUME NEW item \in items
          PROVE  /\ item.app.born < catalog.nextApp
                 /\ \A version \in item.versions : version.born = item.app.born
                 /\ item.versions = {} => \/ item.app.born \in stripped
                                          \/ \A a \in catalog.apps : a.born # item.app.born
      <3>1. PICK app \in visitor[v].apps : item.app = app /\ item.versions = VersionsOf(catalog, app)
        OBVIOUS
      <3> HIDE DEF items
      <3>2. app.born = app.id /\ app.id < catalog.nextApp
        BY <2>2
      <3>3. \A version \in VersionsOf(catalog, app) : version.born = app.born
        BY <1>0, <3>2 DEF VersionsOf, Fits, Owned
      <3>4. ASSUME VersionsOf(catalog, app) = {}, NEW a \in catalog.apps, a.born = app.born
            PROVE  app.born \in stripped
        <4>1. VersionsOf(catalog, a) = {}
          BY <1>0, <3>2, <3>4 DEF VersionsOf, Fits, Keyed
        <4> QED
          BY <1>0, <3>4, <4>1 DEF Fits, BareOnly
      <3> QED
        BY <3>1, <3>2, <3>3, <3>4
    <2> HIDE DEF items, row
    <2> QED
      BY <1>2, <1>7, <2>1, <2>3
  <1>5. CASE Answered(v)
    <2>1. visitor' = [visitor EXCEPT ![v] = Idle] /\ Idle.at = "idle"
      BY <1>5 DEF Answered, Idle
    <2> QED
      BY <1>2, <1>7, <2>1
  <1>6. (\E apps \in SUBSET catalog.apps : ReadApps(v, apps)) \/ GetVersions(v) \/ Answered(v)
    BY DEF AppReads, search, Search, browseByCategory, SearchByCategory, AdminList, SearchAll, AdminGet, GetBySlug
  <1> QED
    BY <1>3, <1>4, <1>5, <1>6, <1>7

\* AppAnswersFit: ids are never given again, so the versions read for an answer
\* are those of the application read before, whatever was deleted, added or
\* edited between the two queries, and an answer without versions is of an
\* application that has none or is gone (batchGetVersions).
THEOREM AppAnswersKeepFitting == AppSpec => []AppAnswersFit
  <1>1. AppInit => VisitInv /\ TxGrown
    BY DEF AppInit, VisitInv, TxGrown, NoTx, Idle
  <1>2. AppInv /\ AppInv' /\ VisitInv /\ TxGrown /\ [AppNext]_appVars => VisitInv' /\ TxGrown'
    <2> SUFFICES ASSUME AppInv, AppInv', VisitInv, TxGrown, [AppNext]_appVars PROVE VisitInv' /\ TxGrown'
      OBVIOUS
    <2>1. CASE AppWrites
      BY <2>1, WritesAreNew, VisitsKept
    <2>2. CASE \E a \in Admins : AdminEdit(a) \/ AdminEditVersion(a)
      BY <2>2, EditsAreNew, VisitsKept
    <2>3. CASE \E v \in Visitors : AppReads(v)
      BY <2>3, VisitsFit
    <2>4. CASE UNCHANGED appVars
      BY <2>4 DEF appVars, VisitInv, TxGrown
    <2> QED
      BY <2>1, <2>2, <2>3, <2>4 DEF AppNext
  <1>3. VisitInv => AppAnswersFit
    BY DEF VisitInv, AppAnswersFit, AnswersAreOfOne, AnswersAreFull
  <1> QED
    BY <1>1, <1>2, <1>3, AppInvHolds, PTL DEF AppSpec

----------------------------------------------------------------------------
(* Movies, ebooks and albums. *)

\* What MediaEditsFit says of one row.
RowFits(kind, r) ==
  /\ kind = "movies" /\ r.meta \in FetchedMetas => r.meta = TmdbMeta[r.name]
  /\ r.links = r.wanted \/ r.stale

\* A table of one kind: its keys, its index and its rows.
TableFits(kind, c) ==
  /\ c \in [rows : SUBSET MediaRows, fts : {c.fts}, nextId : Nat]
  /\ \A r \in c.rows : r.id < c.nextId /\ RowFits(kind, r)
  /\ \A r, s \in c.rows : r.id = s.id \/ r.name = s.name => r = s
  /\ c.fts = {FtsOf(kind, r) : r \in c.rows}

\* No two keys differ in case only.
Unlike(kind, c) ==
  kind # "movies" => \A r, s \in c.rows : MediaLower[r.name] = MediaLower[s.name] => r = s

\* From c to d no id was given again, and no movie got another name.
Follows(kind, c, d) ==
  /\ d.nextId >= c.nextId
  /\ \A r \in d.rows : \/ r.id >= c.nextId
                       \/ \E s \in c.rows : s.id = r.id /\ (kind = "movies" => s.name = r.name)

\* The fields of a row.
LEMMA MediaRowFields ==
  \A r \in MediaRows : /\ r.id \in Nat /\ r.name \in MediaNames /\ r.meta \in Metas \cup FetchedMetas
                       /\ r.links \in SUBSET {1, 2} /\ r.wanted \in SUBSET {1, 2} /\ r.stale \in BOOLEAN
  BY DEF MediaRows

\* The text index has a row under its id.
LEMMA IndexedUnder == \A kind, r : FtsOf(kind, r).rowid = r.id
  BY DEF FtsOf

\* Following is reflexive.
LEMMA FollowsItself ==
  ASSUME NEW kind, NEW c, c.nextId \in Nat
  PROVE  Follows(kind, c, c)
  BY DEF Follows

\* It is transitive.
LEMMA FollowsOn ==
  ASSUME NEW kind, NEW c, NEW d, NEW e, TableFits(kind, c), TableFits(kind, d), TableFits(kind, e),
         Follows(kind, c, d), Follows(kind, d, e)
  PROVE  Follows(kind, c, e)
  <1>1. c.nextId \in Nat /\ d.nextId \in Nat /\ e.nextId \in Nat /\ \A r \in e.rows : r.id \in Nat
    BY MediaRowFields DEF TableFits
  <1>2. e.nextId >= c.nextId
    BY <1>1 DEF Follows
  <1>3. ASSUME NEW r \in e.rows, ~ (r.id >= c.nextId)
        PROVE  \E s \in c.rows : s.id = r.id /\ (kind = "movies" => s.name = r.name)
    <2>1. ~ (r.id >= d.nextId)
      BY <1>1, <1>3 DEF Follows
    <2>2. PICK t \in d.rows : t.id = r.id /\ (kind = "movies" => t.name = r.name)
      BY <2>1 DEF Follows
    <2>3. PICK s \in c.rows : s.id = t.id /\ (kind = "movies" => s.name = t.name)
      BY <1>3, <2>2 DEF Follows
    <2> QED
      BY <2>2, <2>3
  <1> QED
    BY <1>2, <1>3 DEF Follows

\* A row with a new key is inserted.
LEMMA InsertFits ==
  ASSUME NEW kind \in Kinds, NEW c, TableFits(kind, c), NEW n \in MediaNames,
         NEW meta \in Metas \cup FetchedMetas,
         kind = "movies" /\ meta \in FetchedMetas => meta = TmdbMeta[n],
         NEW d \in MediaInsert(kind, c, n, meta)
  PROVE  /\ TableFits(kind, d) /\ Follows(kind, c, d)
         /\ (\A r \in c.rows : MediaLower[r.name] # MediaLower[n]) /\ Unlike(kind, c) => Unlike(kind, d)
         /\ kind = "movies" => Unlike(kind, d)
  <1> DEFINE r == [id |-> NewRowId(c), name |-> n, meta |-> meta, links |-> {},
                   wanted |-> {}, stale |-> FALSE]
  <1>0. c.nextId \in Nat /\ c.rows \in SUBSET MediaRows /\ \A s \in c.rows : s.id \in Nat /\ s.id < c.nextId
    BY MediaRowFields DEF TableFits
  <1>1. r \in MediaRows /\ r.id = c.nextId /\ r.name = n /\ RowFits(kind, r)
    BY <1>0 DEF MediaRows, RowFits, NewRowId
  <1>2. /\ \A s \in c.rows : s.name # n
        /\ d = [rows |-> c.rows \cup {r}, fts |-> c.fts \cup {FtsOf(kind, r)}, nextId |-> c.nextId + 1]
    BY DEF MediaInsert
  <1> HIDE DEF r
  <1>3. d.rows = c.rows \cup {r} /\ d.fts = c.fts \cup {FtsOf(kind, r)} /\ d.nextId = c.nextId + 1
    BY <1>2
  <1>4. d \in [rows : SUBSET MediaRows, fts : {d.fts}, nextId : Nat]
    BY <1>0, <1>1, <1>2
  <1>5. \A s \in d.rows : s.id < d.nextId /\ RowFits(kind, s)
    BY <1>0, <1>1, <1>3 DEF TableFits
  <1>6. \A s, t \in d.rows : s.id = t.id \/ s.name = t.name => s = t
    BY <1>0, <1>1, <1>2, <1>3 DEF TableFits
  <1>7. d.fts = {FtsOf(kind, s) : s \in d.rows}
    BY <1>3 DEF TableFits
  <1>8. Follows(kind, c, d)
    BY <1>0, <1>1, <1>3 DEF Follows
  <1>9. (\A s \in c.rows : MediaLower[s.name] # MediaLower[n]) /\ Unlike(kind, c) => Unlike(kind, d)
    BY <1>1, <1>3 DEF Unlike
  <1> QED
    BY <1>4, <1>5, <1>6, <1>7, <1>8, <1>9 DEF TableFits, Unlike

\* A row is written under its id.
LEMMA ChangeFits ==
  ASSUME NEW kind \in Kinds, NEW c, TableFits(kind, c), NEW r \in c.rows, NEW s \in MediaRows,
         s.id = r.id, RowFits(kind, s), \A t \in c.rows \ {r} : t.name # s.name,
         NEW d, d = MediaChange(kind, c, r, s)
  PROVE  /\ TableFits(kind, d)
         /\ (kind = "movies" => s.name = r.name) => Follows(kind, c, d)
         /\ s.name = r.name /\ Unlike(kind, c) => Unlike(kind, d)
         /\ d.rows = (c.rows \ {r}) \cup {s} /\ d.nextId = c.nextId
  <1>1. d = [c EXCEPT !.rows = (@ \ {r}) \cup {s}, !.fts = (@ \ {FtsOf(kind, r)}) \cup {FtsOf(kind, s)}]
    BY DEF MediaChange
  <1>2. /\ d.rows = (c.rows \ {r}) \cup {s} /\ d.nextId = c.nextId
        /\ d.fts = (c.fts \ {FtsOf(kind, r)}) \cup {FtsOf(kind, s)}
        /\ d \in [rows : SUBSET MediaRows, fts : {d.fts}, nextId : Nat]
    <2> DEFINE rows == (c.rows \ {r}) \cup {s}
               fts == (c.fts \ {FtsOf(kind, r)}) \cup {FtsOf(kind, s)}
    <2>1. d = [c EXCEPT !.rows = rows, !.fts = fts]
      BY <1>1
    <2>2. rows \in SUBSET MediaRows
      BY DEF TableFits
    <2> HIDE DEF rows, fts
    <2>3. d = [rows |-> rows, fts |-> fts, nextId |-> c.nextId] /\ c.nextId \in Nat
      BY <2>1 DEF TableFits
    <2>4. d.rows = rows /\ d.nextId = c.nextId /\ d.fts = fts
          /\ d \in [rows : SUBSET MediaRows, fts : {d.fts}, nextId : Nat]
      BY <2>2, <2>3
    <2> QED
      BY <2>4 DEF rows, fts
  <1>3. c.nextId \in Nat /\ \A t \in c.rows : t.id \in Nat /\ t.id < c.nextId
    BY MediaRowFields DEF TableFits
  <1>4. \A t \in d.rows : t.id < d.nextId /\ RowFits(kind, t)
    BY <1>2, <1>3 DEF TableFits
  <1>5. \A t, u \in d.rows : t.id = u.id \/ t.name = u.name => t = u
    BY <1>2 DEF TableFits
  <1>6. d.fts = {FtsOf(kind, t) : t \in d.rows}
    <2>1. \A t \in c.rows : FtsOf(kind, t) = FtsOf(kind, r) => t = r
      BY IndexedUnder DEF TableFits
    <2>2. c.fts = {FtsOf(kind, t) : t \in c.rows}
      BY DEF TableFits
    <2> QED
      BY <1>2, <2>1, <2>2
  <1>7. (kind = "movies" => s.name = r.name) => Follows(kind, c, d)
    BY <1>2, <1>3 DEF Follows
  <1>8. s.name = r.name /\ Unlike(kind, c) => Unlike(kind, d)
    BY <1>2 DEF Unlike
  <1> QED
    BY <1>2, <1>4, <1>5, <1>6, <1>7, <1>8 DEF TableFits

\* A row is deleted.
LEMMA RemoveFits ==
  ASSUME NEW kind \in Kinds, NEW c, TableFits(kind, c), NEW r \in c.rows,
         NEW d, d = MediaRemove(kind, c, r)
  PROVE  TableFits(kind, d) /\ Follows(kind, c, d) /\ (Unlike(kind, c) => Unlike(kind, d))
  <1>1. d = [c EXCEPT !.rows = @ \ {r}, !.fts = @ \ {FtsOf(kind, r)}]
    BY DEF MediaRemove
  <1>2. /\ d.rows = c.rows \ {r} /\ d.nextId = c.nextId /\ d.fts = c.fts \ {FtsOf(kind, r)}
        /\ d \in [rows : SUBSET MediaRows, fts : {d.fts}, nextId : Nat]
    BY <1>1 DEF TableFits
  <1>3. c.nextId \in Nat
    BY DEF TableFits
  <1>4. d.fts = {FtsOf(kind, t) : t \in d.rows}
    <2>1. \A t \in c.rows : FtsOf(kind, t) = FtsOf(kind, r) => t = r
      BY IndexedUnder DEF TableFits
    <2>2. c.fts = {FtsOf(kind, t) : t \in c.rows}
      BY DEF TableFits
    <2> QED
      BY <1>2, <2>1, <2>2
  <1>5. /\ \A t \in d.rows : t.id < d.nextId /\ RowFits(kind, t)
        /\ \A t, u \in d.rows : t.id = u.id \/ t.name = u.name => t = u
    BY <1>2 DEF TableFits
  <1> QED
    BY <1>2, <1>3, <1>4, <1>5 DEF TableFits, Follows, Unlike

\* The tables an upsert of a kind may leave.
Upserts(kind, c, n, meta) ==
  CASE kind = "movies" -> UpsertMovie(c, n, meta)
    [] kind = "ebooks" -> UpsertEbook(c, n, meta)
    [] kind = "flac" -> UpsertFlac(c, n, meta)

\* The lookup of an upsert finds whatever UNIQUE would refuse.
LEMMA UpsertFits ==
  ASSUME NEW kind \in Kinds, NEW c, TableFits(kind, c), NEW n \in MediaNames,
         NEW meta \in Metas \cup FetchedMetas,
         kind = "movies" /\ meta \in FetchedMetas => meta = TmdbMeta[n]
  PROVE  /\ Upserts(kind, c, n, meta) # {}
         /\ \A d \in Upserts(kind, c, n, meta) :
              TableFits(kind, d) /\ Follows(kind, c, d) /\ (Unlike(kind, c) => Unlike(kind, d))
  <1> DEFINE found == {r \in c.rows : IF kind = "movies" THEN r.name = n
                                      ELSE MediaLower[r.name] = MediaLower[n]}
             Rewritten(r) == [r EXCEPT !.meta = meta, !.links = {}, !.wanted = {}, !.stale = FALSE]
             over == {MediaChange(kind, c, r, Rewritten(r)) : r \in found}
  <1>1. Upserts(kind, c, n, meta) = IF found = {} THEN MediaInsert(kind, c, n, meta) ELSE over
    <2>1. CASE kind = "movies"
      BY <2>1 DEF Upserts, UpsertMovie, FindMovie, OverwriteMovie
    <2>2. CASE kind = "ebooks"
      BY <2>2 DEF Upserts, UpsertEbook, FindEbook, OverwriteEbook
    <2>3. CASE kind = "flac"
      BY <2>3 DEF Upserts, UpsertFlac, FindFlac, OverwriteFlac
    <2> QED
      BY <2>1, <2>2, <2>3 DEF Kinds
  <1>2. CASE found = {}
    <2>1. \A r \in c.rows : r.name # n
      BY <1>2
    <2>2. MediaInsert(kind, c, n, meta) # {}
      BY <2>1 DEF MediaInsert
    <2>3. kind # "movies" => \A r \in c.rows : MediaLower[r.name] # MediaLower[n]
      BY <1>2
    <2> HIDE DEF found
    <2> QED
      BY <1>1, <1>2, <2>2, <2>3, InsertFits
  <1>3. CASE found # {}
    <2>1. over # {}
      BY <1>3
    <2>2. ASSUME NEW r \in found
          PROVE  LET d == MediaChange(kind, c, r, Rewritten(r)) IN
                 TableFits(kind, d) /\ Follows(kind, c, d) /\ (Unlike(kind, c) => Unlike(kind, d))
      <3>1. r \in c.rows /\ r \in MediaRows /\ (kind = "movies" => r.name = n)
        BY DEF TableFits
      <3>2. /\ Rewritten(r) \in MediaRows /\ Rewritten(r).id = r.id /\ Rewritten(r).name = r.name
            /\ Rewritten(r).meta = meta /\ Rewritten(r).links = {} /\ Rewritten(r).wanted = {}
        BY <3>1 DEF MediaRows
      <3> HIDE DEF Rewritten
      <3>3. RowFits(kind, Rewritten(r))
        BY <3>1, <3>2 DEF RowFits
      <3>4. \A t \in c.rows \ {r} : t.name # Rewritten(r).name
        BY <3>1, <3>2 DEF TableFits
      <3> DEFINE s == Rewritten(r)
      <3> HIDE DEF s
      <3>5. s \in MediaRows /\ s.id = r.id /\ s.name = r.name /\ RowFits(kind, s) /\ \A t \in c.rows \ {r} : t.name # s.name
        BY <3>2, <3>3, <3>4 DEF s
      <3>6. LET d == MediaChange(kind, c, r, s) IN
                 TableFits(kind, d) /\ Follows(kind, c, d) /\ (Unlike(kind, c) => Unlike(kind, d))
        BY <3>1, <3>5, ChangeFits
      <3> QED
        BY <3>6 DEF s
    <2> HIDE DEF found, Rewritten
    <2> QED
      BY <1>1, <1>3, <2>1, <2>2
  <1> QED
    BY <1>2, <1>3

-----------------------------------------------------------------------------
\* An edit at rest, of the metadata, waiting for TMDB, or of the links.
MediaEditRows ==
  {MediaIdle}
  \cup [of : {"meta"}, id : Nat, merged : [name : MediaNames, meta : Metas \cup FetchedMetas]]
  \cup [of : {"refresh"}, id : Nat, name : MediaNames]
  \cup [of : {"links"}, id : Nat, sent : SUBSET {1, 2}, links : SUBSET {1, 2}, outdated : BOOLEAN]

\* The row of this id, if there is one, has this name.
NameHolds(id, n) == id < media.nextId /\ \A r \in media.rows : r.id = id => r.name = n

\* What an edit has read of the row it is about still holds of it.
EditHolds(e) ==
  /\ e.of = "meta" /\ mkind = "movies" =>
       /\ NameHolds(e.id, e.merged.name)
       /\ e.merged.meta \in FetchedMetas => e.merged.meta = TmdbMeta[e.merged.name]
  /\ e.of = "refresh" => mkind = "movies" /\ NameHolds(e.id, e.name)
  /\ e.of = "links" =>
       /\ e.id < media.nextId
       /\ ~ e.outdated => \A r \in media.rows :
            r.id = e.id => r.stale \/ e.links = r.wanted \cup e.sent

\* What edits have read holds.
MediaEditInv ==
  mediaEdit \in [Editors -> MediaEditRows] /\ \A a \in Editors : EditHolds(mediaEdit[a])

\* The table in a transaction fits, follows the committed one and is tallied.
MediaTxInv ==
  mediaTx.open =>
    /\ mediaTx \in [open : {TRUE}, table : {mediaTx.table}, valid : {mediaTx.valid},
                    next : {mediaTx.next}, errors : {mediaTx.errors}, applied : {mediaTx.applied}]
    /\ TableFits(mkind, mediaTx.table) /\ (mediaRenamed \/ Unlike(mkind, mediaTx.table))
    /\ Follows(mkind, media, mediaTx.table)
    /\ Tallied(mediaTx.valid, mediaTx.next, mediaTx.errors, mediaTx.applied)

\* The committed table fits.
MediaTableInv ==
  mkind \in Kinds /\ TableFits(mkind, media) /\ (mediaRenamed \/ Unlike(mkind, media))

\* What a query may ask of the catalog of a kind.
Askable(q) ==
  IF mkind = "movies" THEN q.by \in {"text", "find", "genre", "year", "tmdb", "id", "all"}
  ELSE q.by \in {"text", "find", "genre", "author", "id", "all"}

\* Go and SQLite agree on the label.
Clear(q) == q.by \in {"genre", "author"} => Plain(q.key)

\* The answer has what is due.
Found(visit) ==
  LET due == {r \in visit.steady : r.id \in visit.keyed}
  IN \/ visit.q.by \in {"genre", "author"} /\ ~ Plain(visit.q.key)
     \/ due = {}
     \/ due \subseteq visit.items /\ ~ visit.missing

\* A count that was none means that there was nothing to find.
VisitHolds(visit) ==
  /\ visit.of \in {"nothing", "counted", "answered"}
  /\ visit.of = "counted" =>
       /\ Askable(visit.q) /\ \A r \in visit.seen : Meant(visit.q, r)
       /\ Clear(visit.q) /\ visit.none => visit.seen = {}
  /\ visit.of = "answered" => Found(visit)

\* Every visit is as it should be.
MediaVisitInv ==
  DOMAIN mediaVisit = MediaVisitors /\ \A v \in MediaVisitors : VisitHolds(mediaVisit[v])

\* UNIQUE has refused nothing, and the last report is true.
MediaCountInv ==
  /\ mediaRenamed \in BOOLEAN /\ mediaRefused = FALSE /\ mediaOps \in 0 .. MaxMediaOps
  /\ Truthful(mediaReport)

MediaInv == MediaTableInv /\ MediaTxInv /\ MediaEditInv /\ MediaVisitInv /\ MediaCountInv

\* The invariant holds of the empty table.
LEMMA MediaInvInit == MediaInit => MediaInv
  <1> SUFFICES ASSUME MediaInit PROVE MediaInv
    OBVIOUS
  <1>1. MediaTableInv
    <2>1. EmptyTable.rows = {} /\ EmptyTable.fts = {} /\ EmptyTable.nextId = 1
          /\ EmptyTable \in [rows : SUBSET MediaRows, fts : {EmptyTable.fts}, nextId : Nat]
      BY DEF EmptyTable
    <2>2. TableFits(mkind, EmptyTable) /\ Unlike(mkind, EmptyTable)
      BY <2>1 DEF TableFits, Unlike
    <2> QED
      BY <2>2 DEF MediaInit, MediaTableInv
  <1>2. MediaTxInv
    BY DEF MediaInit, MediaTxInv
  <1>3. MediaEditInv
    <2>1. MediaIdle.of = "nothing"
      BY DEF MediaIdle
    <2>2. EditHolds(MediaIdle)
      BY <2>1 DEF EditHolds
    <2> QED
      BY <2>2 DEF MediaInit, MediaEditInv, MediaEditRows
  <1>4. MediaVisitInv
    <2>1. MediaIdle.of = "nothing"
      BY DEF MediaIdle
    <2>2. VisitHolds(MediaIdle)
      BY <2>1 DEF VisitHolds
    <2> QED
      BY <2>2 DEF MediaInit, MediaVisitInv
  <1>5. MediaCountInv
    <2>1. mediaOps \in 0 .. MaxMediaOps
      BY MediaBounds DEF MediaInit
    <2>2. mediaRenamed \in BOOLEAN /\ mediaRefused = FALSE
      BY DEF MediaInit
    <2>3. Truthful(mediaReport)
      BY DEF MediaInit, NoReport, Truthful
    <2> QED
      BY <2>1, <2>2, <2>3 DEF MediaCountInv
  <1> QED
    BY <1>1, <1>2, <1>3, <1>4, <1>5 DEF MediaInv

\* The fields of an edit, by what it is of, and of one that is outdated.
LEMMA MediaEditFields ==
  ASSUME NEW e \in MediaEditRows
  PROVE  /\ e.of \in {"nothing", "meta", "links", "refresh"}
         /\ e.of = "meta" => e.id \in Nat /\ e.merged.name \in MediaNames
                             /\ e.merged.meta \in Metas \cup FetchedMetas
         /\ e.of = "refresh" => e.id \in Nat /\ e.name \in MediaNames
         /\ e.of = "links" =>
              /\ e.id \in Nat /\ e.sent \in SUBSET {1, 2} /\ e.links \in SUBSET {1, 2}
              /\ e.outdated \in BOOLEAN
              /\ [e EXCEPT !.outdated = TRUE] \in MediaEditRows
              /\ [e EXCEPT !.outdated = TRUE].of = "links"
              /\ [e EXCEPT !.outdated = TRUE].id = e.id
              /\ [e EXCEPT !.outdated = TRUE].outdated
  <1> DEFINE Ms == [of : {"meta"}, id : Nat, merged : [name : MediaNames, meta : Metas \cup FetchedMetas]]
             Rs == [of : {"refresh"}, id : Nat, name : MediaNames]
             Ls == [of : {"links"}, id : Nat, sent : SUBSET {1, 2}, links : SUBSET {1, 2}, outdated : BOOLEAN]
  <1>1. CASE e = MediaIdle
    <2>1. e.of = "nothing"
      BY <1>1 DEF MediaIdle
    <2> QED
      BY <2>1
  <1>2. CASE e \in Ms
    BY <1>2
  <1>3. CASE e \in Rs
    BY <1>3
  <1>4. CASE e \in Ls
    <2> DEFINE f == [e EXCEPT !.outdated = TRUE]
    <2>1. e.of = "links" /\ e.id \in Nat /\ e.sent \in SUBSET {1, 2} /\ e.links \in SUBSET {1, 2} /\ e.outdated \in BOOLEAN
      BY <1>4
    <2>2. f \in Ls /\ f.of = "links" /\ f.id = e.id /\ f.outdated
      BY <1>4
    <2> HIDE DEF f
    <2>3. f \in MediaEditRows
      BY <2>2 DEF MediaEditRows
    <2> QED
      BY <2>1, <2>2, <2>3 DEF f
  <1> QED
    BY <1>1, <1>2, <1>3, <1>4 DEF MediaEditRows

\* An edit in a later state of the table: nothing is known of it any longer
\* if it is outdated, and else its row has the links that it had.
LEMMA EditStays ==
  ASSUME MediaInv, mkind' = mkind, TableFits(mkind, media)', Follows(mkind, media, media'),
         NEW e \in MediaEditRows, EditHolds(e), NEW f,
         \/ f = e /\ (e.of = "links" /\ ~ e.outdated =>
                        \A r \in media'.rows, s \in media.rows : r.id = e.id /\ s.id = e.id =>
                           r.links = s.links /\ r.wanted = s.wanted /\ r.stale = s.stale)
         \/ e.of = "links" /\ f = [e EXCEPT !.outdated = TRUE]
  PROVE  EditHolds(f)'
  <1>1. media.nextId \in Nat /\ media'.nextId \in Nat /\ media'.nextId >= media.nextId
        /\ \A r \in media'.rows : r.id \in Nat
    <2>1. media.nextId \in Nat /\ media'.nextId \in Nat /\ media'.rows \subseteq MediaRows
      BY DEF MediaInv, MediaTableInv, TableFits
    <2> QED
      BY <2>1, MediaRowFields DEF Follows
  <1>2. ASSUME NEW id \in Nat, NEW n, mkind = "movies", NameHolds(id, n) PROVE NameHolds(id, n)'
    <2>1. id < media'.nextId
      BY <1>1, <1>2 DEF NameHolds
    <2>2. ASSUME NEW r \in media'.rows, r.id = id PROVE r.name = n
      <3>1. PICK s \in media.rows : s.id = r.id /\ s.name = r.name
        BY <1>1, <1>2, <2>2 DEF Follows, NameHolds
      <3> QED
        BY <1>2, <2>2, <3>1 DEF NameHolds
    <2> QED
      BY <2>1, <2>2 DEF NameHolds
  <1>3. CASE f = e
    <2>1. e.of = "meta" /\ mkind' = "movies" =>
            /\ NameHolds(e.id, e.merged.name)'
            /\ e.merged.meta \in FetchedMetas => e.merged.meta = TmdbMeta[e.merged.name]
      BY <1>2, MediaEditFields DEF EditHolds
    <2>2. e.of = "refresh" => mkind' = "movies" /\ NameHolds(e.id, e.name)'
      BY <1>2, MediaEditFields DEF EditHolds
    <2>3. ASSUME e.of = "links"
          PROVE  /\ e.id < media'.nextId
                 /\ ~ e.outdated => \A r \in media'.rows : r.id = e.id => r.stale \/ e.links = r.wanted \cup e.sent
      <3>1. e.id \in Nat /\ e.id < media.nextId
        BY <2>3, MediaEditFields DEF EditHolds
      <3>2. ASSUME ~ e.outdated, NEW r \in media'.rows, r.id = e.id
            PROVE  r.stale \/ e.links = r.wanted \cup e.sent
        <4>1. PICK s \in media.rows : s.id = r.id
          BY <1>1, <3>1, <3>2 DEF Follows
        <4>2. s.stale \/ e.links = s.wanted \cup e.sent
          BY <2>3, <3>2, <4>1 DEF EditHolds
        <4>3. r.wanted = s.wanted /\ r.stale = s.stale
          <5>1. f # [e EXCEPT !.outdated = TRUE]
            BY <1>3, <2>3, <3>2, MediaEditFields
          <5> QED
            BY <2>3, <3>2, <4>1, <5>1
        <4> QED
          BY <4>2, <4>3
      <3> QED
        BY <1>1, <3>1, <3>2
    <2> QED
      BY <1>3, <2>1, <2>2, <2>3 DEF EditHolds
  <1>4. CASE e.of = "links" /\ f = [e EXCEPT !.outdated = TRUE]
    <2>1. f.of = "links" /\ f.id = e.id /\ f.outdated /\ e.id \in Nat
      BY <1>4, MediaEditFields
    <2>2. e.id < media'.nextId
      BY <1>1, <1>4, <2>1 DEF EditHolds
    <2> QED
      BY <2>1, <2>2 DEF EditHolds
  <1> QED
    BY <1>3, <1>4

\* What an upsert, a deletion or a commit does to the edits.
LEMMA OutdatedHolds ==
  ASSUME MediaInv, mkind' = mkind, TableFits(mkind, media)', Follows(mkind, media, media'),
         mediaEdit' = Outdated(Touched(media, media'))
  PROVE  MediaEditInv'
  <1>1. TableFits(mkind, media') /\ media.nextId \in Nat /\ media'.nextId \in Nat
        /\ \A r \in media.rows : r.id < media.nextId /\ r.id \in Nat
    <2>1. media.rows \subseteq MediaRows
      BY DEF MediaInv, MediaTableInv, TableFits
    <2> QED
      BY <2>1, MediaRowFields DEF MediaInv, MediaTableInv, TableFits
  <1>2. ASSUME NEW a \in Editors, NEW e, e = mediaEdit[a], NEW f, f = mediaEdit'[a]
        PROVE  f \in MediaEditRows /\ EditHolds(f)'
    <2>1. e \in MediaEditRows /\ EditHolds(e)
      BY <1>2 DEF MediaInv, MediaEditInv
    <2>2. f = IF e.of = "links" /\ e.id \in Touched(media, media')
              THEN [e EXCEPT !.outdated = TRUE] ELSE e
      BY <1>2 DEF Outdated
    <2>3. ASSUME e.of = "links", e.id \notin Touched(media, media'), NEW r \in media'.rows, NEW s \in media.rows,
                 r.id = e.id, s.id = e.id
          PROVE  r = s
      <3>1. s \in media'.rows
        BY <2>3 DEF Touched
      <3> QED
        BY <1>1, <2>3, <3>1 DEF TableFits
    <2>4. f \in MediaEditRows
      BY <2>1, <2>2, MediaEditFields
    <2>5. EditHolds(f)'
      <3>1. \/ f = e /\ (e.of = "links" /\ ~ e.outdated =>
                        \A r \in media'.rows, s \in media.rows : r.id = e.id /\ s.id = e.id =>
                           r.links = s.links /\ r.wanted = s.wanted /\ r.stale = s.stale)
            \/ e.of = "links" /\ f = [e EXCEPT !.outdated = TRUE]
        BY <2>2, <2>3
      <3> QED
        BY <2>1, <3>1, EditStays
    <2> QED
      BY <2>4, <2>5
  <1>3. DOMAIN mediaEdit' = Editors /\ mediaEdit' = [a \in Editors |-> mediaEdit'[a]]
    BY DEF Outdated
  <1> QED
    BY <1>2, <1>3 DEF MediaEditInv

\* Visits are unaffected by what is written.
LEMMA VisitsStay ==
  ASSUME MediaInv, UNCHANGED <<mkind, mediaVisit>>
  PROVE  MediaVisitInv'
  BY DEF MediaInv, MediaVisitInv, VisitHolds, Askable, Meant, Found

\* A step that writes neither table keeps what holds of both.
LEMMA TxStays ==
  ASSUME MediaInv, UNCHANGED <<mkind, media, mediaTx, mediaRenamed>>
  PROVE  MediaTxInv' /\ MediaTableInv'
  BY DEF MediaInv, MediaTxInv, MediaTableInv

\* Requests stay within their bound.
LEMMA NewRequestCounts ==
  ASSUME MediaInv, NewRequest
  PROVE  mediaOps' \in 0 .. MaxMediaOps
  BY MediaBounds DEF NewRequest, MediaInv, MediaCountInv

\* One row is added, or overwritten, in a statement of its own.
LEMMA AddKeeps ==
  ASSUME MediaInv, NEW n \in MediaNames, NEW meta \in MetasFor(n),
         AddMedia(Upserts(mkind, media, n, meta))
  PROVE  MediaInv'
  <1>1. ~ mediaTx.open /\ UNCHANGED <<mkind, mediaTx, mediaVisit, mediaReport, mediaRenamed>>
    BY DEF AddMedia, NewRequest
  <1>2. /\ meta \in Metas \cup FetchedMetas
        /\ mkind = "movies" /\ meta \in FetchedMetas => meta = TmdbMeta[n]
    BY MediaAssumption DEF MetasFor, FetchedMetas
  <1>3. mkind \in Kinds /\ TableFits(mkind, media)
    BY DEF MediaInv, MediaTableInv
  <1> DEFINE tables == Upserts(mkind, media, n, meta)
  <1>4. /\ tables # {}
        /\ \A d \in tables : TableFits(mkind, d) /\ Follows(mkind, media, d)
                             /\ (Unlike(mkind, media) => Unlike(mkind, d))
    BY <1>2, <1>3, UpsertFits
  <1>5. \/ /\ media' \in tables
           /\ mediaEdit' = Outdated(Touched(media, media'))
           /\ UNCHANGED mediaRefused
        \/ /\ mediaRefused' = (mediaRefused \/ tables = {})
           /\ UNCHANGED <<media, mediaEdit>>
    BY DEF AddMedia
  <1>9. mediaOps' \in 0 .. MaxMediaOps
    BY NewRequestCounts DEF AddMedia
  <1> HIDE DEF tables
  <1>6. CASE media' \in tables /\ mediaEdit' = Outdated(Touched(media, media')) /\ UNCHANGED mediaRefused
    <2>1. TableFits(mkind, media)' /\ Follows(mkind, media, media') /\ MediaTableInv'
      BY <1>1, <1>3, <1>4, <1>6 DEF MediaTableInv, MediaInv
    <2>2. MediaEditInv'
      BY <1>1, <1>6, <2>1, OutdatedHolds
    <2>3. MediaTxInv' /\ MediaVisitInv' /\ MediaCountInv'
      BY <1>1, <1>6, <1>9, VisitsStay DEF MediaTxInv, MediaInv, MediaCountInv
    <2> QED
      BY <2>1, <2>2, <2>3 DEF MediaInv
  <1>7. CASE mediaRefused' = (mediaRefused \/ tables = {}) /\ UNCHANGED <<media, mediaEdit>>
    <2>1. mediaRefused' = FALSE
      BY <1>4, <1>7 DEF MediaInv, MediaCountInv
    <2>2. MediaTableInv' /\ MediaTxInv' /\ MediaVisitInv'
      BY <1>1, <1>7, TxStays, VisitsStay
    <2>3. MediaEditInv'
      BY <1>1, <1>7 DEF MediaInv, MediaEditInv, EditHolds, NameHolds
    <2>4. MediaCountInv'
      BY <1>1, <1>9, <2>1 DEF MediaInv, MediaCountInv
    <2> QED
      BY <2>2, <2>3, <2>4 DEF MediaInv
  <1> QED
    BY <1>5, <1>6, <1>7

\* A row is deleted, and edits of it that have read it are outdated.
LEMMA DeleteKeeps ==
  ASSUME MediaInv, NEW r \in media.rows, DeleteMedia(MediaRemove(mkind, media, r))
  PROVE  MediaInv'
  <1>1. /\ ~ mediaTx.open /\ media' = MediaRemove(mkind, media, r)
        /\ mediaEdit' = Outdated(Touched(media, media'))
        /\ UNCHANGED <<mkind, mediaTx, mediaVisit, mediaReport, mediaRenamed, mediaRefused>>
    BY DEF DeleteMedia, NewRequest
  <1>2. /\ TableFits(mkind, media') /\ Follows(mkind, media, media')
        /\ (Unlike(mkind, media) => Unlike(mkind, media'))
    BY <1>1, RemoveFits DEF MediaInv, MediaTableInv
  <1>3. MediaTableInv' /\ MediaTxInv' /\ MediaVisitInv'
    BY <1>1, <1>2, VisitsStay DEF MediaInv, MediaTableInv, MediaTxInv
  <1>4. MediaEditInv'
    BY <1>1, <1>2, OutdatedHolds
  <1>5. MediaCountInv'
    BY <1>1, NewRequestCounts DEF DeleteMedia, MediaInv, MediaCountInv
  <1> QED
    BY <1>3, <1>4, <1>5 DEF MediaInv

\* A bulk request begins, enters an entry, is committed or rolled back.
LEMMA BulkKeeps ==
  ASSUME MediaInv,
         \/ \E size \in 1 .. MaxMediaBulk : \E valid \in [1 .. size -> BOOLEAN] : BeginBulk(valid)
         \/ \E n \in MediaNames : \E meta \in MetasFor(n) :
              mediaTx.open /\ BulkMedia(Upserts(mkind, mediaTx.table, n, meta))
         \/ CommitBulk \/ RollBackBulk
  PROVE  MediaInv'
  <1>0. mkind \in Kinds /\ TableFits(mkind, media) /\ media.nextId \in Nat
    BY DEF MediaInv, MediaTableInv, TableFits
  <1>1. ASSUME NEW size \in 1 .. MaxMediaBulk, NEW valid \in [1 .. size -> BOOLEAN], BeginBulk(valid)
        PROVE  MediaInv'
    <2>1. /\ mediaOps + Len(valid) <= MaxMediaOps /\ mediaOps' = mediaOps + Len(valid)
          /\ mediaTx' = [open |-> TRUE, table |-> media, valid |-> valid, next |-> 1,
                         errors |-> {}, applied |-> {}]
          /\ UNCHANGED <<mkind, media, mediaEdit, mediaVisit, mediaReport, mediaRenamed, mediaRefused>>
      BY <1>1 DEF BeginBulk
    <2>2. valid \in Seq(BOOLEAN) /\ Len(valid) \in Nat
      BY MediaBounds
    <2>3. Tallied(valid, 1, {}, {})
      BY <2>2, TallyStarts
    <2>4. MediaTxInv'
      <3>1. /\ mediaTx'.table = media /\ mediaTx'.valid = valid /\ mediaTx'.next = 1
            /\ mediaTx'.errors = {} /\ mediaTx'.applied = {}
            /\ mediaTx' \in [open : {TRUE}, table : {mediaTx'.table}, valid : {mediaTx'.valid},
                    next : {mediaTx'.next}, errors : {mediaTx'.errors}, applied : {mediaTx'.applied}]
        BY <2>1
      <3>2. Follows(mkind, media, media)
        BY <1>0, FollowsItself
      <3> QED
        BY <2>1, <2>3, <3>1, <3>2 DEF MediaInv, MediaTableInv, MediaTxInv
    <2>5. MediaTableInv' /\ MediaEditInv' /\ MediaVisitInv'
      BY <2>1, VisitsStay DEF MediaInv, MediaTableInv, MediaEditInv, EditHolds, NameHolds
    <2>6. MediaCountInv'
      <3>1. mediaOps' \in 0 .. MaxMediaOps
        BY <2>1, <2>2, MediaBounds DEF MediaInv, MediaCountInv
      <3> QED
        BY <2>1, <3>1 DEF MediaInv, MediaCountInv
    <2> QED
      BY <2>4, <2>5, <2>6 DEF MediaInv
  <1>2. ASSUME NEW n \in MediaNames, NEW meta \in MetasFor(n), mediaTx.open,
               BulkMedia(Upserts(mkind, mediaTx.table, n, meta))
        PROVE  MediaInv'
    <2> DEFINE tables == Upserts(mkind, mediaTx.table, n, meta)
    <2>1. /\ mediaTx.next <= Len(Indexed(mediaTx.valid))
          /\ UNCHANGED <<mkind, media, mediaEdit, mediaVisit, mediaReport, mediaRenamed, mediaOps>>
      BY <1>2 DEF BulkMedia
    <2>2. /\ mediaTx \in [open : {TRUE}, table : {mediaTx.table}, valid : {mediaTx.valid},
                    next : {mediaTx.next}, errors : {mediaTx.errors}, applied : {mediaTx.applied}]
          /\ TableFits(mkind, mediaTx.table) /\ (mediaRenamed \/ Unlike(mkind, mediaTx.table))
          /\ Follows(mkind, media, mediaTx.table)
          /\ Tallied(mediaTx.valid, mediaTx.next, mediaTx.errors, mediaTx.applied)
      BY <1>2 DEF MediaInv, MediaTxInv
    <2>3. /\ meta \in Metas \cup FetchedMetas
          /\ mkind = "movies" /\ meta \in FetchedMetas => meta = TmdbMeta[n]
      BY MediaAssumption DEF MetasFor, FetchedMetas
    <2>4. /\ tables # {}
          /\ \A d \in tables : TableFits(mkind, d) /\ Follows(mkind, mediaTx.table, d)
                               /\ (Unlike(mkind, mediaTx.table) => Unlike(mkind, d))
      BY <1>0, <2>2, <2>3, UpsertFits
    <2>5. \/ /\ \E c \in tables :
                  mediaTx' = [mediaTx EXCEPT !.table = c, !.next = @ + 1,
                                             !.applied = @ \cup {Indexed(mediaTx.valid)[mediaTx.next]}]
             /\ UNCHANGED mediaRefused
          \/ /\ mediaTx' = [mediaTx EXCEPT !.next = @ + 1, !.errors = @ \cup {mediaTx.next}]
             /\ mediaRefused' = (mediaRefused \/ tables = {})
      BY <1>2 DEF BulkMedia
    <2> HIDE DEF tables
    <2>6. /\ Tallied(mediaTx.valid, mediaTx.next + 1, mediaTx.errors,
                     mediaTx.applied \cup {Indexed(mediaTx.valid)[mediaTx.next]})
          /\ Tallied(mediaTx.valid, mediaTx.next + 1, mediaTx.errors \cup {mediaTx.next}, mediaTx.applied)
      BY <2>1, <2>2, TallyGrows
    <2>7. MediaTxInv' /\ mediaRefused' = FALSE
      <3>1. ASSUME NEW c \in tables, NEW done, done = Indexed(mediaTx.valid)[mediaTx.next],
                   mediaTx' = [mediaTx EXCEPT !.table = c, !.next = @ + 1, !.applied = @ \cup {done}]
            PROVE  MediaTxInv'
        <4>1. /\ mediaTx'.table = c /\ mediaTx'.valid = mediaTx.valid /\ mediaTx'.next = mediaTx.next + 1
              /\ mediaTx'.errors = mediaTx.errors /\ mediaTx'.applied = mediaTx.applied \cup {done}
              /\ mediaTx' \in [open : {TRUE}, table : {mediaTx'.table}, valid : {mediaTx'.valid},
                      next : {mediaTx'.next}, errors : {mediaTx'.errors}, applied : {mediaTx'.applied}]
          BY <2>2, <3>1
        <4>2. Follows(mkind, media, c) /\ TableFits(mkind, c) /\ (mediaRenamed \/ Unlike(mkind, c))
          BY <1>0, <2>2, <2>4, <3>1, FollowsOn
        <4> QED
          BY <2>1, <2>6, <3>1, <4>1, <4>2 DEF MediaTxInv
      <3>2. ASSUME mediaTx' = [mediaTx EXCEPT !.next = @ + 1, !.errors = @ \cup {mediaTx.next}]
            PROVE  MediaTxInv'
        <4>1. /\ mediaTx'.table = mediaTx.table /\ mediaTx'.valid = mediaTx.valid
              /\ mediaTx'.next = mediaTx.next + 1
              /\ mediaTx'.errors = mediaTx.errors \cup {mediaTx.next} /\ mediaTx'.applied = mediaTx.applied
              /\ mediaTx' \in [open : {TRUE}, table : {mediaTx'.table}, valid : {mediaTx'.valid},
                      next : {mediaTx'.next}, errors : {mediaTx'.errors}, applied : {mediaTx'.applied}]
          BY <2>2, <3>2
        <4> QED
          BY <2>1, <2>2, <2>6, <4>1 DEF MediaTxInv
      <3>3. mediaRefused' = FALSE
        BY <2>4, <2>5 DEF MediaInv, MediaCountInv
      <3> QED
        BY <2>5, <3>1, <3>2, <3>3
    <2>8. MediaTableInv' /\ MediaEditInv' /\ MediaVisitInv'
      BY <2>1, VisitsStay DEF MediaInv, MediaTableInv, MediaEditInv, EditHolds, NameHolds
    <2>9. MediaCountInv'
      BY <2>1, <2>7 DEF MediaInv, MediaCountInv
    <2> QED
      BY <2>7, <2>8, <2>9 DEF MediaInv
  <1>3. ASSUME CommitBulk PROVE MediaInv'
    <2>1. /\ mediaTx.open /\ mediaTx.next > Len(Indexed(mediaTx.valid))
          /\ media' = mediaTx.table /\ mediaTx' = [open |-> FALSE]
          /\ mediaReport' = Report(mediaTx.valid, mediaTx.applied, mediaTx.errors)
          /\ mediaEdit' = Outdated(Touched(media, media'))
          /\ UNCHANGED <<mkind, mediaVisit, mediaRenamed, mediaRefused, mediaOps>>
      BY <1>3 DEF CommitBulk
    <2>2. /\ TableFits(mkind, media') /\ (mediaRenamed \/ Unlike(mkind, media'))
          /\ Follows(mkind, media, media')
          /\ Tallied(mediaTx.valid, mediaTx.next, mediaTx.errors, mediaTx.applied)
      BY <2>1 DEF MediaInv, MediaTxInv
    <2>3. Truthful(mediaReport')
      BY <2>1, <2>2, TallyTells
    <2>4. MediaTableInv' /\ MediaTxInv' /\ MediaVisitInv' /\ MediaCountInv'
      BY <1>0, <2>1, <2>2, <2>3, VisitsStay DEF MediaInv, MediaTableInv, MediaTxInv, MediaCountInv
    <2>5. MediaEditInv'
      BY <2>1, <2>2, OutdatedHolds
    <2> QED
      BY <2>4, <2>5 DEF MediaInv
  <1>4. ASSUME RollBackBulk PROVE MediaInv'
    <2>1. /\ mediaTx' = [open |-> FALSE] /\ mediaReport' \in {Refusal(mediaTx.valid), NoReport}
          /\ mediaTx.open
          /\ UNCHANGED <<mkind, media, mediaEdit, mediaVisit, mediaRenamed, mediaRefused, mediaOps>>
      BY <1>4 DEF RollBackBulk
    <2>2. mediaTx.valid \in Seq(BOOLEAN)
      BY <2>1 DEF MediaInv, MediaTxInv, Tallied
    <2>4. Truthful(mediaReport')
      BY <2>1, <2>2, RefusalNamesOne DEF Truthful, NoReport
    <2>3. MediaTableInv' /\ MediaTxInv' /\ MediaEditInv' /\ MediaVisitInv' /\ MediaCountInv'
      BY <2>1, <2>4, VisitsStay
      DEF MediaInv, MediaTableInv, MediaTxInv, MediaEditInv, EditHolds, NameHolds, MediaCountInv
    <2> QED
      BY <2>3 DEF MediaInv
  <1> QED
    BY <1>1, <1>2, <1>3, <1>4

\* No edit has nothing to fit.
LEMMA IdleHolds == MediaIdle \in MediaEditRows /\ EditHolds(MediaIdle) /\ EditHolds(MediaIdle)'
  <1>1. MediaIdle.of = "nothing"
    BY DEF MediaIdle
  <1> QED
    BY <1>1 DEF EditHolds, MediaEditRows

\* An edit that has read its row.
LEMMA BeginEditKeeps ==
  ASSUME MediaInv, NEW a \in Editors, NEW e \in MediaEditRows, EditHolds(e),
         mediaEdit' = [mediaEdit EXCEPT ![a] = e],
         UNCHANGED <<mkind, media, mediaTx, mediaVisit, mediaReport, mediaRenamed, mediaRefused>>,
         mediaOps' \in 0 .. MaxMediaOps
  PROVE  MediaInv'
  <1>1. MediaTableInv' /\ MediaTxInv' /\ MediaVisitInv'
    BY TxStays, VisitsStay
  <1>2. MediaCountInv'
    BY DEF MediaInv, MediaCountInv
  <1>3. mediaEdit' \in [Editors -> MediaEditRows]
    BY DEF MediaInv, MediaEditInv
  <1>4. ASSUME NEW b \in Editors PROVE EditHolds(mediaEdit'[b])
    BY DEF MediaInv, MediaEditInv
  <1>5. ASSUME NEW f, EditHolds(f) PROVE EditHolds(f)'
    BY <1>5 DEF EditHolds, NameHolds
  <1>6. ASSUME NEW b \in Editors, NEW f, f = mediaEdit'[b] PROVE EditHolds(f)'
    BY <1>4, <1>5, <1>6
  <1>7. MediaEditInv'
    BY <1>3, <1>6 DEF MediaEditInv
  <1> QED
    BY <1>1, <1>2, <1>7 DEF MediaInv

\* An edit of the metadata has read its row; a movie keeps its name in it.
LEMMA MetaReads ==
  ASSUME MediaInv, NEW a \in Editors, NEW r \in media.rows, NEW name \in MediaNames,
         NEW meta \in Metas \cup FetchedMetas,
         mkind = "movies" => name = r.name,
         mkind = "movies" /\ meta \in FetchedMetas => meta = TmdbMeta[name],
         BeginEdit(a, [of |-> "meta", id |-> r.id, merged |-> [name |-> name, meta |-> meta]]),
         mediaOps' \in 0 .. MaxMediaOps
  PROVE  MediaInv'
  <1> DEFINE m == [name |-> name, meta |-> meta]
             e == [of |-> "meta", id |-> r.id, merged |-> m]
  <1>1. r.id \in Nat /\ r.id < media.nextId /\ \A s \in media.rows : s.id = r.id => s = r
    <2>1. r \in MediaRows
      BY DEF MediaInv, MediaTableInv, TableFits
    <2> QED
      BY <2>1, MediaRowFields DEF MediaInv, MediaTableInv, TableFits
  <1>2. e \in MediaEditRows
    BY <1>1 DEF MediaEditRows
  <1>3. e.of = "meta" /\ e.id = r.id /\ e.merged.name = name /\ e.merged.meta = meta
    OBVIOUS
  <1>4. /\ mediaEdit' = [mediaEdit EXCEPT ![a] = e]
        /\ UNCHANGED <<mkind, media, mediaTx, mediaVisit, mediaReport, mediaRenamed, mediaRefused>>
    BY DEF BeginEdit
  <1> HIDE DEF e, m
  <1>5. EditHolds(e)
    BY <1>1, <1>3 DEF EditHolds, NameHolds
  <1> QED
    BY <1>2, <1>4, <1>5, BeginEditKeeps

\* The first statement of an UpdateXMeta.
LEMMA ReadMetaKeeps ==
  ASSUME MediaInv, NEW a \in Editors,
         \/ /\ mkind = "movies"
            /\ \E r \in media.rows, meta \in Metas \cup {""} : ReadMeta(a, r, MergedMovie(r, meta))
         \/ /\ mkind = "ebooks"
            /\ \E r \in media.rows, name \in MediaNames \cup {""}, meta \in Metas \cup {""} :
                 ReadMeta(a, r, MergedEbook(r, name, meta))
         \/ /\ mkind = "flac"
            /\ \E r \in media.rows, name \in MediaNames \cup {""}, meta \in Metas \cup {""} :
                 ReadMeta(a, r, MergedFlac(r, name, meta))
  PROVE  MediaInv'
  <1>1. PICK r \in media.rows, name \in MediaNames \cup {""}, meta \in Metas \cup {""} :
          /\ ReadMeta(a, r, [name |-> IF name = "" THEN r.name ELSE name,
                             meta |-> IF meta = "" THEN r.meta ELSE meta])
          /\ mkind = "movies" => name = ""
    BY DEF MergedMovie, MergedEbook, MergedFlac
  <1>2. r \in MediaRows /\ RowFits(mkind, r)
    BY DEF MediaInv, MediaTableInv, TableFits
  <1> DEFINE nm == IF name = "" THEN r.name ELSE name
             mt == IF meta = "" THEN r.meta ELSE meta
  <1>3. nm \in MediaNames /\ mt \in Metas \cup FetchedMetas
    BY <1>2, MediaRowFields
  <1>4. mkind = "movies" => nm = r.name
    BY <1>1
  <1>5. mkind = "movies" /\ mt \in FetchedMetas => mt = TmdbMeta[nm]
    BY <1>1, <1>2, MediaAssumption DEF RowFits
  <1>6. BeginEdit(a, [of |-> "meta", id |-> r.id, merged |-> [name |-> nm, meta |-> mt]])
    BY <1>1 DEF ReadMeta
  <1>7. mediaOps' \in 0 .. MaxMediaOps
    BY <1>1, NewRequestCounts DEF ReadMeta
  <1> HIDE DEF nm, mt
  <1> QED
    BY <1>3, <1>4, <1>5, <1>6, <1>7, MetaReads

\* AdminRefreshTmdb: the movie of this id has the name that was fetched for.
LEMMA RefreshKeeps ==
  ASSUME MediaInv, NEW a \in Editors, MoviesAdminRefreshTmdb(a)
  PROVE  MediaInv'
  <1>0. mkind = "movies" /\ mediaEdit[a] \in MediaEditRows /\ EditHolds(mediaEdit[a])
        /\ mediaOps \in 0 .. MaxMediaOps
    BY DEF MoviesAdminRefreshTmdb, MediaInv, MediaEditInv, MediaCountInv
  <1>1. ASSUME NEW r \in media.rows, mediaOps < MaxMediaOps, mediaOps' = mediaOps + 1,
               mediaEdit' = [mediaEdit EXCEPT ![a] = [of |-> "refresh", id |-> r.id, name |-> r.name]],
               UNCHANGED <<mkind, media, mediaTx, mediaVisit, mediaReport, mediaRenamed, mediaRefused>>
        PROVE  MediaInv'
    <2> DEFINE e == [of |-> "refresh", id |-> r.id, name |-> r.name]
    <2>1. r \in MediaRows /\ r.id < media.nextId /\ \A s \in media.rows : s.id = r.id => s = r
      BY DEF MediaInv, MediaTableInv, TableFits
    <2>2. e \in MediaEditRows
      BY <2>1, MediaRowFields DEF MediaEditRows
    <2>3. EditHolds(e)
      BY <1>0, <2>1 DEF EditHolds, NameHolds
    <2>4. mediaOps' \in 0 .. MaxMediaOps
      BY <1>0, <1>1, MediaBounds
    <2> HIDE DEF e
    <2>5. mediaEdit' = [mediaEdit EXCEPT ![a] = e]
      BY <1>1 DEF e
    <2> QED
      BY <1>1, <2>2, <2>3, <2>4, <2>5, BeginEditKeeps
  <1>2. ASSUME mediaEdit[a].of = "refresh", NEW r \in GetMovieByID(media, mediaEdit[a].id),
               UNCHANGED mediaOps,
               BeginEdit(a, [of |-> "meta", id |-> r.id,
                              merged |-> MergedMovie(r, TmdbMeta[mediaEdit[a].name])])
        PROVE  MediaInv'
    <2>1. r \in media.rows /\ r.id = mediaEdit[a].id
      BY DEF GetMovieByID
    <2>2. r.name = mediaEdit[a].name
      BY <1>0, <1>2, <2>1 DEF EditHolds, NameHolds
    <2>3. r \in MediaRows /\ RowFits(mkind, r)
      BY <2>1 DEF MediaInv, MediaTableInv, TableFits
    <2> DEFINE mt == IF TmdbMeta[r.name] = "" THEN r.meta ELSE TmdbMeta[r.name]
    <2>4. MergedMovie(r, TmdbMeta[mediaEdit[a].name]) = [name |-> r.name, meta |-> mt]
      BY <2>2 DEF MergedMovie
    <2>5. r.name \in MediaNames /\ mt \in Metas \cup FetchedMetas
      BY <2>3, MediaRowFields DEF FetchedMetas
    <2>6. mt \in FetchedMetas => mt = TmdbMeta[r.name]
      BY <1>0, <2>3 DEF RowFits
    <2> HIDE DEF mt
    <2>7. BeginEdit(a, [of |-> "meta", id |-> r.id, merged |-> [name |-> r.name, meta |-> mt]])
      BY <1>2, <2>4
    <2>8. mediaOps' \in 0 .. MaxMediaOps
      BY <1>0, <1>2
    <2> QED
      BY <2>1, <2>5, <2>6, <2>7, <2>8, MetaReads
  <1>3. ASSUME UNCHANGED mediaOps, BeginEdit(a, MediaIdle)
        PROVE  MediaInv'
    <2>1. mediaOps' \in 0 .. MaxMediaOps
      BY <1>0, <1>3
    <2> QED
      BY <1>3, <2>1, IdleHolds, BeginEditKeeps DEF BeginEdit
  <1> QED
    BY <1>1, <1>2, <1>3 DEF MoviesAdminRefreshTmdb

\* An edit of the links has read its row.
LEMMA ReadLinksKeeps ==
  ASSUME MediaInv, NEW a \in Editors, NEW r \in media.rows, NEW sent \in (SUBSET {1, 2}) \ {{}},
         ReadLinks(a, r, sent)
  PROVE  MediaInv'
  <1> DEFINE e == [of |-> "links", id |-> r.id, sent |-> sent, links |-> r.links \cup sent,
                   outdated |-> FALSE]
  <1>1. r \in MediaRows /\ r.id < media.nextId /\ RowFits(mkind, r)
        /\ \A s \in media.rows : s.id = r.id => s = r
    BY DEF MediaInv, MediaTableInv, TableFits
  <1>2. r.id \in Nat /\ r.links \cup sent \in SUBSET {1, 2}
    BY <1>1, MediaRowFields
  <1>3. e \in MediaEditRows
    BY <1>2 DEF MediaEditRows
  <1>4. e.of = "links" /\ e.id = r.id /\ e.sent = sent /\ e.links = r.links \cup sent
    OBVIOUS
  <1>5. /\ mediaEdit' = [mediaEdit EXCEPT ![a] = e] /\ NewRequest
        /\ UNCHANGED <<mkind, media, mediaTx, mediaVisit, mediaReport, mediaRenamed, mediaRefused>>
    BY DEF ReadLinks, BeginEdit
  <1> HIDE DEF e
  <1>6. EditHolds(e)
    BY <1>1, <1>4 DEF EditHolds, RowFits
  <1> QED
    BY <1>3, <1>5, <1>6, NewRequestCounts, BeginEditKeeps

\* The second statement of an UpdateXMeta.
LEMMA WriteMetaKeeps ==
  ASSUME MediaInv, NEW a \in Editors, WriteMeta(a)
  PROVE  MediaInv'
  <1> DEFINE edit == mediaEdit[a]
             Written(r) == [r EXCEPT !.name = edit.merged.name, !.meta = edit.merged.meta]
             rows == {r \in media.rows : r.id = edit.id /\ ~ Clashes(media, r, edit.merged.name)}
  <1>1. /\ edit.of = "meta" /\ ~ mediaTx.open
        /\ mediaEdit' = [mediaEdit EXCEPT ![a] = MediaIdle]
        /\ UNCHANGED <<mkind, mediaTx, mediaVisit, mediaReport, mediaRefused, mediaOps>>
    BY DEF WriteMeta
  <1>2. edit \in MediaEditRows /\ EditHolds(edit) /\ mkind \in Kinds /\ TableFits(mkind, media)
    BY DEF MediaInv, MediaEditInv, MediaTableInv
  <1>3. edit.merged.name \in MediaNames /\ edit.merged.meta \in Metas \cup FetchedMetas
    BY <1>1, <1>2, MediaEditFields
  <1>4. CASE UNCHANGED <<media, mediaRenamed>>
    BY <1>1, <1>4, IdleHolds, BeginEditKeeps DEF MediaInv, MediaCountInv
  <1>5. ASSUME NEW r \in rows, media' = MediaChange(mkind, media, r, Written(r)),
               mediaRenamed' = (mediaRenamed \/ r.name # edit.merged.name)
        PROVE  MediaInv'
    <2> DEFINE name == edit.merged.name
               meta == edit.merged.meta
               s == Written(r)
    <2>1. r \in media.rows /\ r \in MediaRows /\ r.id = edit.id /\ (\A t \in media.rows \ {r} : t.name # name)
          /\ RowFits(mkind, r)
      BY <1>2 DEF TableFits, Clashes
    <2>2. s \in MediaRows /\ s.id = r.id /\ s.name = name /\ s.meta = meta /\ s.links = r.links
          /\ s.wanted = r.wanted /\ s.stale = r.stale
      <3>1. s = [r EXCEPT !.name = name, !.meta = meta] /\ name \in MediaNames /\ meta \in Metas \cup FetchedMetas
        BY <1>3
      <3> HIDE DEF name, meta, s
      <3>2. s = [id |-> r.id, name |-> name, meta |-> meta, links |-> r.links, wanted |-> r.wanted, stale |-> r.stale]
        BY <2>1, <3>1 DEF MediaRows
      <3>3. r.id \in Nat /\ r.links \in SUBSET {1, 2} /\ r.wanted \in SUBSET {1, 2} /\ r.stale \in BOOLEAN
        BY <2>1, MediaRowFields
      <3>4. s.id = r.id /\ s.name = name /\ s.meta = meta /\ s.links = r.links
            /\ s.wanted = r.wanted /\ s.stale = r.stale
        BY <3>2
      <3> QED
        BY <3>1, <3>2, <3>3, <3>4 DEF MediaRows
    <2>3. (mkind = "movies" => name = r.name) /\ (mkind = "movies" /\ meta \in FetchedMetas => meta = TmdbMeta[name])
      BY <1>1, <1>2, <2>1 DEF EditHolds, NameHolds
    <2>11. mediaRenamed' = (mediaRenamed \/ r.name # name) /\ media' = MediaChange(mkind, media, r, s)
      BY <1>5
    <2> HIDE DEF s, name, meta
    <2>4. RowFits(mkind, s)
      BY <2>1, <2>2, <2>3 DEF RowFits
    <2>5. /\ TableFits(mkind, media')
          /\ (mkind = "movies" => s.name = r.name) => Follows(mkind, media, media')
          /\ s.name = r.name /\ Unlike(mkind, media) => Unlike(mkind, media')
          /\ media'.rows = (media.rows \ {r}) \cup {s}
      <3>1. \A t \in media.rows \ {r} : t.name # s.name
        BY <2>1, <2>2
      <3> QED
        BY <1>2, <2>1, <2>2, <2>4, <2>11, <3>1, ChangeFits
    <2>6. Follows(mkind, media, media')
      BY <2>2, <2>3, <2>5
    <2>7. mediaRenamed' \in BOOLEAN
      BY <2>11, Zenon
    <2>8. MediaTableInv'
      <3>1. mediaRenamed' \/ Unlike(mkind, media')
        BY <2>2, <2>5, <2>11 DEF MediaInv, MediaTableInv
      <3> QED
        BY <1>1, <1>2, <2>5, <3>1 DEF MediaTableInv
    <2>9. MediaTxInv' /\ MediaVisitInv' /\ MediaCountInv'
      BY <1>1, <2>7, VisitsStay DEF MediaInv, MediaTxInv, MediaCountInv
    <2>10. MediaEditInv'
      <3>1. mediaEdit' \in [Editors -> MediaEditRows]
        BY <1>1, IdleHolds DEF MediaInv, MediaEditInv
      <3>2. ASSUME NEW b \in Editors, NEW f, f = mediaEdit'[b], NEW e, e = mediaEdit[b]
            PROVE EditHolds(f)'
        <4>1. CASE b = a
          <5>1. f = MediaIdle
            BY <1>1, <3>2, <4>1 DEF MediaInv, MediaEditInv
          <5> QED
            BY <5>1, IdleHolds
        <4>2. CASE b # a
          <5>1. f = e /\ e \in MediaEditRows /\ EditHolds(e)
            BY <1>1, <3>2, <4>2 DEF MediaInv, MediaEditInv
          <5>2. ASSUME NEW x \in media'.rows, NEW y \in media.rows, x.id = y.id
                PROVE  x.links = y.links /\ x.wanted = y.wanted /\ x.stale = y.stale
            <6>1. \A u, w \in media.rows : u.id = w.id => u = w
              BY <1>2 DEF TableFits
            <6>2. x = s \/ x \in media.rows
              BY <2>5
            <6>3. x = s => r = y
              BY <2>1, <2>2, <5>2, <6>1
            <6> QED
              BY <2>2, <5>2, <6>1, <6>2, <6>3
          <5>3. e.of = "links" /\ ~ e.outdated => \A x \in media'.rows, y \in media.rows : x.id = e.id /\ y.id = e.id =>
                    x.links = y.links /\ x.wanted = y.wanted /\ x.stale = y.stale
            BY <5>2
          <5>4. TableFits(mkind, media)' /\ mkind' = mkind
            BY <1>1, <2>5
          <5> QED
            BY <2>6, <5>1, <5>3, <5>4, EditStays
        <4> QED
          BY <4>1, <4>2
      <3> QED
        BY <3>1, <3>2 DEF MediaEditInv
    <2> QED
      BY <2>8, <2>9, <2>10 DEF MediaInv
  <1> QED
    BY <1>4, <1>5 DEF WriteMeta

\* The second statement of an UpdateXLinks.
LEMMA WriteLinksKeeps ==
  ASSUME MediaInv, NEW a \in Editors, WriteLinks(a)
  PROVE  MediaInv'
  <1> DEFINE edit == mediaEdit[a]
             others == [Outdated({edit.id}) EXCEPT ![a] = MediaIdle]
             Written(r) == [r EXCEPT !.links = edit.links, !.wanted = @ \cup edit.sent,
                                     !.stale = @ \/ edit.outdated]
  <1>1. /\ edit.of = "links" /\ ~ mediaTx.open /\ mediaEdit' = others
        /\ UNCHANGED <<mkind, mediaTx, mediaVisit, mediaReport, mediaRenamed, mediaRefused, mediaOps>>
    BY DEF WriteLinks
  <1>2. edit \in MediaEditRows /\ EditHolds(edit) /\ mkind \in Kinds /\ TableFits(mkind, media)
        /\ media.nextId \in Nat
    BY DEF MediaInv, MediaEditInv, MediaTableInv, TableFits
  <1>3. edit.id \in Nat /\ edit.sent \in SUBSET {1, 2} /\ edit.links \in SUBSET {1, 2} /\ edit.outdated \in BOOLEAN
    BY <1>1, <1>2, MediaEditFields
  <1>4. /\ TableFits(mkind, media') /\ Follows(mkind, media, media')
        /\ (Unlike(mkind, media) => Unlike(mkind, media'))
        /\ \A x \in media'.rows : x.id # edit.id => x \in media.rows
    <2>1. CASE media' = media
      BY <1>2, <2>1, FollowsItself
    <2>2. ASSUME NEW r \in media.rows, r.id = edit.id, media' = MediaChange(mkind, media, r, Written(r))
          PROVE  /\ TableFits(mkind, media') /\ Follows(mkind, media, media')
                 /\ (Unlike(mkind, media) => Unlike(mkind, media'))
                 /\ \A x \in media'.rows : x.id # edit.id => x \in media.rows
      <3> DEFINE links == edit.links
                 wanted == r.wanted \cup edit.sent
                 stale == r.stale \/ edit.outdated
                 s == Written(r)
      <3>1. r \in MediaRows /\ RowFits(mkind, r)
        BY <1>2 DEF TableFits
      <3>2. r.stale \in BOOLEAN /\ r.wanted \in SUBSET {1, 2}
        BY <3>1, MediaRowFields
      <3>3. stale \in BOOLEAN
        BY Zenon
      <3>4. links \in SUBSET {1, 2} /\ wanted \in SUBSET {1, 2}
        BY <1>3, <3>2
      <3>5. s = [r EXCEPT !.links = links, !.wanted = wanted, !.stale = stale]
        OBVIOUS
      <3>6. links = wanted \/ stale
        BY <1>1, <1>2, <2>2 DEF EditHolds
      <3>12. media' = MediaChange(mkind, media, r, s)
        BY <2>2
      <3> HIDE DEF links, wanted, stale, s
      <3>7. s = [id |-> r.id, name |-> r.name, meta |-> r.meta, links |-> links, wanted |-> wanted, stale |-> stale]
        BY <3>1, <3>5 DEF MediaRows
      <3>8. s.id = r.id /\ s.name = r.name /\ s.meta = r.meta /\ s.links = links /\ s.wanted = wanted /\ s.stale = stale
        BY <3>7
      <3>9. s \in MediaRows
        BY <3>1, <3>3, <3>4, <3>7, MediaRowFields DEF MediaRows
      <3>10. RowFits(mkind, s)
        BY <3>1, <3>6, <3>8 DEF RowFits
      <3>11. \A t \in media.rows \ {r} : t.name # s.name
        BY <1>2, <3>8 DEF TableFits
      <3>13. /\ TableFits(mkind, media') /\ Follows(mkind, media, media')
             /\ (Unlike(mkind, media) => Unlike(mkind, media'))
             /\ media'.rows = (media.rows \ {r}) \cup {s}
        BY <1>2, <3>8, <3>9, <3>10, <3>11, <3>12, ChangeFits
      <3> QED
        BY <2>2, <3>8, <3>13
    <2> QED
      BY <2>1, <2>2 DEF WriteLinks
  <1>5. MediaTableInv' /\ MediaTxInv' /\ MediaVisitInv' /\ MediaCountInv'
    BY <1>1, <1>4, VisitsStay DEF MediaInv, MediaTableInv, MediaTxInv, MediaCountInv
  <1>6. MediaEditInv'
    <2>1. ASSUME NEW b \in Editors, NEW f, f = mediaEdit'[b], NEW e, e = mediaEdit[b]
          PROVE  f \in MediaEditRows /\ EditHolds(f)'
      <3>1. e \in MediaEditRows /\ EditHolds(e)
        BY <2>1 DEF MediaInv, MediaEditInv
      <3>2. CASE b = a
        <4>1. f = MediaIdle
          BY <1>1, <2>1, <3>2 DEF Outdated
        <4> QED
          BY <4>1, IdleHolds
      <3>3. CASE b # a
        <4>1. f = IF e.of = "links" /\ e.id \in {edit.id} THEN [e EXCEPT !.outdated = TRUE] ELSE e
          BY <1>1, <2>1, <3>3 DEF Outdated
        <4>2. f \in MediaEditRows
          BY <3>1, <4>1, MediaEditFields
        <4>3. e.of = "links" /\ ~ e.outdated /\ f = e => e.id # edit.id
          BY <3>1, <4>1, MediaEditFields
        <4>4. e.of = "links" /\ ~ e.outdated /\ f = e => \A x \in media'.rows, y \in media.rows : x.id = e.id /\ y.id = e.id =>
                    x.links = y.links /\ x.wanted = y.wanted /\ x.stale = y.stale
          <5>1. \A u, w \in media.rows : u.id = w.id => u = w
            BY <1>2 DEF TableFits
          <5> QED
            BY <1>4, <4>3, <5>1
        <4>5. TableFits(mkind, media)' /\ mkind' = mkind
          BY <1>1, <1>4
        <4>6. \/ f = e /\ (e.of = "links" /\ ~ e.outdated =>
                        \A x \in media'.rows, y \in media.rows : x.id = e.id /\ y.id = e.id =>
                           x.links = y.links /\ x.wanted = y.wanted /\ x.stale = y.stale)
              \/ e.of = "links" /\ f = [e EXCEPT !.outdated = TRUE]
          BY <4>1, <4>4
        <4>7. EditHolds(f)'
          BY <1>4, <3>1, <4>5, <4>6, EditStays
        <4> QED
          BY <4>2, <4>7
      <3> QED
        BY <3>2, <3>3
    <2>2. DOMAIN mediaEdit' = Editors /\ mediaEdit' = [b \in Editors |-> mediaEdit'[b]]
      BY <1>1 DEF Outdated
    <2> QED
      BY <2>1, <2>2 DEF MediaEditInv
  <1> QED
    BY <1>5, <1>6 DEF MediaInv

\* Each step of an edit keeps the invariant.
LEMMA MediaEditsKeep ==
  ASSUME MediaInv, NEW a \in Editors, MediaEdits(a)
  PROVE  MediaInv'
  <1>1. \/ \/ /\ mkind = "movies"
              /\ \E r \in media.rows, meta \in Metas \cup {""} : ReadMeta(a, r, MergedMovie(r, meta))
           \/ /\ mkind = "ebooks"
              /\ \E r \in media.rows, name \in MediaNames \cup {""}, meta \in Metas \cup {""} :
                 ReadMeta(a, r, MergedEbook(r, name, meta))
           \/ /\ mkind = "flac"
              /\ \E r \in media.rows, name \in MediaNames \cup {""}, meta \in Metas \cup {""} :
                 ReadMeta(a, r, MergedFlac(r, name, meta))
        \/ WriteMeta(a) \/ MoviesAdminRefreshTmdb(a) \/ WriteLinks(a)
        \/ \E r \in media.rows, sent \in (SUBSET {1, 2}) \ {{}} : ReadLinks(a, r, sent)
    BY DEF MediaEdits, MoviesAdminEdit, EbooksAdminEdit, FlacAdminEdit, UpdateMovieMeta, UpdateEbookMeta,
           UpdateFlacMeta, MoviesAdminEditLinks, EbooksAdminEditLinks, FlacAdminEditLinks, UpdateLinks
  <1> QED
    BY <1>1, ReadMetaKeeps, WriteMetaKeeps, RefreshKeeps, ReadLinksKeeps, WriteLinksKeeps

\* The statements find what the query means, if its label is plain.
LEMMA MeantAreFound ==
  ASSUME mkind \in Kinds, NEW c, TableFits(mkind, c), NEW q, Askable(q), Clear(q),
         NEW r \in c.rows, Meant(q, r)
  PROVE  r \in RowsOf(q, c)
  <1>1. ASSUME q.by \in {"text", "find"} PROVE r \in Matched(c, q.key)
    <2>1. q.key = r.meta \/ (mkind # "movies" /\ q.key = r.name)
      BY <1>1 DEF Meant
    <2> DEFINE e == FtsOf(mkind, r)
    <2>2. e \in c.fts /\ e.rowid = r.id
      BY IndexedUnder DEF TableFits
    <2>3. q.key \in {e.text[i] : i \in DOMAIN e.text}
      <3>1. e.text = IF mkind = "movies" THEN <<r.meta>> ELSE <<r.name, r.meta>>
        BY DEF FtsOf
      <3> HIDE DEF e
      <3>2. CASE mkind = "movies"
        <4>1. e.text = <<r.meta>> /\ q.key = r.meta
          BY <2>1, <3>1, <3>2
        <4>2. 1 \in DOMAIN e.text /\ e.text[1] = r.meta
          BY <4>1
        <4> QED
          BY <4>1, <4>2
      <3>3. CASE mkind # "movies"
        <4>1. e.text = <<r.name, r.meta>>
          BY <3>1, <3>3
        <4>2. 1 \in DOMAIN e.text /\ e.text[1] = r.name /\ 2 \in DOMAIN e.text /\ e.text[2] = r.meta
          BY <4>1
        <4> QED
          BY <2>1, <4>2
      <3> QED
        BY <3>2, <3>3
    <2> HIDE DEF e
    <2> QED
      BY <2>2, <2>3 DEF Matched
  <1>2. ASSUME q.by = "genre"
        PROVE  q.key \notin Wild /\ SqlLower[GenreOf[r.meta]] = GoLower[q.key]
    BY <1>2 DEF Meant, Clear, Plain
  <1>3. ASSUME q.by = "author" PROVE SqlLower[AuthorOf[r.name]] = GoLower[q.key]
    BY <1>3 DEF Meant, Clear, Plain
  <1>4. CASE mkind = "movies"
    <2>1. RowsOf(q, c) = MovieRows(q, c) /\ q.by \in {"text", "find", "genre", "year", "tmdb", "id", "all"}
      BY <1>4 DEF RowsOf, Askable
    <2>2. CASE q.by \in {"text", "find"}
      BY <1>1, <2>1, <2>2 DEF MovieRows, SearchMovies
    <2>3. CASE q.by = "genre"
      BY <1>2, <2>1, <2>3 DEF MovieRows, SearchMoviesByGenre
    <2>4. CASE q.by \in {"year", "tmdb", "id", "all"}
      BY <2>1, <2>4 DEF MovieRows, SearchMoviesByYear, GetMovieByTmdbID, GetMovieByID, SearchAllMovies, Meant
    <2> QED
      BY <2>1, <2>2, <2>3, <2>4
  <1>5. CASE mkind = "ebooks"
    <2>1. RowsOf(q, c) = EbookRows(q, c) /\ q.by \in {"text", "find", "genre", "author", "id", "all"}
      BY <1>5 DEF RowsOf, Askable
    <2>2. CASE q.by \in {"text", "find"}
      BY <1>1, <2>1, <2>2 DEF EbookRows, SearchEbooks, SearchEbooksPaged
    <2>3. CASE q.by \in {"genre", "author"}
      BY <1>2, <1>3, <2>1, <2>3 DEF EbookRows, SearchEbooksByGenre, SearchEbooksByAuthor
    <2>4. CASE q.by \in {"id", "all"}
      BY <2>1, <2>4 DEF EbookRows, GetEbookByID, SearchAllEbooks, Meant
    <2> QED
      BY <2>1, <2>2, <2>3, <2>4
  <1>6. CASE mkind = "flac"
    <2>1. RowsOf(q, c) = FlacRows(q, c) /\ q.by \in {"text", "find", "genre", "author", "id", "all"}
      BY <1>6 DEF RowsOf, Askable
    <2>2. CASE q.by \in {"text", "find"}
      BY <1>1, <2>1, <2>2 DEF FlacRows, SearchFlac, SearchFlacPaged
    <2>3. CASE q.by \in {"genre", "author"}
      BY <1>2, <1>3, <2>1, <2>3 DEF FlacRows, SearchFlacByGenre, SearchFlacByArtist
    <2>4. CASE q.by \in {"id", "all"}
      BY <2>1, <2>4 DEF FlacRows, GetFlacByID, SearchAllFlac, Meant
    <2> QED
      BY <2>1, <2>2, <2>3, <2>4
  <1> QED
    BY <1>4, <1>5, <1>6 DEF Kinds

\* What holds of one visit is all that a visit changes.
LEMMA OneVisitKeeps ==
  ASSUME MediaInv, NEW v \in MediaVisitors, NEW visit, VisitHolds(visit),
         mediaVisit' = [mediaVisit EXCEPT ![v] = visit],
         UNCHANGED <<mkind, media, mediaTx, mediaEdit, mediaReport, mediaRenamed, mediaRefused>>,
         mediaOps' \in 0 .. MaxMediaOps
  PROVE  MediaInv'
  <1>1. MediaTableInv' /\ MediaTxInv'
    BY TxStays
  <1>2. MediaEditInv'
    BY DEF MediaInv, MediaEditInv, EditHolds, NameHolds
  <1>3. MediaCountInv'
    BY DEF MediaInv, MediaCountInv
  <1>4. ASSUME NEW x PROVE VisitHolds(x) => VisitHolds(x)'
    BY DEF VisitHolds, Askable, Meant, Found
  <1>5. MediaVisitInv'
    <2>1. DOMAIN mediaVisit = MediaVisitors /\ \A w \in MediaVisitors : VisitHolds(mediaVisit[w])
      BY DEF MediaInv, MediaVisitInv
    <2>2. DOMAIN mediaVisit' = MediaVisitors
      BY <2>1
    <2>3. ASSUME NEW w \in MediaVisitors, NEW x, x = mediaVisit'[w] PROVE VisitHolds(x)'
      <3>1. x = visit \/ x = mediaVisit[w]
        BY <2>1, <2>3
      <3>2. VisitHolds(x)
        BY <2>1, <3>1
      <3> QED
        BY <3>2, <1>4
    <2> QED
      BY <2>2, <2>3 DEF MediaVisitInv
  <1> QED
    BY <1>1, <1>2, <1>3, <1>5 DEF MediaInv

\* A visitor asks, and the rows are counted.
LEMMA AskKeeps ==
  ASSUME MediaInv, NEW v \in MediaVisitors, NEW q, Askable(q), Ask(v, q)
  PROVE  MediaInv'
  <1> DEFINE seen == {r \in media.rows : Meant(q, r)}
             none == RowsOf(q, media) = {}
             visit == [of |-> "counted", q |-> q, none |-> none, seen |-> seen]
  <1>1. /\ mediaVisit' = [mediaVisit EXCEPT ![v] = visit]
        /\ mediaOps < MaxMediaOps /\ mediaOps' = mediaOps + 1
        /\ UNCHANGED <<mkind, media, mediaTx, mediaEdit, mediaReport, mediaRenamed, mediaRefused>>
    BY DEF Ask
  <1>2. \A r \in seen : Meant(q, r)
    OBVIOUS
  <1>3. ASSUME Clear(q), none, NEW r \in seen PROVE FALSE
    BY <1>3, MeantAreFound DEF MediaInv, MediaTableInv
  <1>4. visit.of = "counted" /\ visit.q = q /\ visit.none = none /\ visit.seen = seen
    OBVIOUS
  <1>5. VisitHolds(visit)
    <2> HIDE DEF visit, seen, none
    <2>1. Clear(q) /\ none => seen = {}
      BY <1>3
    <2>2. /\ visit.of \in {"nothing", "counted", "answered"}
          /\ visit.of # "answered"
      BY <1>4
    <2>3. Askable(visit.q) /\ (\A r \in visit.seen : Meant(visit.q, r)) /\ (Clear(visit.q) /\ visit.none => visit.seen = {})
      BY <1>2, <1>4, <2>1
    <2> QED
      BY <2>2, <2>3 DEF VisitHolds
  <1>6. mediaOps' \in 0 .. MaxMediaOps
    BY <1>1, MediaBounds DEF MediaInv, MediaCountInv
  <1> HIDE DEF visit
  <1> QED
    BY <1>1, <1>5, <1>6, OneVisitKeeps

\* The rows are read and the answer made: what was there at the count and still
\* is there is found, so that the count was not none.
LEMMA AnswerKeeps ==
  ASSUME MediaInv, NEW v \in MediaVisitors, Answer(v)
  PROVE  MediaInv'
  <1> DEFINE q == mediaVisit[v].q
             seen == mediaVisit[v].seen
             none == mediaVisit[v].none
             rows == RowsOf(q, media)
  <1>1. /\ mediaVisit[v].of = "counted" /\ mediaOps' = mediaOps
        /\ UNCHANGED <<mkind, media, mediaTx, mediaEdit, mediaReport, mediaRenamed, mediaRefused>>
    BY DEF Answer
  <1>2. PICK keyed \in {{}, {r.id : r \in media.rows}} :
          mediaVisit' = [mediaVisit EXCEPT ![v] =
            [of |-> "answered", q |-> q, items |-> Items(q, rows, keyed),
             missing |-> Missing(q, none, rows, Items(q, rows, keyed)),
             keyed |-> keyed, steady |-> seen \cap media.rows]]
    BY DEF Answer
  <1> DEFINE items == Items(q, rows, keyed)
             missing == Missing(q, none, rows, items)
             steady == seen \cap media.rows
             due == {r \in steady : r.id \in keyed}
             visit == [of |-> "answered", q |-> q, items |-> items, missing |-> missing,
                       keyed |-> keyed, steady |-> steady]
  <1>3. /\ Askable(q) /\ (\A r \in seen : Meant(q, r)) /\ (Clear(q) /\ none => seen = {})
        /\ mkind \in Kinds /\ TableFits(mkind, media)
    BY <1>1 DEF MediaInv, MediaVisitInv, VisitHolds, MediaTableInv
  <1>4. Clear(q) => steady \subseteq rows
    BY <1>3, MeantAreFound
  <1>5. Clear(q) => due \subseteq items
    <2> HIDE DEF q, rows
    <2> QED
      BY <1>3, <1>4 DEF Items, Administered, MovieItems, EbookItems, FlacItems, Kinds
  <1>6. ASSUME Clear(q), due # {} PROVE ~ missing
    <2>1. rows # {} /\ items # {} /\ ~ none
      BY <1>3, <1>4, <1>5, <1>6
    <2> HIDE DEF q, rows, none, items
    <2>2. CASE mkind = "movies"
      BY <1>3, <2>1, <2>2 DEF Missing, MovieMissing, Askable, Browsed
    <2>3. CASE mkind = "ebooks"
      BY <1>3, <2>1, <2>3 DEF Missing, EbookMissing, Askable, Browsed
    <2>4. CASE mkind = "flac"
      BY <1>3, <2>1, <2>4 DEF Missing, FlacMissing, Askable, Browsed
    <2> QED
      BY <1>3, <2>2, <2>3, <2>4 DEF Kinds
  <1>7. VisitHolds(visit)
    <2>1. /\ visit.of = "answered" /\ visit.q = q /\ visit.items = items /\ visit.missing = missing
          /\ {r \in visit.steady : r.id \in visit.keyed} = due
      OBVIOUS
    <2> HIDE DEF visit, items, missing, due, q
    <2>2. Found(visit)
      BY <1>5, <1>6, <2>1 DEF Found, Clear
    <2> QED
      BY <2>1, <2>2 DEF VisitHolds
  <1>8. mediaVisit' = [mediaVisit EXCEPT ![v] = visit] /\ mediaOps' \in 0 .. MaxMediaOps
    BY <1>1, <1>2 DEF MediaInv, MediaCountInv
  <1> HIDE DEF visit
  <1> QED
    BY <1>1, <1>7, <1>8, OneVisitKeeps

\* Each step of a visit keeps the invariant.
LEMMA MediaVisitsKeep ==
  ASSUME MediaInv, NEW v \in MediaVisitors, MediaVisits(v)
  PROVE  MediaInv'
  <1>1. CASE \E q : Askable(q) /\ Ask(v, q)
    BY <1>1, AskKeeps
  <1>2. CASE Answer(v)
    BY <1>2, AnswerKeeps
  <1>3. CASE Forget(v)
    <2>1. MediaIdle.of = "nothing"
      BY DEF MediaIdle
    <2>2. VisitHolds(MediaIdle)
      BY <2>1 DEF VisitHolds
    <2>3. mediaOps' \in 0 .. MaxMediaOps
      BY <1>3 DEF Forget, MediaInv, MediaCountInv
    <2> QED
      BY <1>3, <2>2, <2>3, OneVisitKeeps DEF Forget
  <1>4. ASSUME AdminRead(v) PROVE \E q : Askable(q) /\ Ask(v, q)
    <2>1. ASSUME NEW by \in {"id", "find", "all"}, NEW key PROVE Askable([by |-> by, key |-> key])
      BY DEF Askable
    <2> QED
      BY <1>4, <2>1 DEF AdminRead
  <1>5. ASSUME NEW by \in {"text", "tmdb", "year", "genre"}, NEW key, mkind = "movies"
        PROVE  Askable([by |-> by, key |-> key])
    BY <1>5 DEF Askable
  <1>6. ASSUME NEW by \in {"text", "author", "genre"}, NEW key, mkind # "movies"
        PROVE  Askable([by |-> by, key |-> key])
    BY <1>6 DEF Askable
  <1>7. ASSUME MoviesSearch(v) \/ MoviesBrowseByYear(v) \/ MoviesBrowseByGenre(v)
        PROVE  \E q : Askable(q) /\ Ask(v, q)
    BY <1>5, <1>7 DEF MoviesSearch, MoviesBrowseByYear, MoviesBrowseByGenre
  <1>8. ASSUME \/ EbooksSearch(v) \/ EbooksBrowseByAuthor(v) \/ EbooksBrowseByGenre(v)
               \/ FlacSearch(v) \/ FlacBrowseByArtist(v) \/ FlacBrowseByGenre(v)
        PROVE  \E q : Askable(q) /\ Ask(v, q)
    BY <1>6, <1>8 DEF EbooksSearch, EbooksBrowseByAuthor, EbooksBrowseByGenre,
                      FlacSearch, FlacBrowseByArtist, FlacBrowseByGenre
  <1> QED
    BY <1>1, <1>2, <1>3, <1>4, <1>7, <1>8
    DEF MediaVisits, MoviesAdminRead, EbooksAdminRead, FlacAdminRead

\* Each request that writes keeps the invariant.
LEMMA MediaWritesKeep ==
  ASSUME MediaInv, MediaWrites
  PROVE  MediaInv'
  <1>1. \/ \E n \in MediaNames : \E meta \in MetasFor(n) : AddMedia(Upserts(mkind, media, n, meta))
        \/ \E n \in MediaNames : \E meta \in MetasFor(n) :
              mediaTx.open /\ BulkMedia(Upserts(mkind, mediaTx.table, n, meta))
        \/ \E size \in 1 .. MaxMediaBulk : \E valid \in [1 .. size -> BOOLEAN] : BeginBulk(valid)
        \/ CommitBulk \/ RollBackBulk
        \/ \E r \in media.rows : DeleteMedia(MediaRemove(mkind, media, r))
    BY DEF MediaWrites, MoviesAdminAdd, EbooksAdminAdd, FlacAdminAdd, BulkUpsertMovies,
           BulkUpsertEbooks, BulkUpsertFlac, MoviesAdminBulkAdd, EbooksAdminBulkAdd,
           FlacAdminBulkAdd, MoviesAdminDelete, EbooksAdminDelete, FlacAdminDelete,
           DeleteMovie, DeleteEbook, DeleteFlac, Upserts
  <1> QED
    BY <1>1, AddKeeps, BulkKeeps, DeleteKeeps

\* Every action keeps the invariant.
LEMMA MediaInvHolds == MediaSpec => []MediaInv
  <1>1. MediaInit => MediaInv
    BY MediaInvInit
  <1>2. MediaInv /\ [MediaNext]_mediaVars => MediaInv'
    <2> SUFFICES ASSUME MediaInv, [MediaNext]_mediaVars PROVE MediaInv'
      OBVIOUS
    <2>1. CASE MediaNext
      BY <2>1, MediaWritesKeep, MediaEditsKeep, MediaVisitsKeep DEF MediaNext
    <2>2. CASE UNCHANGED mediaVars
      <3>1. UNCHANGED <<mkind, media, mediaTx, mediaEdit, mediaVisit, mediaReport, mediaRenamed,
                        mediaRefused, mediaOps>>
        BY <2>2 DEF mediaVars
      <3>2. MediaTableInv' /\ MediaTxInv' /\ MediaVisitInv'
        BY <3>1, TxStays, VisitsStay
      <3>3. MediaEditInv' /\ MediaCountInv'
        BY <3>1 DEF MediaInv, MediaEditInv, MediaCountInv, EditHolds, NameHolds
      <3> QED
        BY <3>2, <3>3 DEF MediaInv
    <2> QED
      BY <2>1, <2>2
  <1> QED
    BY <1>1, <1>2, PTL DEF MediaSpec

\* MediaFits: the triggers keep the text index beside the rows, ids are given
\* once, and what UNIQUE would refuse has been found before by the lookup of the
\* upsert, in transactions as in single statements (pkg/downloaderstore).
THEOREM MediaKeepFitting == MediaSpec => []MediaFits
  <1>1. MediaInv => MediaFits
    <2> SUFFICES ASSUME MediaInv PROVE MediaFits
      OBVIOUS
    <2>1. mkind \in Kinds /\ TableFits(mkind, media) /\ (mediaRenamed \/ Unlike(mkind, media))
      BY DEF MediaInv, MediaTableInv
    <2>2. MediaTypeOK
      <3>1. TableOK(media) /\ (mediaTx.open => TableOK(mediaTx.table))
        BY <2>1 DEF MediaInv, MediaTxInv, TableFits, TableOK
      <3>2. \A a \in Editors : mediaEdit[a].of \in {"nothing", "meta", "links", "refresh"}
        BY MediaEditFields DEF MediaInv, MediaEditInv
      <3>3. \A v \in MediaVisitors : mediaVisit[v].of \in {"nothing", "counted", "answered"}
        BY DEF MediaInv, MediaVisitInv, VisitHolds
      <3> QED
        BY <2>1, <3>1, <3>2, <3>3 DEF MediaTypeOK, MediaInv, MediaCountInv
    <2>3. IndexFits
      BY <2>1 DEF TableFits, IndexFits
    <2>4. UpsertFindsTheKey /\ MediaAlikeOnlyByRenaming
      BY <2>1 DEF MediaInv, MediaCountInv, Unlike, UpsertFindsTheKey, MediaAlikeOnlyByRenaming
    <2> QED
      BY <2>2, <2>3, <2>4 DEF MediaFits
  <1> QED
    BY <1>1, MediaInvHolds, PTL

\* MediaEditsFit: an edit writes what it has read, or got from TMDB, to the row
\* of its id, which is given once; a movie's key never changes, and an edit of
\* links that something overtook is known as stale.
THEOREM MediaEditsKeepFitting == MediaSpec => []MediaEditsFit
  <1>1. MediaInv => MediaEditsFit
    BY DEF MediaInv, MediaTableInv, TableFits, RowFits, MediaEditsFit, TmdbMetaFits, LinkEditsKept
  <1> QED
    BY <1>1, MediaInvHolds, PTL

\* SteadyRowsAreFound: between the count and the rows of a search others may
\* write, but a row that stays is in both, for every way to search and every
\* label that is lowered alike by Go and SQLite and has no wild character.
THEOREM SteadyRowsStayFound == MediaSpec => []SteadyRowsAreFound
  <1>1. MediaInv => SteadyRowsAreFound
    BY DEF MediaInv, MediaVisitInv, VisitHolds, Found, SteadyRowsAreFound
  <1> QED
    BY <1>1, MediaInvHolds, PTL

\* MediaBulkReported, by the tally of the open transaction.
LEMMA MediaReports == MediaSpec => []MediaBulkReported
  <1>1. MediaInv => MediaBulkReported
    BY DEF MediaInv, MediaCountInv, MediaBulkReported
  <1> QED
    BY <1>1, MediaInvHolds, PTL

\* ReportsAreTrue: among the places of a request those passed on are the
\* valid ones, each once, whatever the lengths, so that applied, failed and
\* invalid ones of a committed request are apart and all of them; one that is
\* refused names an entry that was passed on (AdminBulkAdd of each catalog).
THEOREM ReportsStayTrue == CatalogsSpec => []ReportsAreTrue
  <1>1. CatalogsInit => AppInit /\ MediaInit
    BY DEF CatalogsInit
  <1>2. [CatalogsNext]_catalogVars => [AppNext]_appVars /\ [MediaNext]_mediaVars
    BY DEF CatalogsNext, AppMoves, MediaMoves, MaskMoves, PageMoves, catalogVars
  <1>3. CatalogsSpec => AppSpec /\ MediaSpec
    BY <1>1, <1>2, PTL DEF CatalogsSpec, AppSpec, MediaSpec
  <1>4. BulkReported /\ MediaBulkReported => ReportsAreTrue
    BY DEF ReportsAreTrue
  <1> QED
    BY <1>3, <1>4, AppReports, MediaReports, PTL
=============================================================================
