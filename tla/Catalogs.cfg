CONSTANTS
  Names <- MCNames
  LowerOf <- MCLowerOf
  SlugOf <- MCSlugOf
  Clock = {7}
  MaxSuffix = 2
  VersionTexts = {"1.0"}
  Images = {"", "png"}
  Admins = {a1, a2}
  Visitors = {v1}
  MaxBulk = 2
  MaxAppOps = 4
  AppDbMayFail = TRUE
  MediaNames <- MCMediaNames
  MediaLower <- MCMediaLower
  Metas = {"m1"}
  TmdbMeta <- MCTmdb
  AuthorOf <- MCAuthor
  GenreOf <- MCGenre
  GoLower <- MCLower
  SqlLower <- MCLower
  Wild = {"sci_fi"}
  Editors = {a1, a2}
  MediaVisitors = {v1}
  MaxMediaOps = 4
  MaxMediaBulk = 2
  MediaDbMayFail = TRUE
  Addresses = {"u1", "u2"}
  Batches <- MCBatches
  Maskers = {a1, a2}
  MemLife = 2
  MaskLife = 3
  MaxBatches = 3
  MaxMaskTicks = 6
  MaxMaskRefusals = 1
  Pages = {"video", "album"}
  SiteOf <- MCSite
  Files <- MCFiles
  PageClients = {a1, a2}
  TickMinutes = 60
  MaxGen = 2
  MaxVisits = 2
  MaxTicks = 3
  MaxRefusals = 1
SPECIFICATION CatalogsSpec
SYMMETRY CatalogSymmetry
INVARIANTS AppsFit AppAnswersFit ReportsAreTrue MediaFits MediaEditsFit SteadyRowsAreFound MasksLead PageLinksLead
CHECK_DEADLOCK FALSE
