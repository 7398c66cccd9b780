\* Registrations and crawl-job requests of a page, spelled in three ways, and of another.
SPECIFICATION IntakeSpec
CONSTANTS
  None = None
  x1 = x1
  x2 = x2
  Sessions = {x1, x2}
  Urls <- MCUrls
  Keys <- MCUrls
  Batches <- Singles
INVARIANTS
  OneJobPerKey
  CreatedMeansStored
  AnswersNameStoredPages
  DuplicatesOnlyByRace
  OneJobPerPage
SYMMETRY SessionSymmetry
