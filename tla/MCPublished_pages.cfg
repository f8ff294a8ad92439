SPECIFICATION PublishedSpec
CONSTANTS
  m1 = m1
  pdf1 = pdf1
  r1 = r1
  r2 = r2
  w1 = w1
  w2 = w2
  Subject = {"pages", "biography", "biography text"}
  Publisher = {m1}
  MissBudget = 1
  MaxWrites = 2
  MaxSales = 1
  Pdf = {pdf1}
  Organizer = {r1, r2}
  BioWorker = {w1, w2}
  MaxAttempts = 2
  MaxRetries = 1
  MaxBioFaults = 1
  Biography <- Biographies
  Wrapping <- Wrappings
  SmallName <- SmallNames
  MaxProfiles = 2
INVARIANTS
  PagesAreServedFairly
  JobsAreSound
PROPERTIES
  PagesConverge
  JobsEnd
CHECK_DEADLOCK FALSE
