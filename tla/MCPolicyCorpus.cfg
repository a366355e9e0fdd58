CONSTANTS
  Rbacs <- MCRbacs
  Odrls <- MCOdrls
  Worlds <- MCWorlds
  Shipped <- MCShipped
  CanonicalPredicate = "approved cohort"
  NoString = NoString
  Nothing = Nothing
  MaxEdits = 2
SPECIFICATION Spec
INVARIANT OneReading
INVARIANT TranslationsAgree
INVARIANT CorpusIsMediations
INVARIANT ParsersAgree
CHECK_DEADLOCK FALSE
