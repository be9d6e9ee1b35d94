SPECIFICATION Spec
CONSTANTS
  n1 = n1
  n2 = n2
  n3 = n3
  p1 = p1
  p2 = p2
  p3 = p3
  p4 = p4
  p5 = p5
  Nodes = {n1, n2, n3}
  Self = n1
  AllTerms <- MCTerms
  TermHome <- MCHome
  Pages = {p1, p2, p3, p4, p5}
  Stopwords = {"the"}
  NGRAM_LEN = 2
  MAX_SEARCH_RESULTS = 2
  Content <- MCContent
  Idf <- MCIdf
  Plans <- MCPlans
  PropertyOrder <- MCOrder
  Builtin = {"search", "termLookup"}
  Dynamic = {"dynamic"}
  NotCached = NotCached
  Absent = Absent
INVARIANTS
  MessagingTypeOK
  AnsweredOnce
  LookupsAreComplete
  RankedPagesMatch
  RoundTrip
PROPERTIES
  OperationsAnswer
CHECK_DEADLOCK FALSE
