CONSTANTS
  Endpoint <- AllEndpoints
  Object <- AllObjects
  Union <- UnionTypes
  NamedType <- NamedTypes
  CodeOf <- ErrorKindCode
  KnownCode <- ErrCode
  Ambiguous <- SharedRoutes
  Lossy <- KnownLossy
SPECIFICATION SpecApi
INVARIANTS CallsArriveAsMeant AnswersArriveAsGiven ValuesSurvive
