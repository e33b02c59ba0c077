\* One request after the other, each of any method, to any path, with any token.
SPECIFICATION Spec
CONSTANTS
  Methods = {"GET", "POST", "OPTIONS"}
  Paths <- MCPaths
  Users = {1, 2}
  BadToken = BadToken
  HandlerCodes = {0, 400, 403, 404, 409, 500}
  None = None
INVARIANTS
  HandlersSeeTheTokensUser
  SpelledOutWins
  AnswersCarryCORS
  OnlyPanicsAreUnlogged
PROPERTY
  ImplementsExchange
