\* A host of seven tokens is the longest that getnameinfo may print.
SPECIFICATION UriSpec
CONSTANTS
  Tokens <- MCTokens
  Words <- MCWords
  Number <- MCNumber
  Service <- MCService
  HostName <- MCHostName
  Literals <- MCLiterals
  Schemes = {"http", "tftp", "http-alt", "httttttp"}
  Hosts <- MCHosts
  Paths <- MCPaths
  MaxHost = 8
INVARIANT Understood
