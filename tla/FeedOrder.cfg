CONSTANTS
  r1 = r1
  r2 = r2
  r3 = r3
  annUSD = annUSD
  annEUR = annEUR
  bobUSD = bobUSD
  bobEUR = bobEUR
  sysUSD = sysUSD
  sysEUR = sysEUR
  none = none
  q1 = q1
  k1 = k1
  Request = {r1, r2}
  c1 = c1
  c2 = c2
  Client = {c1, c2}
  ClientUser <- MCClientUser
  BufferSize = 10
  Account <- MCAccount
  User <- MCUser
  NoUser <- MCNoUser
  NoAccount = none
  NoQuote = none
  NoKey = none
  Quote = {}
  Owner <- MCOwner
  CurrencyOf <- MCCurrencyOf
  SystemAccount <- MCSystemAccount
  OpeningBalance <- MCOpeningBalance
  Seed <- MCSeed
  Rank <- MCRank
  Input <- FeedInput
  QuoteInput = {}
  PoolSize = 3
  MaxAttempts = 2
SPECIFICATION PaidFeedSpec
CHECK_DEADLOCK FALSE
INVARIANT FeedCurrent
