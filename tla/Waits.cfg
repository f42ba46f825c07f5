CONSTANTS
  r1 = r1
  r2 = r2
  r3 = r3
  annUSD = annUSD
  annEUR = annEUR
  bobUSD = bobUSD
  bobEUR = bobEUR
  sysUSD = sysUSD
  sysEUR = sysEUR
  none = none
  q1 = q1
  k1 = k1
  Request = {r1, r2}
  Account <- MCAccount
  User <- MCUser
  NoUser <- MCNoUser
  NoAccount = none
  NoQuote = none
  NoKey = none
  Quote = {q1}
  Owner <- MCOwner
  CurrencyOf <- MCCurrencyOf
  SystemAccount <- MCSystemAccount
  OpeningBalance <- MCOpeningBalance
  Seed <- MCSeed
  Rank <- MCRank
  Input <- WaitingInput
  QuoteInput <- MCQuoteInput
  PoolSize = 4
  MaxAttempts = 2
SPECIFICATION FairSpec
CHECK_DEADLOCK FALSE
INVARIANTS
  Reconciled
  AnswerTruthful
PROPERTY EventuallyAnswered
