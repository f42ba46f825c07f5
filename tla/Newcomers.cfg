SPECIFICATION FairBackendSpec
CONSTANTS
  m1 = m1
  n1 = n1
  n2 = n2
  annUSD = annUSD
  annEUR = annEUR
  sysUSD = sysUSD
  sysEUR = sysEUR
  none = none
  Request <- MCRequest
  Registrant <- MCRegistrant
  Account <- MCAccount
  PoolSize = 4
  MaxAttempts = 2
  User = {"ann", "newcomer1", "newcomer2"}
  NoUser = "NULL"
  NoAccount = none
  Owner <- MCOwner
  CurrencyOf <- MCCurrencyOf
  SystemAccount <- MCSystemAccount
  OpeningBalance <- MCOpeningBalance
  Seed <- MCSeed
  Rank <- MCRank
  Quote = {}
  NoQuote = none
  NoKey = none
  Input <- MCInput
  QuoteInput = {}
  NewAccount <- MCNewAccount
  OpeningAmount <- MCOpeningAmount
  Form <- MCForm
  Malformed = "malformed"
CHECK_DEADLOCK FALSE
INVARIANTS
  Reconciled
  NoOverdraft
  RegisteredTogether
  MoneyConserved
PROPERTIES
  ImplementsOpenBank
  EveryoneServed
