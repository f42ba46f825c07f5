SPECIFICATION AdminSpec
CONSTANTS
  r1 = r1
  r2 = r2
  a1 = a1
  a2 = a2
  a3 = a3
  none = none
  sysUSD = sysUSD
  sysEUR = sysEUR
  Request <- MCRequest
  Registrant <- MCRegistrant
  Account <- MCAccount
  PoolSize = 3
  MaxAttempts = 2
  NewAccount <- MCNewAccount
  OpeningAmount <- MCOpeningAmount
  SystemAccount <- MCSystemAccount
  SystemBalance <- MCSystemBalance
  Seed <- MCSeed
  Form <- MCForm
  Malformed = "malformed"
  Command <- MCCommand
  NoTarget = none
SYMMETRY Symmetry
CHECK_DEADLOCK FALSE
INVARIANTS
  RegistrationTypeOK
  OneSuperAdmin
  OpeningsReconciled
  OpeningsFunded
  NamesUnique
  RegistrationsNeverCross
  AppointedBySuper
  RolesForAdmins
  Audited
