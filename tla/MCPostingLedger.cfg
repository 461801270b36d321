SPECIFICATION FairSpec
CONSTANTS
  k1 = k1
  k2 = k2
  cash = cash
  sales = sales
  po1 = po1
  po2 = po2
  Posters = {po1, po2}
  Controllers = {c1}
  Periods = {jan}
  Keys = {k1, k2}
  KeysOf <- EveryKey
  Accounts = {cash, sales}
  CreditNormal = {sales}
  Lines <- TwoLines
  AdjustingKeys = {k2}
  AttestedKeys = {k2}
  NoKey = NoKey
  NoPeriod = NoPeriod
  MaxOpen = 1
  MaxTries = 2
  MaxNumber = 2
  MaxCrashes = 1
  MaxLostAcks = 1
INVARIANTS
  OneJournalPerKey
  NumbersNeverReused
  AnswersNameTheLedger
  BalancesFollowJournals
PROPERTIES
  JournalsEnterPostablePeriods
  ImplementsContract
  NumberSettles
CHECK_DEADLOCK FALSE
