SPECIFICATION Spec
CONSTANTS
  Operations = {o1, o2, o3}
  Levels <- MCLevels
  Installation = "inst"
  BudgetLevels = {"inst"}
  Scopes = {"s"}
  Chains <- MCChains
  Definition <- MCDefinition
  DefaultSlots <- MCDefaultSlots
  Currencies = {"XXX", "EUR", "USD"}
  Requests <- MCRequests
  Usages <- MCUsages
  BudgetLimits <- MCBudgetLimits
  NoCap <- MCNoCap
  MaxBudgetVersion = 2
SYMMETRY OperationSymmetry
INVARIANTS
  TypeOK
  SlotsBalance
  PositionsBalance
  ExposureWithinCeiling
  SlotsWithinCeiling
  CurrencyPinned
  LedgerCloses
  SettlementNeverStuck
PROPERTY
  TerminalFrozen
