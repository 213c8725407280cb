\* A bank of every cell kind and array kind, internal and external sensing,
\* every early return of Initialize and every late invalidation, seen
\* through both its own fields and its global sensing units.
SPECIFICATION Spec
INVARIANT AcceptedBankComputed
INVARIANT UnitCallsWellFormed
INVARIANT ValidBankComputed
\* The lifecycle ends when CalculateLatencyAndPower has run and the search
\* reads the bank.
CHECK_DEADLOCK FALSE
