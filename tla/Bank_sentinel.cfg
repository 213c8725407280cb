\* The spec's rule that an invalid bank carries only sentinel metrics.
SPECIFICATION Spec
INVARIANT InvalidImpliesSentinel
\* The lifecycle ends when CalculateLatencyAndPower has run and the search
\* reads the bank.
CHECK_DEADLOCK FALSE
