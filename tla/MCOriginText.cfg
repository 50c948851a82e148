SPECIFICATION TextSpec
CONSTANT MaxText = 3
INVARIANT NormalizeIsIdempotent
CHECK_DEADLOCK FALSE
