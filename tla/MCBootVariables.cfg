\* Four option numbers: the two defaults, an operating system and a free one;
\* machines whose writes fail and machines whose writes do not.
SPECIFICATION Spec
CONSTANT MaxNumber = 3
INVARIANTS NoDuplicateDefaults DefaultsRestored LockIsComplete LockedBootNextIsAbsent
