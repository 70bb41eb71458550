\* A cascade of two ciphers; one command of an operation fails.
SPECIFICATION Spec
CONSTANTS
  MaxCiphers = 2
  MaxFaults = 1
INVARIANT UnmountErasesKeys
CHECK_DEADLOCK FALSE
