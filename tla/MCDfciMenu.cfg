SPECIFICATION Spec
CONSTANT MaxNics = 2
CONSTANT Tries = 2
CONSTANT MaxDrives = 2
INVARIANT DfciTypeOK
INVARIANT CertificatesRestored
INVARIANT AcceptedOnce
INVARIANT NicRestored
PROPERTY ImplementsRequest
INVARIANT NothingFreedIsUsed
PROPERTY RequestEnds
