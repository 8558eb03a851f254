SPECIFICATION Spec
CONSTANT MaxNics = 1
CONSTANT Tries = 2
CONSTANT MaxDrives = 1
INVARIANT ResponseIsOfThisRequest
