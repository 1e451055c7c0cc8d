CONSTANTS
  SIZE = 6
  Lens = {4}
  Reads = {2, 6}
  Types = {"SEC", "PES"}
  Guesses = {1}
  MaxChunks = 3
SPECIFICATION Spec
CONSTRAINT Apart
INVARIANTS TypeOK Framed
PROPERTIES FifoSpec WakesUp
