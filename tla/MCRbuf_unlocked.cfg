CONSTANTS
  SIZE = 5
  Lens = {3}
  Reads = {6}
  Types = {"PES"}
  Guesses = {1}
  MaxChunks = 3
SPECIFICATION Spec
PROPERTY FifoSpec
