SPECIFICATION Spec
CONSTANTS
  MaxOutstanding = 2
  DataWords = {{0}, {1}}
INVARIANTS WritesInOrder OneResponsePerWrite
PROPERTIES WriteTakesEffect
