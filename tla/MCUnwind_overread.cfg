\* Five words: the stack is 1 .. 3, the guard range 2 .. 4, and every
\* memory over them is tried, with a depth of 2.
CONSTANTS
  MaxAddr = 4
  StackLo = 1
  StackHi = 3
  TextLo = 2
  TextHi = 4
  Depth = 2
SPECIFICATION Spec
INVARIANT ReadsChecked
\* The walk ends; done has no successor.
CHECK_DEADLOCK FALSE
