\* A short buffer and the bytes that matter to it: HEAD, START, IMU, lengths
\* below, at and above the buffer size, and sums.
CONSTANTS
  BufSize = 5
  Bytes = {165, 90, 161, 1, 3, 4, 5}
  HeapBytes = {0, 3}
SPECIFICATION Spec
INVARIANT RoutedOnce
INVARIANT FramesRouted
