\* The sizes of the code (BUFFER_COUNT and .size of the lpc43xx board): every order of captures,
\* failures and transmissions against every step of the main loop.
CONSTANTS
  BufferCount = 5
  Depth = 8
SPECIFICATION Spec
INVARIANTS TypeOK Ownership RoleMatchesPlace NoLostWakeup
PROPERTY RingSpec
