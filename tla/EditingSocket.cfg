CONSTANTS
  Sizes = {1, 2, 5}
  MaxBytes = 4
  MaxMessages = 3
  MaxReceived = 4
  Sessions = {d1, d2}
  Lengths = {2, 4}
  MaxBackpressureBytes = 3
  MaxSends = 3
  MaxControl = 1
SPECIFICATION SocketSpec
INVARIANTS BoundedBacklog NothingLeaks ClosedOnce NoSilentDrop BoundedBuffer SlowCountedOnce
CHECK_DEADLOCK FALSE
