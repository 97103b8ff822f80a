\* Several connections and rebufferings within one run of the clock.
SPECIFICATION Spec
CONSTANTS
  Timeout = 3
  MaxRedirects = 2
  MaxTime = 10
PROPERTIES NeverTooLate StartsBehindHeader
