SPECIFICATION WindowSpec
CONSTANTS
  Minimum = 4
  Initial = 16
  Maximum = 4096
  Step = 4
  Word <- Word22
  RoundTrips = {0, 7, 40, 160, 1500, 2000}
  InFlights = {0, 20, 300, 5000}
INVARIANTS WindowBounded LatencyIsLeast CongestionWasMeasured
PROPERTY SlowsDown
