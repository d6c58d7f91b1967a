CONSTANTS
  Tickers = 3
  RateLimit = 20
  RequestTimeout = 10
  Interval = 60
SPECIFICATION FairSpec
INVARIANTS RateKept StopIsPrompt
PROPERTY EveryTickerTried
\* The thread ends after stop(), or with the process.
CHECK_DEADLOCK FALSE
