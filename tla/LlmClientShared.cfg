\* Two callers; the interval is two ticks, a hint may exceed maxBackoff.
SPECIFICATION FairSpec
CONSTANTS
  Callers = {c1, c2}
  Interval = 2
  Second = 1
  MaxBackoff = 3
  MaxRetries = 2
  RetryAfters = {0, 3, 4}
INVARIANTS
  TypeOK
  SlotsSpaced
  QueueBound
  WaitBound
  
  RequestsBounded
PROPERTIES
  ImplementsCompleter
  CallsReturn
