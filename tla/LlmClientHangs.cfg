\* One caller is enough; the endpoint need not answer.
SPECIFICATION FairSpec
CONSTANTS
  Callers = {c1}
  Interval = 1
  Second = 1
  MaxBackoff = 1
  MaxRetries = 1
  RetryAfters = {0}
PROPERTIES
  RequestTimesOut
