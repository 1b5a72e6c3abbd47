SPECIFICATION KafkaSpec
CONSTANTS
  Articles = {a1}
  Dispatchers = {d1, d2}
  Tokens <- FourTokens
  Stamps = {1}
  LeaseSeconds = 1
  DelayCap = 1
  ExponentCap = 1
  MaxFaults = 1
  None = None
PROPERTIES KafkaDelivered
