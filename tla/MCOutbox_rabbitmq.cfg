SPECIFICATION RabbitMQSpec
CONSTANTS
  Articles = {a1, a2}
  Dispatchers = {d1}
  Tokens <- FiveTokens
  Stamps = {1, 2}
  LeaseSeconds = 1
  DelayCap = 1
  ExponentCap = 1
  MaxFaults = 1
  None = None
PROPERTIES RabbitMQDelivered
