SPECIFICATION FairSendSpec
CONSTANTS
    SendAttempts = 3
    MaxSends = 3
INVARIANTS TrueMeansDelivered CounterMatchesLosses
PROPERTIES NoPostAfterPermanent EverySendReturns
\* The process stops sending after MaxSends.
CHECK_DEADLOCK FALSE
