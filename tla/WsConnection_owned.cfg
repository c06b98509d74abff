\* The composition the package builds: one sender, the client's distribution pump.
CONSTANTS
    Senders = {d1}
    Capacity = 1
    MaxSends = 3
SPECIFICATION FairSpec
CHECK_DEADLOCK FALSE
INVARIANTS ChannelsSafe StopReturnsStopped WaitGroupSafe
PROPERTIES MailboxImplemented SendReturns DeadPumpStopsConnection
