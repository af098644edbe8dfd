\* Both trigger handlers, both trigger kinds, every mix of present and
\* missing aplogs 0..4, properties and APLOG= values around 0, failing
\* directories; every user-crash event type, apcore names of every shape
\* up to the bound, failing directories, copies and data files; every
\* command line of up to four characters run with timeouts 0 and 1 s;
\* every configuration of up to three notify sections; two mount checks
\* over mount tables with every subset of the five mount points.
CONSTANTS
    MaxIndex <- FiveAplogs
    PropValues <- SmallProps
    TriggerValues <- SmallTriggerValues
SPECIFICATION HandlersSpec
INVARIANT TypeOK
INVARIANT EventsFollowPackets
INVARIANT TriggerKeptUntilHandled
INVARIANT UserCrashTypeOK
INVARIANT ApcoreFieldsFromName
INVARIANT RunTypeOK
INVARIANT ArgvAsSplit
INVARIANT NoChildLeft
INVARIANT StatusOfOwnExit
INVARIANT ConfigTypeOK
INVARIANT LoadedExactlyAccepted
INVARIANT PartitionsTypeOK
INVARIANT NoFalsePartitionAlarm
INVARIANT ErrorsInOneCall
PROPERTY RunReturns
\* A handler returns: the daemon goes back to waiting for events.
CHECK_DEADLOCK FALSE
