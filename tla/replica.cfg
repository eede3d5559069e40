\* Two replicas that read and write one database and probe one volume.
SPECIFICATION FairSpec
CONSTANTS
    Replicas = {r1, r2}
    Writes = {write1, write2}
    Null = Null
    MaxAttempts = 2
    Probes = {probe}
INVARIANTS
    TypeOK
    NoStaleTransaction
    ReadyMeansWritable
    LeftoverIsReported
PROPERTIES
    WritesAreAtomic
    EveryWriteEnds
    EveryProbeAnswered
    ProbeFileRemoved
