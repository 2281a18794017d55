SPECIFICATION Spec
CONSTANTS
    Crc <- MCCrc
    Configurations <- AllConfigurations
    Ips <- TwoIps
    Numbers <- SomeNumbers
    Settings <- InUse
    Builds <- BothBuilds
INVARIANTS
    TypeOK
PROPERTIES
    ImplementsStore
    SavedUnlessClear
    SetupEnds
