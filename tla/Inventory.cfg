SPECIFICATION DiscoverySpec
CONSTANTS
    Confirmation = 2
    Names <- SomeNames
    OwnName <- SomeOwn
    Classified <- SomeClassified
    Extra <- SomeExtra
INVARIANTS CountsPasses
PROPERTIES ConfiguredIsWatched
