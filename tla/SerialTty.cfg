SPECIFICATION FairSpec
CONSTANTS
  Platforms <- MCPlatforms
  Children <- MCChildren
  Readers <- MCReaders
INVARIANTS IInv EndsMeanUnplugged
PROPERTIES UnplugIsNoticed WritesReturn
