SPECIFICATION PlacesSpec
CONSTANT Networks <- SomeNetworks
INVARIANTS SubnetsDisjoint WholeNetworkUsed
