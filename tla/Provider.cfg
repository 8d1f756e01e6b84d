\* Two hosts of two addresses, three targets, two changes of a name.
SPECIFICATION FairSpec
CONSTANTS
    h1 = h1
    h2 = h2
    i1 = i1
    i2 = i2
    Hosts = {h1, h2}
    Ips = {i1, i2}
    Ports <- MCPorts
    Configs <- MCConfigs
    MaxChanges = 2
INVARIANTS EndpointsOfOnePass
PROPERTIES EndpointsFollowNames
