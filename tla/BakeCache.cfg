\* Two images, no tool or two versions of one, one fault.
SPECIFICATION BakeSpec
CONSTANTS
    s1 = s1
    s2 = s2
    p1 = p1
    p2 = p2
    Servers <- MCServers
    Processes <- MCProcesses
    Homes <- MCHomes
    Images = {i1, i2}
    Tools = {0, 1, 2}
    MaxBakes = 2
    MaxFaults = 1
INVARIANTS
    EntriesMatchTheirKeys
    OnlySharedKeysFail
    ScratchIsRemoved
PROPERTY BakesReturn
CHECK_DEADLOCK FALSE
