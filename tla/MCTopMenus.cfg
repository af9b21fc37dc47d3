SPECIFICATION TopSpec
CONSTANTS
    g1 = g1  g2 = g2
    players = players  kick = kick  help = help
    Owners <- Generations
    PluginOf <- OnePlugin
    Entries <- ThreeEntries
    Guarded <- OneGuarded
    Viewers = {s1}
    PerPage = 1
    MaxObjects = 2
    MaxSequence = 3
    MaxRevision = 4
    MaxConnection = 2
    Root = Root
    Nothing = Nothing
INVARIANTS
    CalledIsKnown
PROPERTIES
    ChosenIsSeen
