\* Two generators over a counter word of one bit, five draws each.
CONSTANTS
    Generators = {g1, g2}
    Events <- MCEvents
    CounterRange = 2
    MaxCalls = 5
SPECIFICATION Spec
INVARIANTS
    TypeOK
    WordsAreFresh
    StreamsAreDisjoint
    PairsOfOneBlock
