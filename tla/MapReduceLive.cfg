SPECIFICATION FairSpec
CONSTANTS
    NMap = 1
    NReduce = 2
    Workers = {w1, w2}
    Emits <- EmitsOneByTwo
PROPERTIES
    JobCompletes
    WorkersStop
