SPECIFICATION Spec
CONSTANTS
    NMap = 2
    NReduce = 2
    Workers = {w1, w2}
    Emits <- EmitsTwoByTwo
SYMMETRY Symmetry
INVARIANTS
    TypeOK
    WorkDoneExact
    FilesRaceFree
    ReduceInputComplete
    InputsReadable
    OutputCorrect
    NoEarlyExit
PROPERTIES
    JobSpec
    OutputStable
