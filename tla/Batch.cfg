SPECIFICATION Spec
CONSTANT Batches <- AllBatches
INVARIANTS
    TypeOK
    OnlyMisfitsGoWrong
    ResultsInPlace
    BrokenBatchHasNoEffect
    ValuesComeBack
