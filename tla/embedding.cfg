SPECIFICATION Spec
CONSTANTS
    Bodies = {"short", "long", "blank"}
    Configs <- MCConfigs
    CallLists <- MCCallLists
    ByteLen <- MCByteLen
    TokensOf <- MCTokensOf
    MaxSeqLen = 3
    MaxBatchSize = 2
    IndexLists <- MCIndexLists
    Dims = {1, 2}
INVARIANTS EmbeddingTypeOK VectorsInOrder VectorsFit RetryDiscipline
PROPERTY Ends
CHECK_DEADLOCK FALSE
