SPECIFICATION Spec
CONSTANT Batches <- MCBatches
INVARIANTS OneTrueStory NothingRunsPastABar PublishedBeforeNext EveryCallAnswered
CHECK_DEADLOCK FALSE
