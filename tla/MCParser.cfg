SPECIFICATION Spec
CONSTANT Sources <- MCSources
INVARIANT NeverStuck Grammatical
PROPERTY ReadsOn
CHECK_DEADLOCK FALSE
