SPECIFICATION Spec
CONSTANT Texts <- AllTexts
INVARIANTS ReadsAsTheGrammar KeptByItsStart
CHECK_DEADLOCK FALSE
