SPECIFICATION Spec
CONSTANT Durations <- MCDurations
INVARIANTS TypeOK Progress AnswerTellsNext
PROPERTY ErrorIsFinal
