SPECIFICATION Spec
CONSTANTS
  v1 = v1
  v2 = v2
  None = None
  Partial = Partial
  Contents <- TwoContents
  Commands <- JudgeAndQuestions
  Judge = "judge"
  MaxPrepares = 2
  MaxEdits = 3
SYMMETRY Sym
INVARIANT TypeOK PaidUnderABaseline OkMeansJudged LabelsAreOfTheKeys
PROPERTY BaselineIsFinal
CHECK_DEADLOCK FALSE
