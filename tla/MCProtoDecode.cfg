SPECIFICATION Spec
CONSTANT
  Input <- MCInput
  Behind <- MCBehind
INVARIANTS
  StreamsAgree
  ValuesFit
  SettingSurvives
  OnlyComplete
  VectorsInOrder
PROPERTY
  DecodingProgresses
