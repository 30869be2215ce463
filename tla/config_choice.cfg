SPECIFICATION Spec
CONSTANTS
  Schema <- TheSchema
  Order <- TheOrder
  Kind <- TheKinds
  Default <- TheDefaults
  Legacy <- TheLegacy
  Texts <- TheTexts
  Atoi <- TheIntegers
  Crlf <- TheCrlf
  Held <- TheHeld
  AppDefaults <- TheAppDefaults
  Flip <- TheFlip
  Blank = ""
  Absent = Absent
INVARIANTS
  ChoicesTakeEffect
