CONSTANTS
  Texts <- MCTexts
  Default = "default"
  Broken = {"broken"}
  Meaning <- MCMeaning
  ToLower <- MCToLower
SPECIFICATION Spec
INVARIANTS
  TypeOK
  ServesSource
  BalancersConfigured
  LastBalancerIsHeard
  OneTrigger
CHECK_DEADLOCK FALSE
