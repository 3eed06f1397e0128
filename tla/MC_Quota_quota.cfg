SPECIFICATION Spec
CONSTANTS
  Exactly = 32
  Weight <- MC_Weight
  Unit = 4096
  Limit = 40
  Given <- MC_Given
  Percent <- MC_Percent
  Thirds <- MC_Thirds
  Multiple <- MC_Multiple
  Parts = {1, 3}
INVARIANTS
  TypeOK
  NearMeant
  WithinMax
  TextStable
