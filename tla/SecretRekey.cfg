SPECIFICATION RotationSpec
CONSTANTS
  SecretKey = {1, 2, 3}
  SecretRow = {"r1"}
  File = {"f1"}
  Kinds = {"passwd", "rekey"}
  Together = FALSE
  MaxGeneration = 3
  MaxFault = 2
PROPERTIES RekeyKeepsKeyFile
CHECK_DEADLOCK FALSE
