\* A hostname that was acknowledged and does not survive a restart.
SPECIFICATION ConfigSpec
CONSTANTS
  clock2 = clock2
  lab = lab
  roof = roof
  None = None
  Hostnames <- ThreeNames
  Default = clock2
PROPERTY AcknowledgedSurvives
