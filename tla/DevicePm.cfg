\* One battery: platform refreshes of its reporting keys in mAh and mWh,
\* interleaved in any order with the four device_pm.c calls.
CONSTANTS
  Absent = Absent
  Units = {"mAh", "mWh"}
  Currents <- MCCurrents
  LastFulls <- MCLastFulls
  Rates <- MCRates
  DesignVoltages <- MCDesignVoltages
  Voltages <- MCVoltages
  Flows <- MCFlows
  MissingInt <- MCMissingInt
SPECIFICATION Spec
INVARIANT TypeOK
PROPERTY PercentageTracksReport
