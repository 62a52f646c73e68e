SPECIFICATION Spec
CONSTANTS
  Alarms = {"uart", "other"}
  Wrap = 8
  MaxInterval = 6
PROPERTY
  AlarmsCountDown
