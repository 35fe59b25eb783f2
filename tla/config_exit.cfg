SPECIFICATION Spec
CHECK_DEADLOCK FALSE
CONSTANTS
  Valid = {v1, v2, v3, v4}
  Invalid = {bad}
  Unstartable = {v3}
  Unscrapable = {v4}
  Unservable = {v4}
  MaxEdits = 3
PROPERTIES KeepsPreviousVersion
