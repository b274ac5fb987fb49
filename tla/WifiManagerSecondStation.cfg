\* Two forms for the station, one after the other, with nothing in between.
SPECIFICATION Spec
CONSTANTS
  MIW_MAX_ATTEMPTS = 3
  MaxForms = 2
  MaxStatus = 0
INVARIANT
  AddedOnce
