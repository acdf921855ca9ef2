\* Ticks of four bits that cross the middle of their range.
SPECIFICATION Spec
CONSTANTS
  tx = tx
  ty = ty
  Timer = {tx, ty}
  W = 4
  StartTick = 5
  MaxTicks = 5
  Time = {1, 3}
  Callback <- OneStops
PROPERTY DueFires
