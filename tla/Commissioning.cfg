\* Lists of up to three points, two of the duties out of range; two channels
\* and two fans, one of which both channels move; a card with three inputs.
CONSTANTS
  PointTemp = {1, 2, 5}
  PointDuty = {20, 50, 100, 101}
  PointLists <- SmallLists
  Hysteresis = {0, 2}
  Temp = {0, 1, 2, 3, 4, 5, 6}
  NoTemp = NoTemp
  NoDuty = NoDuty
  Options <- SmallOptions
  Improper = Improper
  Chan = {1, 2}
  Fan = {"f1", "f2"}
  Moves <- TwoMoves
  Requested = {1, 2}
  IdleDuty = {0, 51}
  ProbeDuty = 128
  Mode = {"pwm", "inject"}
  Silent = Silent
  Node = {1, 2, 3}
  Labelled = {1, 3}
  HwmonPath = 2
  Degree = {0, 40}
  Count = {0, 30}
  NoValue = NoValue
  Unreadable = Unreadable
  Absent = Absent
SPECIFICATION CSpec
INVARIANTS CurveIsReference ConfigCovers MapRestores  ReadingIsReal 
PROPERTY NoFlutter
CHECK_DEADLOCK FALSE
