SPECIFICATION Spec
CONSTANTS
  Width = 16
  Height = 18
  Font <- MCFont
  unknown <- MCUnknown
  TextX = 1
  Line1Y = 1
  Line2Y = 15
  Scale = 2
  Chunk = 64
  States <- MCStates
  MaxFaults = 1
INVARIANTS
  LcdTypeOK
  NoWrap
  PictureComplete
  OnlyOwnInk
PROPERTIES
  PaintsInside
  DrawingEnds
