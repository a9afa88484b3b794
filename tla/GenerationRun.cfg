SPECIFICATION FairGenerationSpec
CONSTANTS
  a = a  b = b  sofa = sofa  lamp = lamp
  Runners = {a, b}
  Jobs = {sofa, lamp}
  Absent = Absent
  MaxFailures = 1
  MaxEdits = 1
  MaxDrawn = 2
CHECK_DEADLOCK FALSE
INVARIANTS RecordsTellOfPictures  ListedIsShown
 
