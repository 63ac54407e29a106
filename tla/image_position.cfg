CONSTANTS
  Width = 3
  Byte = {0, 1}
  Zero = 0
  Commands <- Targets
  Readings <- CarryWords
SPECIFICATION Spec
PROPERTY ReadMixesFrames
PROPERTY ReadsBackLastWrite
PROPERTY CommandFromLastWrite
PROPERTY SlaveSeesWholeWords
