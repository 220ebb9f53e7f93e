\* The claim of abstract_pipeline.cpp:22-25 about capture settings.
CONSTANTS
  MaxVersion = 2
  MaxCapture = 2
SPECIFICATION FairSpec
PROPERTIES
  CaptureFixed
