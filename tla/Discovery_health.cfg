SPECIFICATION Spec
CONSTANTS
  Sources = {greenhouse}
  Hour = 2
  MaxAttempts = 2
  Threshold = 2
PROPERTIES
  KeepsRunning
