SPECIFICATION RaceSpec
CONSTANTS
  callback = callback
  main = main
  Thread <- TwoThreads
  MaxSaves = 2
PROPERTIES
  ConvergesToFile
