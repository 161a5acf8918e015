CONSTANTS
  nes = nes
  tune = tune
  reboot = reboot
  shell = shell
  Apps <- MCFewApps
  Reboot = reboot
  Terminals = {}
  OwnTouch = {}
  Shell = shell
  HasDisplay = TRUE
  RebootTicks = 1
  ScanTicks = 1
  ReconnectTicks = 1
  NetworkTicks = 1
  MaxBatch = 1
SPECIFICATION Spec
CHECK_DEADLOCK FALSE
INVARIANTS Presentable
