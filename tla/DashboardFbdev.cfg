CONSTANTS
  nes = nes
  tune = tune
  reboot = reboot
  shell = shell
  Apps <- MCApps
  Reboot = reboot
  Terminals = {}
  OwnTouch <- MCOwnTouch
  Shell = shell
  HasDisplay = FALSE
  RebootTicks = 1
  ScanTicks = 1
  ReconnectTicks = 1
  NetworkTicks = 1
  MaxBatch = 2
SPECIFICATION FairSpec
CHECK_DEADLOCK FALSE
INVARIANTS InOrder ArmedOnMenu ChildHasDevices NothingLeaks
PROPERTIES ControllerLaunchKept StopHonoured
