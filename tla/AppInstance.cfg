SPECIFICATION FairSpec
CONSTANTS
  first = first  second = second  ctl = ctl  script = script
  None = None
  Procs = {first, second}
  Ctls = {ctl}
  Drivers = {script}
  Asked = {"op", "waits"}
  Sent = {"refused", "blank", "oversize"}
  MaxFrames = 2
INVARIANTS IInv RepliesInOrder
PROPERTIES CallsEnd
CHECK_DEADLOCK FALSE
