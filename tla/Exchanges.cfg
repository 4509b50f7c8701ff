SPECIFICATION Spec
CONSTANTS
  Deadlines = {1, 5, 20}
  PingCount = 3
  LookupLimit = 10
  FirstPing = 40
  PongLimit = 80
  ReadLimit = 300
  Backlog = 30
  WelcomeSleep = 2
  MaxTime = 351
INVARIANTS TypeOK NoneLeftOpen EndsSoon SilenceIsNoFailure SuccessIsEarned
 
