SPECIFICATION FairSpec
CONSTANTS
  Page = {p1}
  Buffer = {b1, b2}
  Thread = {t1, t2}
  Nil = Nil
  MaxUpdate = 2
  MayFail = FALSE
PROPERTY UpdatesReachDisk
