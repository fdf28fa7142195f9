CONSTANTS
  t1 = t1  t2 = t2
  Threads = {t1, t2}
  Effects = {"face", "voice"}
  Recover = 2
  FailStreak = 2
SPECIFICATION FairSpec
INVARIANTS HealthTellsTruth ErrorHasCause
PROPERTIES HealsAtLast
