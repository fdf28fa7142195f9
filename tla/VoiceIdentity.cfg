CONSTANTS
  t1 = t1  t2 = t2
  s1 = s1  s2 = s2
  m1 = m1  m2 = m2
  None = None
  Threads = {t1, t2}
  Sessions = {s1, s2}
  Model = {m1, m2}
  ModelOf <- TwoVoices
SPECIFICATION FairSpec
INVARIANTS OneSlotPerModel ActiveIsSafe VoiceIsOwn
PROPERTIES ChunksAnswered
