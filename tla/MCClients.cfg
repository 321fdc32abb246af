SPECIFICATION Spec
CONSTANTS
  t1 = t1  t2 = t2  t3 = t3
  w1 = w1  w2 = w2  w3 = w3
  Tcp = {t1, t2, t3}
  Ws = {w1, w2, w3}
  Parties <- MCParties
  MaxClients = 2
  MaxInputs = 3
  Commands <- MCCommands
INVARIANTS ChannelsSound AnswersInOrder ViewsCurrent
CHECK_DEADLOCK FALSE
