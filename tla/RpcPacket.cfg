CONSTANTS
  a = a
  q = q
  h = h
  w = w
  nul = nul
  bad = bad
  Half = 3
  Space = 100
  Plain = {a, q}
  High = {h}
  Wide = {w, bad}
  Nul = nul
  Question = q
  Replacement = bad
  Names <- MCNames
  Datas <- MCDatas
  Foreign <- MCForeign
  EventLists <- MCEventLists
SPECIFICATION Spec
INVARIANTS TypeOK OwnEventsKept MethodIsGuarded DeliveredAsSent
