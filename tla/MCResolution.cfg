SPECIFICATION Spec
CONSTANTS
  p1 = p1
  p2 = p2
  account = account
  phone = phone
  name = name
  a1 = a1
  a2 = a2
  f1 = f1
  n1 = n1
  Blank = Blank
  None = None
  Person = {p1, p2}
  Kind = {account, phone, name}
  Strong = {account}
  Value = {a1, a2, f1, n1}
  ValueOf <- MCValueOf
  Outages <- MCOutages
  Given <- MCGiven
  MaxChanges = 1
INVARIANTS
  TheRightPerson
  FragmentsShow
