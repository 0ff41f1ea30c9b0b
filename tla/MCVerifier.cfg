SPECIFICATION Spec
CONSTANTS
  None = None
  Similarity = {40, 80, 100}
  Ordinary = {60, 98}
  Sample = {18, 19}
  Copies = {0, 5}
  GivenCost = {12}
  StoreName = {"pgvector", "pinecone"}
  MaxChanges = 2
  MaxRetries = 1
  MaxAttested = 2
INVARIANTS
  ProbeIsSound
  AttestedStaysLogged
