\* Two requests for any of two models, of which one runs in llama.cpp, one
\* thread that cancels or prepares a GPU task, and three successful loads.
CONSTANTS
  Requests = {r1, r2}
  Freers = {f1}
  Models = {gguf, hf}
  LlamaModels = {gguf}
  MaxLoads = 3
SPECIFICATION FairSpec
INVARIANTS TypeOK Accounting HandlesOwned LeaseKeepsHandle
PROPERTIES PendingUnloads RequestsEnd
CHECK_DEADLOCK FALSE
