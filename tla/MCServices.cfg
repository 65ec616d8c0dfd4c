\* The server: a queue of one, two transactions up to the largest sequence, three
\* calls; one failing connection, one restart and a close around three events, a
\* window of two and full queues of one; two requests of a key that expires and of
\* one that is kept, and a day that passes.
\* The website: queries with no and with three hits, pages of two, three changes of
\* the input; four edits, crashes and a signal once the watcher is ready.
SPECIFICATION MCSpec
CONSTANTS
  Capacity = 1
  MaxSequence = 2
  MaxRequests = 3
  Connections = {1, 2}
  Window = 2
  SubscriberCapacity = 1
  Outgoing = 1
  MaxEvents = 3
  MaxLosses = 1
  MaxRestarts = 1
  Standard = {"attach"}
  Protected = {"send"}
  Digests = {"one", "other"}
  MaxCalls = 2
  MaxDays = 1
  none = none
  many = many
  Blank = Blank
  Queries = {none, many}
  PageSize = 2
  MaxGen = 3
  Hits <- MCHits
  MaxEdits = 4
  QuietStart = TRUE
INVARIANTS JournalChain AnswersAreExact StreamContinues ClosesWhatItOpened
  OnceAndTrue Reconciles ScreenIsTheAnswer NoLeakedWorker NeverObsolete ReaderIsAlone
PROPERTIES UnavailabilityIsFinal EveryCallAnswered CatchesUp LoadingEnds
  EditsAreServed ClosingEnds EveryRunEnds
\* Calls, events, faults, pushes, edits and inputs are bounded.
CHECK_DEADLOCK FALSE
