SPECIFICATION MCSpec
CONSTANTS
  SAMPLE_TOTAL_TIMES = 4
  RAND_MAX = 10
  Rand = {0, 1, 2, 3, 4, 5, 6, 7, 8, 9, 10}
  Rates = {1, 3, 4}
  Tables <- MCTables
  MaxDraws = 6
  Hosts = {"hall", "field"}
  Players = {1, 2}
  Sids = {1, 2}
  MaxLogins = 3
  MaxMessages = 1
  Index = {1, 2, 3}
  capacity = 3
  MaxOffers = 5
INVARIANT GivesAsAsked
