CONSTANTS
  p = p
  p2 = p2
  q = q
  k1 = k1
  k2 = k2
  Nil = Nil
  Ok = Ok
  NoNumber = NoNumber
  Request = {p, p2, q}
  Key = {k1, k2}
  cache_key <- KeyOf
  Number = {7, 8}
  GreedyNumber <- AnswerOf
  PrefixNumbers <- OnTheWay
  Sizes = {1, 2, 3}
  MaxLate = 1
SPECIFICATION Spec
INVARIANT OnlyWholeAnswersVote
