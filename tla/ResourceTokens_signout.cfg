SPECIFICATION TokensSpec
CONSTANTS
  Subjects = {user1, user2}
  Resources = {sync, files}
  TokenResource = sync
  Askers = {q1, q2}
  RefreshGrants = TRUE
  Nobody = Nobody
INVARIANT TokensOfTheUser
CHECK_DEADLOCK FALSE
