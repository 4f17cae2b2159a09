\* The detector against its contract, with the follow-up of every mark; the
\* file cannot always be read.
CONSTANTS
  Contents = {c1, c2}
  NoContent = NoContent
  DigestErrors = TRUE
  MaxWrites = 5
  MaxStarts = 2
SPECIFICATION FairSpec
INVARIANTS
  TypeOK
PROPERTIES
  ImplementsContract
  FollowsUp
