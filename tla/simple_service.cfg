\* The central and the peripheral on a link that comes and goes.
SPECIFICATION FairSpec
CONSTANTS
  CONN = CONN
  NULL = NULL
  Value <- Bytes
INVARIANTS FlagsMatchStack ReferencesReleased SubscriptionAgrees
PROPERTIES EventuallySubscribed
