CONSTANTS
  Sites <- TwoSites
  TlsSites <- OneTlsSite
  Urls <- OneUrl
  Bodies = {3}
  AppCookies <- OneCookie
  Replies <- SmallReplies
  MAX_REDIRECTS = 3
  REDIRECT_ON_POST = FALSE
  BUFF_SIZE = 5
  BASE_SIZE = 2
  MaxContinues = 1
  NONE = NONE
SPECIFICATION FairSpec
INVARIANTS WholeRequest FreshHeaders BodyAtHand
PROPERTIES CallsReturn
