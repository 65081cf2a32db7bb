SPECIFICATION Spec
CONSTANTS
  Absent = Absent
  Elsewhere = Elsewhere
  NoMarker = NoMarker
  NoPid = NoPid
  p1 = p1
  p2 = p2
  p3 = p3
  MyUid = 1000
  MAX_LISTED = 2
  MAX_APPLICATIONS = 2
  MAX_STARTS = 3
  Pids = {p1, p2, p3}
  Policies <- ThePolicies
  SCREENS = 2
  MAX_MARKERS = 2
  Offered <- TheOffered
  Apps <- TheApps
  LimitChoices <- TheLimits
  EditorDocs <- TheEditorDocs
  Budgets <- TheBudgets
SYMMETRY Perms
INVARIANTS DraftIsOnePolicy  NamedProviderIsLive PublishedIsReported
PROPERTIES SavedIsReviewed 
CHECK_DEADLOCK FALSE
