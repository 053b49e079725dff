SPECIFICATION Spec
CONSTANTS
  MaxImages = 2
  MaxOrders <- TwoAndOne
  NoItem = NoItem
INVARIANTS
  OneReview
  OneOrderPerDraft
PROPERTIES
  ArchiveIsReadOnly
  ReviewFollowsRecognition
  UserInputKept
