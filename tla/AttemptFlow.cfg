SPECIFICATION Spec
CONSTANTS
  c1 = c1
  c2 = c2
  text = text
  Marker <- M
  Segments <- MCSegments
  Forbidden <- MCForbidden
  DriveLike <- MCDriveLike
  Extends <- MCExtends
  Contents <- MCContents
  MarkerText = text
  Dir = "dir"
  Link = "link"
  TaskSpecs <- AllSpecs
  InitialContents <- MCInitialContents
  BodyTrees <- MCBodyTrees
  MaxSteps = 2
  MaxRetries = 1
CHECK_DEADLOCK FALSE
INVARIANT BodySeesInput
INVARIANT CompletedIsPublished
INVARIANT NoEmptyCommit
INVARIANT PublishedMeetsPost
INVARIANT DownloadableAgain
INVARIANT TerminalForCause
INVARIANT TerminalIsReported
PROPERTY OutsideUntouched
