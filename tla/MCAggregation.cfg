\* Two domains, one result file each, a transport qualification, two replacements.
CONSTANTS
  left = left
  right = right
  leftFile = leftFile
  rightFile = rightFile
  None = None
  Context = Context
  Qualification = Qualification
  Domains = {left, right}
  ResultFiles = {leftFile, rightFile}
  Given <- MCGiven
  Qualified = TRUE
  MaxVersion = 2
  AssertionIds = {}
  WorstStatus <- MCWorst
  OtherRuns <- MCOtherRuns
  MinPassed = 1
  MaxRuns <- MCMaxRuns
SPECIFICATION CampaignSpec
INVARIANTS
  AggregateIsSnapshot
  PassedMeansEveryDomain
  CampaignLinksOneRun
  PassedCampaignIsEarned
CHECK_DEADLOCK FALSE
