SPECIFICATION Spec
CONSTANTS
  Null = Null
  a1 = a1
  a2 = a2
  c1 = c1
  c2 = c2
  c3 = c3
  r1 = r1
  r2 = r2
  Ids = {a1, a2}
  Comments = {c1, c2, c3}
  Vague = {c1}
  Rewrite = c3
  Routes = {r1, r2}
  Stores <- MCStores
  Drafts = {c2}
  SubmitFlows = {TRUE}
  Gate = TRUE
  Others = {"fixed_unverified"}
  MaxActs = 4
  MaxPage = 1
  MaxNews = 1
  MaxFaults = 1
INVARIANTS HighlightHasPopup
CHECK_DEADLOCK FALSE
