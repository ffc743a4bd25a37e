SPECIFICATION FairSpec
CONSTANTS
  a = a  b = b  Earlier = s0
  Products = {1, 2}
  Offers <- ThreeOffers
  Runs = {s1, s2}
  PageSize = 2
  Limit = 1
  Openings <- TwoProducts
  Known <- OneOrNone
  MaxEdits = 1
INVARIANTS TypeOK OneRowEach OrphansReported SearchFinds
PROPERTIES CleanRunMirrors RunsEnd
CHECK_DEADLOCK FALSE
