SPECIFICATION Spec
CONSTANTS
  Versions = {1}
  Seeds = {}
  Handlers = {h1, h2}
  Digests = {d1}
  None = None
SYMMETRY Symmetry
INVARIANTS
  AdmittedHasReplay
  OffersWereApproved
  SavedWhenQuiet
  AdmissionNeedsLostSave
CHECK_DEADLOCK FALSE
