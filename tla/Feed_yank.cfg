\* Two releases, of which the newest that can be published is served.
SPECIFICATION Spec
CONSTANTS
  Releases = 2
  MaxCandidates = 1
  Ttl = 2
INVARIANT NothingYankedOutlivesTtl
