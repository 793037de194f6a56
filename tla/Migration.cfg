\* Two clients of two identities migrate the index to and fro; d2 has no text.
SPECIFICATION Spec
CONSTANTS
  Client = {c1, c2}
  Identity = {i1, i2}
  Document = {d1, d2}
  SourceBacked = {d2}
  Unknown = Unknown
  Absent = Absent
  Nobody = Nobody
  MaxCandidate = 2
SYMMETRY Symmetry
INVARIANTS ActiveIsWhole SpacesNeverMix WritesGoToTheActive
