SPECIFICATION Spec
CONSTANTS
  Str = {s1, s2, s3, s4}
  Buf = {b1, b2}
  NoBuf = NoBuf
  Byte = {"x", "y"}
  Nul = "nul"
  Junk = "junk"
  Given <- Pieces
  InternMax = 1
  MaxLength = 4
SYMMETRY Symmetric
INVARIANTS TypeOK BytesStable
