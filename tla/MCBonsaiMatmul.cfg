\* The block sizes of the code; one product alone, or two threads that share the chip.
CONSTANTS
  ROWS = 2
  COLS = 2
  BYTE = 256
  PAD = 6
  WGROUP = 128
  ABLOCK = 32
  h1 = h1
  h2 = h2
  Host = {h1, h2}
  NoHost = NoHost
  Jobs <- MatmulJobs
SPECIFICATION MFairSpec
INVARIANTS ResultsExact MacroMatchesHost CommandsLand
PROPERTIES Completes
