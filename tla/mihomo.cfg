\* Two jobs of a kind possibly at once, two data files over two lines, a new release,
\* everything else that touches the directory, and a crash.
SPECIFICATION Spec
CONSTANTS
    InstallJobs = {i1, i2}
    DataJobs = {u1, u2}
    DataFiles <- MCDataFiles
    Tries = 2
    MaxVersion = 2
    MaxRequests = 2
    MaxCrashes = 1
    None = None
SYMMETRY Symmetry
INVARIANTS TypeOK FilesAreWhole VersionHonest DoneMeansComplete Unwedged
PROPERTIES KernelKept
CHECK_DEADLOCK FALSE
