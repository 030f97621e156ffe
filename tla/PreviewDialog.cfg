\* A cache directory and a saved session in one category, Browser Privacy, and the
\* unused Flatpak runtimes.
CONSTANTS
  cache = cache
  session = session
  runtimes = runtimes
  Dirs = {cache}
  Files = {session}
  Directs = {runtimes}
  Snaps = {}
  Risky = {cache, session}
  Categories = {{cache, session}, {runtimes}}
SPECIFICATION FairSpec
INVARIANTS SelectionHeldWhileExecuting NoWorkerOutlivesDialog PathsReportedDirectsKept
PROPERTIES OnlyConfirmedIsDeleted 
