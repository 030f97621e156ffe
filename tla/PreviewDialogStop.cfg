\* A stopped run, with snap revisions to remove as well.
CONSTANTS
  cache = cache
  snap = snap
  session = session
  runtimes = runtimes
  Dirs = {cache}
  Files = {session}
  Directs = {runtimes}
  Snaps = {snap}
  Risky = {cache, session}
  Categories = {{cache, session}, {runtimes}, {snap}}
SPECIFICATION Spec
INVARIANT StopHalts
