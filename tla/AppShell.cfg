\* Four page kinds: two that share signals with the monitors, one with the
\* process timer, one without hooks.
SPECIFICATION FairSpec
CONSTANTS
  Pages = {"dashboard", "resources", "processes", "settings"}
  MaxSubscribers = 3
  MaxLoads = 2
INVARIANTS TypeOK HooksPair ShownPageIsRequested
PROPERTY RequestedPageShown
