\* Two changes of a source list and one upgrade.  The cards do not look at each
\* other: one source, which every version of the list has or has not.
CONSTANT Keys = {k1}
CONSTANT MaxVersion = 2
CONSTANT MaxUpgrades = 1
SPECIFICATION AptFairSpec
INVARIANT TableIsLastResult
PROPERTY HealthNeverGoesBack
PROPERTY CardsGetHealth
PROPERTY ButtonsComeBack
