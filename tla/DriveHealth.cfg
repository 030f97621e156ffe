\* Two drives, of which one has a name the shell refuses, no SMART data, and cannot be
\* opened; two unlocks, of which one can overtake the other.
SPECIFICATION FairSpec
CONSTANTS
  Listing <- MCListing
  Unsafe = {"cciss!c0d0"}
  NoSmart = {"cciss!c0d0"}
  Unopened = {"cciss!c0d0"}
  MaxCollectors = 2
  HasSmartctl = TRUE
  MaxWear = 1
  MaxUnlocks = 2
  NoData = NoData
  NoList = NoList
  NotShown = NotShown
INVARIANTS TypeOK DataIsItsOwn
PROPERTIES DashboardNeverGoesBack GrantSticks BadDriveAlerted
