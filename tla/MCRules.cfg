CONSTANTS
  Dimensions = {"water", "power"}
  Ratings = {0, 1, 5}
  NoRating = 0
  Today <- Now
  Dates <- Written
  Cutoffs <- Cuts
  NoDate = NoDate
  Watched = {"lek", "yab"}
  Posts <- Posted
  Floods <- Flooded
  Limits = {3, 6, 7, 20}
  Reads = {0, 2, 4, Never}
  Never = Never
  Searches <- Typed
  Numbers = {"16", "1"}
  StreetTypes = {"street"}
  Answers <- Located
  AnchorRadius = 3
  Anchors = {0}
  NoAnchor = NoAnchor
  NoName = NoName
  NoPoint = NoPoint
  StopSpread = 2
  StopsListed = 2
  LongestSlug = 3
  Reports <- Reported
  Windows = {"am_rush", "midday", "weekend"}
  NoMinutes = NoMinutes
  LiveTimes <- Lived
  Mapped <- OnMap
  HandWritten <- ByHand
  AreaRows <- OnAreaMap
  Areas <- InTable
  Lgas <- Lga
  AgentRows <- InDirectory
  Agents <- Known
SPECIFICATION Spec
INVARIANTS ScoreFair FeedHonest LookupHonest CommuteHonest StopsHonest ImportsRepeatable
