SPECIFICATION AllSpec
CONSTANTS
  MaxPackets = 8
  Segments <- MCSegments
  Hosts <- MCHosts
  Hostname <- MCHostname
  Numeric = {"10.0.0.1"}
  Configs <- MCConfigs
  Defaults = {"reg", "alt"}
  Asked <- NpmAsked
  Locked <- MCLocked
  MaxRequests = 3
  Objects = {"a", "b"}
  Names <- MCNames
  Cacheable <- MCCacheable
  Untagged <- MCUntagged
  Undated <- MCUndated
  PerSecond = 2
  BodySize = 3
  Sent <- S3Sent
  MaxSent = 4
INVARIANTS
  DefaultUpstreamPermitted
