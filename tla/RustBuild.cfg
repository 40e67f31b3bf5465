\* A Linux job with two uses of the action and a Windows job with four.
SPECIFICATION Spec
CONSTANTS
  Targets <- MCTargets
  BsdSuffix <- MCBsdSuffix
  GnuTargets = {"x86_64-pc-windows-gnu"}
  GnullvmTargets = {"x86_64-pc-windows-gnullvm", "aarch64-pc-windows-gnullvm"}
  StagedTargets = {"x86_64-unknown-linux-gnu"}
  HostOf <- MCHostOf
  GnuHostOf <- MCGnuHostOf
  Projects <- MCProjects
  Requests <- MCRequests
  Default <- MCDefault
  Order <- MCOrder
  Image <- MCImage
  Retries = 3
  MaxBuilds <- MCMaxBuilds
INVARIANTS TypeOK ContainedOrNotAtAll SupportedOrContained RequestedToolchain FlagsReachTheBuild OneTable
CHECK_DEADLOCK FALSE
