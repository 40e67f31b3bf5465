\* Jobs of three uses of linux-packages and validate-linux-packages.
SPECIFICATION Spec
CONSTANTS
  Targets = {"gnu", "musl", "arm", "wasm"}
  NfpmArch <- MCArch
  DebArch <- MCArch
  LabelOf <- MCLabelOf
  RpmAliases <- MCRpmAliases
  HostAliases = {"x86_64", "amd64"}
  Isolation = "bubblewrap"
  PackageInputs <- MCPackageInputs
  ValidateInputs <- MCValidateInputs
  Bin = "bin"
  Man = "man"
  MaxUses = 3
INVARIANTS EveryFormatTried RightPackage SuccessIsEarned NothingLeftBehind
CHECK_DEADLOCK FALSE
