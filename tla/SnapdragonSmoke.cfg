SPECIFICATION SmokeSpec
CONSTANTS
  Items = {"llama-cli", "cpu", "hexagon", "opencl"}
  Verify = {"llama-cli", "hexagon", "opencl"}
  OpenclLib = "opencl"
  MaxRev = 2
  Cli = "llama-cli"
  Hexagon = "hexagon"
  AppLines = {"fallback", "offloaded N", "offloaded 0"}
INVARIANTS SmokeInv PackageIsBuilt DeviceIsOneBuild CompleteBuildPasses NoFallbackMeansHtp OwnLogDecides
