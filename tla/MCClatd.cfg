\* clatd on aarch64 with a zero-initialising build.
CONSTANTS
  ArgChoices <- MCArgChoices
  Uninit <- MCUninitZero
  MyArch = "aarch64"
  Archs <- MCArchs
  Syscalls <- MCSyscalls
  PrctlResults = {"ok", "fail"}
  Timeout = 3

SPECIFICATION Spec
INVARIANT TypeOK
INVARIANT EventLoopNeedsConfig
INVARIANT DeviceNameIntact
INVARIANT FilterImplementsPolicy
PROPERTY ShutdownTerminates
