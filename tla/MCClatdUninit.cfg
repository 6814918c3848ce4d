\* clatd built without zero initialisation of locals.
CONSTANTS
  ArgChoices <- MCArgChoices
  Uninit <- MCUninitAny
  MyArch = "aarch64"
  Archs <- MCArchs
  Syscalls <- MCSyscalls
  PrctlResults = {"ok", "fail"}
  Timeout = 3

SPECIFICATION Spec
INVARIANT EventLoopNeedsConfig
