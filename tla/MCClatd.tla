------------------------------ MODULE MCClatd ------------------------------
(***************************************************************************)
(* Every combination of present, missing, malformed and zero options, and *)
(* uplink names of 12 and 13 characters, the longest that fits IFNAMSIZ   *)
(* after "v4-" and the shortest that does not; an                          *)
(* aarch64 build, where the filter's default is to kill; a sleep of three  *)
(* ticks, enough for a SIGTERM before, during and after the wait.          *)
(***************************************************************************)
EXTENDS Clatd

MCArgChoices ==
  [opt : {"ok", "help", "unknown"}, iface : {NoIface, 12, 13},
   tunfd : {"fd", "none", "bad", "zero"}, readfd : {"fd", "none", "bad", "zero"},
   writefd : {"fd", "none", "bad", "zero"},
   plat : {"ok", "bad"}, v4 : {"ok", "bad"}, v6 : {"ok", "bad"}]

\* -ftrivial-auto-var-init=zero: an uninitialised int reads 0.
MCUninitZero == {0}
\* Pattern or no initialisation: it may read 0 or a stale nonzero value.
MCUninitAny == {0, 7}

MCArchs == {"aarch64", "arm"}
MCSyscalls == {"ppoll", "read", "sendmsg", "recvmsg", "writev", "getuid",
               "rt_sigreturn", "nanosleep", "exit_group", "openat", "socket"}

====
