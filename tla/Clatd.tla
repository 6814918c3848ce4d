------------------------------- MODULE Clatd -------------------------------
(***************************************************************************)
(* The lifecycle of the CLAT daemon, src/clatd/main.c: argument checks,    *)
(* the SIGTERM handler, the seccomp filter and the shutdown wait.          *)
(*                                                                         *)
(* The main thread is a program counter; SIGTERM and the tun interface     *)
(* going down are environment actions that may happen at any time.  After  *)
(* enable_seccomp every system call a step makes is judged by the filter,  *)
(* which is kept as the BPF program of enable_seccomp and run by an        *)
(* interpreter.  event_loop is not in this repository: it is taken as the  *)
(* comment above its call states it, a loop that returns once a signal     *)
(* arrived or the tun interface went down.                                 *)
(***************************************************************************)
EXTENDS Integers, Sequences, FiniteSets

CONSTANTS
  ArgChoices,     \* command lines: a record of what each option holds
  Uninit,         \* values an uninitialised int of 'tunnel' can hold
  MyArch,         \* the build's AUDIT_ARCH
  Archs,          \* AUDIT_ARCH values a system call can carry
  Syscalls,       \* system call names
  PrctlResults,   \* outcomes of the two prctl calls: "ok" or "fail"
  Timeout         \* the argument of sleep() at line 386, in ticks

VARIABLES
  pc,        \* where the main thread is
  args,      \* the command line
  tunnel,    \* tunnel.fd4, read_fd6, write_fd6, and the length of device4
  handler,   \* handle_sigterm installed for SIGTERM
  sigterm,   \* the global flag the handler sets
  tunDown,   \* the tun interface went down (event_loop sees EOF/ENETDOWN)
  remaining, \* seconds left of sleep(15)
  exitCode

vars == <<pc, args, tunnel, handler, sigterm, tunDown, remaining, exitCode>>

\* Where a process ended: exit(), _exit(0), killed by SIGTERM's default
\* action, killed by the seccomp filter.
Terminal == {"exited", "done", "killed", "seccompKilled"}

\* States after prctl(PR_SET_SECCOMP) succeeded.
Sandboxed == {"loop", "check", "sleep0", "sleeping", "wake", "exit"}

(***************************************************************************)
(* The seccomp filter (lines 61-167) and a classic-BPF interpreter.        *)
(***************************************************************************)
Ld(field) == [op |-> "ld", f |-> field, k |-> "", jt |-> 0, jf |-> 0, ret |-> ""]
Ret(v) == [op |-> "ret", f |-> "", k |-> "", jt |-> 0, jf |-> 0, ret |-> v]
Jeq(v, t, f) == [op |-> "jeq", f |-> "", k |-> v, jt |-> t, jf |-> f, ret |-> ""]

\* BPF2_SECCOMP_KILL_IF_NOT_EQUAL: if equal jump over the kill.
KillIfNotEqual(v) == <<Jeq(v, 1, 0), Ret("KILL")>>

\* A plausible bug: the not-equal jump lands on the allow, not past it.
AllowIfEqualNoSkip(v) == <<Jeq(v, 0, 0), Ret("ALLOW")>>

\* BPF2_SECCOMP_ALLOW_IF_EQUAL: if not equal jump over the allow.
AllowIfEqual(v) == <<Jeq(v, 0, 1), Ret("ALLOW")>>

\* The final statement: kill on aarch64, audit-log elsewhere.
DefaultAction == IF MyArch = "aarch64" THEN "KILL" ELSE "LOG"

\* enable_seccomp: filter[].
Filter ==
  <<Ld("arch")>> \o KillIfNotEqual(MyArch) \o <<Ld("nr")>>
  \o AllowIfEqual("ppoll") \o AllowIfEqual("read") \o AllowIfEqual("sendmsg")
  \o AllowIfEqual("recvmsg") \o AllowIfEqual("writev") \o AllowIfEqual("getuid")
  \o AllowIfEqual("rt_sigreturn") \o AllowIfEqual("nanosleep")
  \o AllowIfEqual("exit_group") \o <<Ret(DefaultAction)>>

\* Classic BPF: a jump skips jt or jf instructions; running off the end
\* is what the kernel's verifier refuses.
RECURSIVE Exec(_, _, _, _)
Exec(prog, i, acc, data) ==
  IF i > Len(prog) THEN "INVALID"
  ELSE LET ins == prog[i] IN
    CASE ins.op = "ret" -> ins.ret
      [] ins.op = "ld"  -> Exec(prog, i + 1, data[ins.f], data)
      [] OTHER          -> Exec(prog, i + 1 + (IF acc = ins.k THEN ins.jt
                                                  ELSE ins.jf), acc, data)

Verdict(arch, nr) == Exec(Filter, 1, "", [arch |-> arch, nr |-> nr])

\* The system calls the comments of filter[] assign to each step.
LoopCalls == {"ppoll", "read", "sendmsg", "recvmsg", "writev"}
LogCalls == {"getuid", "writev"}

\* A step after seccomp that makes a killed call ends the process there.
Go(target, calls) ==
  pc' = IF \E s \in calls : Verdict(MyArch, s) = "KILL"
        THEN "seccompKilled" ELSE target

(***************************************************************************)
(* main                                                                    *)
(***************************************************************************)

\* A descriptor option after parse_int (3 stands for a valid descriptor);
\* an option not given leaves the field as it was.
Fd(given, old) == CASE given = "fd" -> 3 [] given = "zero" -> 0
                    [] OTHER -> old

DEVICEPREFIX == "v4-"

\* -i not given: uplink_interface stays NULL.  Otherwise a.iface is the
\* length of the name.
NoIface == -1

\* len, the return of snprintf: the length of the whole formatted name.
NameLen(n) == Len(DEVICEPREFIX) + n

\* What snprintf stores in tunnel.device4 (char[IFNAMSIZ], 16 bytes): the
\* name cut to 15 characters and a NUL.
DeviceLen(n) == IF NameLen(n) < 16 THEN NameLen(n) ELSE 15

\* A plausible bug: the bound test forgets the NUL.
NameTooLongNoNul(n) == NameLen(n) > 16

\* len >= sizeof(tunnel.device4).
NameTooLong(n) == NameLen(n) >= 16

\* A plausible bug: the !tunnel.write_fd6 check left out.
StartupExitsNoWriteCheck(a, t) ==
  << <<a.opt = "help", 0>>, <<a.opt = "unknown", 1>>, <<a.iface = NoIface, 1>>,
     <<a.tunfd = "bad", 1>>, <<Fd(a.tunfd, t.fd4) = 0, 1>>,
     <<a.readfd = "bad", 1>>, <<Fd(a.readfd, t.read) = 0, 1>>,
     <<a.writefd = "bad", 1>>,
     <<NameTooLong(a.iface), 1>>, <<a.plat # "ok", 1>>, <<a.v4 # "ok", 1>>,
     <<a.v6 # "ok", 1>> >>

\* getopt (h: exit 0, unknown option: exit 1), then lines 271-323 in order.
StartupExits(a, t) ==
  << <<a.opt = "help", 0>>, <<a.opt = "unknown", 1>>, <<a.iface = NoIface, 1>>,
     <<a.tunfd = "bad", 1>>, <<Fd(a.tunfd, t.fd4) = 0, 1>>,
     <<a.readfd = "bad", 1>>, <<Fd(a.readfd, t.read) = 0, 1>>,
     <<a.writefd = "bad", 1>>, <<Fd(a.writefd, t.write) = 0, 1>>,
     <<NameTooLong(a.iface), 1>>, <<a.plat # "ok", 1>>, <<a.v4 # "ok", 1>>,
     <<a.v6 # "ok", 1>> >>

\* main up to signal(): privilege drop, options, checks, personality, the
\* SIGTERM handler.  signal() and uname() cannot fail with these arguments.
Startup ==
  LET ex == StartupExits(args, tunnel)
      fired == {i \in DOMAIN ex : ex[i][1]}
  IN  /\ pc = "start"
      /\ tunnel' = [fd4 |-> Fd(args.tunfd, tunnel.fd4),
                    read |-> Fd(args.readfd, tunnel.read),
                    write |-> Fd(args.writefd, tunnel.write),
                    dev |-> IF fired = {} THEN DeviceLen(args.iface) ELSE tunnel.dev]
      /\ IF fired # {}
         THEN LET first == CHOOSE i \in fired : \A j \in fired : i <= j
              IN  pc' = "exited" /\ exitCode' = ex[first][2]
                  /\ UNCHANGED handler
         ELSE pc' = "sandbox" /\ handler' = TRUE /\ UNCHANGED exitCode
      /\ UNCHANGED <<args, sigterm, tunDown, remaining>>

\* A plausible bug: exit(rv) on a failed prctl, an exit status of -1.
SandboxExitRv ==
  /\ pc = "sandbox"
  /\ \E r \in PrctlResults :
       IF r = "ok" THEN pc' = "loop" /\ UNCHANGED exitCode
       ELSE pc' = "exited" /\ exitCode' = -1
  /\ UNCHANGED <<args, tunnel, handler, sigterm, tunDown, remaining>>

\* send_dad, then enable_seccomp: either prctl failing is exit(1).
Sandbox ==
  /\ pc = "sandbox"
  /\ \E r \in PrctlResults :
       IF r = "ok" THEN pc' = "loop" /\ UNCHANGED exitCode
       ELSE pc' = "exited" /\ exitCode' = 1
  /\ UNCHANGED <<args, tunnel, handler, sigterm, tunDown, remaining>>

\* event_loop(&tunnel) returns once SIGTERM arrived or the tun went down.
LoopReturn ==
  /\ pc = "loop"
  /\ sigterm = 1 \/ tunDown
  /\ Go("check", LoopCalls)
  /\ UNCHANGED <<args, tunnel, handler, sigterm, tunDown, remaining, exitCode>>

\* if (sigterm) log and exit; else log "waiting for SIGTERM".
ShutdownCheck ==
  /\ pc = "check"
  /\ Go(IF sigterm = 1 THEN "exit" ELSE "sleep0", LogCalls)
  /\ UNCHANGED <<args, tunnel, handler, sigterm, tunDown, remaining, exitCode>>

\* sleep(15) starts.
StartSleep ==
  /\ pc = "sleep0"
  /\ Go("sleeping", {"nanosleep"})
  /\ remaining' = Timeout
  /\ UNCHANGED <<args, tunnel, handler, sigterm, tunDown, exitCode>>

\* A second passes; sleep returns when none is left.
Tick ==
  /\ pc = "sleeping" /\ remaining > 0
  /\ remaining' = remaining - 1
  /\ pc' = IF remaining = 1 THEN "wake" ELSE "sleeping"
  /\ UNCHANGED <<args, tunnel, handler, sigterm, tunDown, exitCode>>

\* A plausible bug: wait for SIGTERM with no deadline.
WakeWaitForever ==
  /\ pc = "wake"
  /\ Go(IF sigterm = 1 THEN "exit" ELSE "sleep0", LogCalls)
  /\ UNCHANGED <<args, tunnel, handler, sigterm, tunDown, remaining, exitCode>>

\* After sleep: log "received" or "timed out waiting for" SIGTERM.
Wake ==
  /\ pc = "wake"
  /\ Go("exit", LogCalls)
  /\ UNCHANGED <<args, tunnel, handler, sigterm, tunDown, remaining, exitCode>>

\* _exit(0).
Exit ==
  /\ pc = "exit"
  /\ Go("done", {"exit_group"})
  /\ exitCode' = 0
  /\ UNCHANGED <<args, tunnel, handler, sigterm, tunDown, remaining>>

\* SIGTERM: the default action kills the process before signal(); after it
\* handle_sigterm sets the flag, interrupts a sleep, and returns through
\* rt_sigreturn.  Once the flag is set only a sleep can notice another one.
Sigterm ==
  /\ pc \notin Terminal
  /\ sigterm = 0 \/ pc = "sleeping"
  /\ IF ~handler
     THEN pc' = "killed" /\ UNCHANGED sigterm
     ELSE /\ sigterm' = 1
          /\ LET next == IF pc = "sleeping" THEN "wake" ELSE pc
             IN  IF pc \in Sandboxed THEN Go(next, {"rt_sigreturn"})
                 ELSE pc' = next
  /\ UNCHANGED <<args, tunnel, handler, tunDown, remaining, exitCode>>

\* The tun interface goes down (EOF or ENETDOWN in event_loop).
TunGoesDown ==
  /\ pc \notin Terminal /\ ~tunDown
  /\ tunDown' = TRUE
  /\ UNCHANGED <<pc, args, tunnel, handler, sigterm, remaining, exitCode>>

Init ==
  /\ pc = "start"
  /\ args \in ArgChoices
  /\ tunnel \in [fd4 : Uninit, read : Uninit, write : Uninit, dev : Uninit]
  /\ handler = FALSE
  /\ sigterm = 0
  /\ tunDown = FALSE
  /\ remaining = 0
  /\ exitCode = 0

\* A finished process stays finished.
Done == pc \in Terminal /\ UNCHANGED vars

Main == Startup \/ Sandbox \/ LoopReturn \/ ShutdownCheck \/ StartSleep
        \/ Tick \/ Wake \/ Exit

Next == Main \/ Sigterm \/ TunGoesDown \/ Done

\* The main thread and the clock make progress; signals and the link
\* are the environment and need not happen.
Spec == Init /\ [][Next]_vars /\ WF_vars(Main)

(***************************************************************************)
(* Properties                                                              *)
(***************************************************************************)

TypeOK ==
  /\ pc \in Terminal \cup {"start", "sandbox"} \cup Sandboxed
  /\ args \in ArgChoices
  /\ sigterm \in {0, 1} /\ handler \in BOOLEAN /\ tunDown \in BOOLEAN
  /\ remaining \in 0..Timeout /\ exitCode \in {0, 1}

\* A command line that names every descriptor and address is the only one
\* that gets clatd past its checks into send_dad and the event loop.
Configured(a) ==
  /\ a.opt = "ok" /\ a.iface # NoIface /\ ~NameTooLong(a.iface) /\ a.plat = "ok" /\ a.v4 = "ok"
  /\ a.v6 = "ok" /\ a.tunfd = "fd" /\ a.readfd = "fd" /\ a.writefd = "fd"

\* clatd reaches send_dad and the event loop only with every descriptor
\* and address given and valid on its command line (main, lines 271-323).
EventLoopNeedsConfig ==
  pc \in {"sandbox", "done"} \cup Sandboxed => Configured(args)

\* The tun device name clatd goes on with is DEVICEPREFIX and the whole
\* uplink name: the length test after snprintf (main, lines 303-307) lets
\* through no name that snprintf cut short.
DeviceNameIntact ==
  pc \in {"sandbox", "done"} \cup Sandboxed => tunnel.dev = NameLen(args.iface)

\* Once installed, the filter program returns, for every architecture and
\* call, what its comments say: kill a foreign architecture, allow the
\* listed calls, and the default action for the rest.
FilterImplementsPolicy ==
  pc \in Sandboxed => \A a \in Archs, s \in Syscalls :
    Verdict(a, s) =
      CASE a # MyArch -> "KILL"
        [] s \in {"ppoll", "read", "sendmsg", "recvmsg", "writev", "getuid",
                  "rt_sigreturn", "nanosleep", "exit_group"} -> "ALLOW"
        [] OTHER -> DefaultAction

\* Once the tun interface is down or SIGTERM has arrived, clatd ends: it
\* does not outlive the 15 s wait even if nobody ever sends SIGTERM.
ShutdownTerminates == (tunDown \/ sigterm = 1) ~> (pc \in Terminal)

====
