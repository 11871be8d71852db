------------------------------ MODULE Launcher ------------------------------
(***************************************************************************)
(* The ncp command (cli/main.py): launchers that share one port.  A        *)
(* launcher reuses the proxy that answers there, or starts one of its own, *)
(* waits for an answer, runs Claude Code or just the proxy, and stops the  *)
(* proxy if it is its own; ncp kill stops whatever holds the port.         *)
(*                                                                         *)
(* A launcher is named after the terminal it runs in, and its proxy after  *)
(* the launcher.  Ctrl-C and closing the terminal reach both, as they are  *)
(* one process group.  Signals do to a proxy what uvicorn and the SIGHUP   *)
(* handler of app.py make of them: the first SIGINT or SIGTERM lets the    *)
(* open connections finish, another SIGINT does not, and SIGHUP reloads    *)
(* the models.  Health checks have a deadline and may miss a proxy that is *)
(* there, so an answer is possible while one serves, and never assured.    *)
(***************************************************************************)
EXTENDS Naturals, FiniteSets

CONSTANTS
  Launchers,
  Version,  \* the version of the package each launcher comes from
  MaxKills, \* bound: times ncp kill is run
  None

ASSUME LauncherAssumption ==
  IsFiniteSet(Launchers) /\ None \notin Launchers /\ MaxKills \in Nat

VARIABLES
  at,      \* where each launcher is
  proxy,   \* its proxy_proc
  port,    \* whose proxy listens
  pending, \* the pids ncp kill has yet to stop
  victim,  \* the one it is stopping
  kills,
  stopped  \* history: those it reports as stopped

killVars == <<pending, victim, kills, stopped>>
launcherVars == <<at, proxy, port, pending, victim, kills, stopped>>

\* A process that exists and is not yet done with.
Alive == {"starting", "serving", "draining"}
Gone == {"none", "dead"}

LauncherInit ==
  /\ at = [l \in Launchers |-> "checking"]
  /\ proxy = [l \in Launchers |-> "none"]
  /\ port = None
  /\ pending = {} /\ victim = None /\ kills = 0 /\ stopped = {}
-----------------------------------------------------------------------------
(***************************************************************************)
(* Signals and proxies.                                                    *)
(***************************************************************************)
After(state, signal) ==
  IF state \in Gone THEN {state}
  ELSE {next \in Alive \cup {"dead"} :
          \/ /\ next = "dead"
             /\ signal = "KILL" \/ state = "starting" \/ (signal = "INT" /\ state = "draining")
          \/ /\ next = "draining"
             /\ signal = "TERM" \/ (signal = "INT" /\ state # "draining")
          \/ next = state /\ signal = "HUP"}

\* The proxy of l is in a new state; the port is free when it no longer serves.
Becomes(l, state) ==
  /\ proxy' = [proxy EXCEPT ![l] = state]
  /\ port' = IF port = l /\ state # "serving" THEN None ELSE port

Signalled(l, signal) == \E state \in After(proxy[l], signal) : Becomes(l, state)

\* Mutant: the proxy is started in a session of its own.
FromTerminalOfLauncher(l, signal) == UNCHANGED <<proxy, port>>

\* What the terminal of l sends to its process group, of which the proxy is one.
FromTerminal(l, signal) == Signalled(l, signal)

\* uvicorn listens, or finds the port taken and exits.
Binds(l) ==
  /\ proxy[l] = "starting"
  /\ IF port = None
     THEN proxy' = [proxy EXCEPT ![l] = "serving"] /\ port' = l
     ELSE Becomes(l, "dead")
  /\ UNCHANGED <<at, killVars>>

\* The settings are incomplete, or the proxy crashes.
Crashes(l) == proxy[l] \in Alive /\ Becomes(l, "dead") /\ UNCHANGED <<at, killVars>>

DrainEnds(l) == proxy[l] = "draining" /\ Becomes(l, "dead") /\ UNCHANGED <<at, killVars>>
-----------------------------------------------------------------------------
(***************************************************************************)
(* A launcher.                                                             *)
(***************************************************************************)
Goes(l, from, to) == at[l] = from /\ at' = [at EXCEPT ![l] = to]

Answered == port # None

\* The first check of _run_proxy_and_claude: someone answers, or a proxy is started.
Check(l) ==
  /\ \/ Answered /\ Goes(l, "checking", "verifying") /\ UNCHANGED <<proxy, port>>
     \/ Goes(l, "checking", "waiting") /\ Becomes(l, "starting")
  /\ UNCHANGED killVars

\* The second: an answer with this version, or the proxy is called stale.
Verify(l) ==
  /\ \/ Answered /\ Version[port] = Version[l] /\ Goes(l, "verifying", "preparing")
     \/ Goes(l, "verifying", "ended")
  /\ UNCHANGED <<proxy, port, killVars>>

\* Readiness is anybody's answer.
WaitEnds(l) ==
  /\ \/ Answered /\ Goes(l, "waiting", "preparing")
     \/ Goes(l, "waiting", "stopping")
  /\ UNCHANGED <<proxy, port, killVars>>

\* _ensure_claude; then Claude Code runs, or the launcher waits for its proxy.
Prepared(l) == Goes(l, "preparing", "running") /\ UNCHANGED <<proxy, port, killVars>>

RunEnds(l) == Goes(l, "running", "stopping") /\ UNCHANGED <<proxy, port, killVars>>

\* _stop_proxy: SIGTERM, unless there is nothing to stop.
StopProxy(l) ==
  /\ \/ proxy[l] \in Alive /\ Goes(l, "stopping", "terminating") /\ Signalled(l, "TERM")
     \/ proxy[l] \in Gone /\ Goes(l, "stopping", "ended") /\ UNCHANGED <<proxy, port>>
  /\ UNCHANGED killVars

\* Mutant: the proxy is given five seconds and then left alone.
ProxyStoppedOrNot(l) ==
  Goes(l, "terminating", "ended") /\ UNCHANGED <<proxy, port, killVars>>

\* Within five seconds it is gone, or it is killed.
ProxyStopped(l) ==
  /\ Goes(l, "terminating", "ended")
  /\ Signalled(l, "KILL")
  /\ UNCHANGED killVars

\* Ctrl-C: while Claude Code or the proxy is waited for it leads to the finally
\* clause, elsewhere out of the program, without one.
Interrupt(l) ==
  /\ at[l] \notin {"ended", "interrupted", "lost"}
  /\ at' = [at EXCEPT ![l] = IF @ = "running" THEN "stopping" ELSE "interrupted"]
  /\ FromTerminal(l, "INT")
  /\ UNCHANGED killVars

\* The terminal is closed, or the launcher alone is killed.
Lose(l) ==
  /\ at[l] \notin {"ended", "interrupted", "lost"}
  /\ at' = [at EXCEPT ![l] = "lost"]
  /\ FromTerminal(l, "HUP") \/ UNCHANGED <<proxy, port>>
  /\ UNCHANGED killVars
-----------------------------------------------------------------------------
(***************************************************************************)
(* ncp kill: the processes lsof finds with a socket of the port are the    *)
(* one that listens and those with open connections; each gets a SIGTERM,  *)
(* and a SIGKILL three seconds later if it is still there.                 *)
(***************************************************************************)
KillFinds ==
  /\ kills < MaxKills /\ pending = {} /\ victim = None
  /\ kills' = kills + 1
  /\ \E connected \in SUBSET {l \in Launchers : proxy[l] = "draining"} :
       pending' = connected \cup ({port} \ {None})
  /\ UNCHANGED <<at, proxy, port, victim, stopped>>

KillTerminates(l) ==
  /\ l \in pending /\ victim = None
  /\ pending' = pending \ {l}
  /\ victim' = IF proxy[l] = "dead" THEN None ELSE l
  /\ Signalled(l, "TERM")
  /\ UNCHANGED <<at, kills, stopped>>

KillEnds(l) ==
  /\ victim = l
  /\ victim' = None
  /\ stopped' = stopped \cup {l}
  /\ Signalled(l, "KILL")
  /\ UNCHANGED <<at, pending, kills>>

LauncherStep(l) ==
  Check(l) \/ Verify(l) \/ WaitEnds(l) \/ Prepared(l) \/ RunEnds(l) \/ StopProxy(l) \/ ProxyStopped(l)

ProxyStep(l) == Binds(l) \/ DrainEnds(l)

KillStep == KillFinds \/ \E l \in Launchers : KillTerminates(l) \/ KillEnds(l)

Quiet ==
  /\ \A l \in Launchers : at[l] \in {"ended", "interrupted", "lost"}
  /\ UNCHANGED launcherVars

LauncherNext ==
  \/ \E l \in Launchers : LauncherStep(l) \/ ProxyStep(l) \/ Crashes(l) \/ Interrupt(l) \/ Lose(l)
  \/ KillStep
  \/ Quiet

\* A proxy that starts gets to listen or exits, and one that drains has clients
\* that end; the calls of _stop_proxy have time limits.
Fairness ==
  \A l \in Launchers : /\ WF_launcherVars(ProxyStep(l))
                       /\ WF_launcherVars(StopProxy(l))
                       /\ WF_launcherVars(ProxyStopped(l))

LauncherSpec == LauncherInit /\ [][LauncherNext]_launcherVars /\ Fairness
-----------------------------------------------------------------------------
(***************************************************************************)
(* Properties                                                              *)
(***************************************************************************)
\* A launcher that comes to its end, whatever happened to the proxy meanwhile
\* (another launcher had the port, ncp kill came first, it drains for ever),
\* leaves no process of its own; and what ncp kill calls stopped is gone.
NothingIsLeft ==
  /\ \A l \in Launchers : at[l] = "ended" => proxy[l] \in Gone
  /\ \A l \in stopped : proxy[l] = "dead"

\* Ctrl-C at any point, the second one during _stop_proxy included, skips the
\* clean-up but not its purpose: the proxy goes too.  (A closed terminal is
\* different: its SIGHUP only makes the proxy reload the models.)
NoOrphanOfInterrupt ==
  \A l \in Launchers : at[l] = "interrupted" ~> proxy[l] \in Gone
=============================================================================
