----------------------------- MODULE Lifecycle -----------------------------
(***************************************************************************)
(* The life of the turnserver process (netengine.c, mainrelay.c): the main *)
(* thread creates relay, authentication and admin threads, which meet at   *)
(* two barriers before any of them serves events; certificates are re-read *)
(* and handed from engine to engine; a drain lets the last allocation go   *)
(* before the process ends.                                                *)
(***************************************************************************)
EXTENDS Sequences, Integers, FiniteSets

CONSTANTS LfSetup,      \* configurations: relays, auth, web, fails
          MaxReload,    \* SIGUSR2 signals
          MaxAlloc      \* allocations made in a relay thread

VARIABLES lcfg,    \* the configuration
          lpc,     \* where each thread is
          lbar,    \* the two barriers: "setup" of the relays, "all"
          ltls,    \* the TLS contexts and the chain of update events
          lrel,    \* per relay thread: draining, a request in work, allocations
          lproc    \* process-wide: drain_turn_server, stop, allocation count

LfVars == <<lcfg, lpc, lbar, ltls, lrel, lproc>>

Main == <<"main", 0>>
Admin == <<"admin", 0>>
Relays == {<<"relay", i>> : i \in 1..lcfg.relays}
AuthThreads == {<<"auth", i>> : i \in 0..(lcfg.auth - 1)}
LfThread == {Main, Admin} \union Relays \union AuthThreads
-----------------------------------------------------------------------------
(* Barriers *)

(* setup_server, setup_general_relay_servers: how many threads each        *)
(* barrier waits for; 0: the barrier was never initialised.                *)
BarrierWithoutAdmin ==
  [setup |-> IF lcfg.relays > 0 THEN lcfg.relays + 1 ELSE 0,
   all |-> lcfg.relays + lcfg.auth + 1]
BarrierWithListener == [BarrierWithoutAdmin EXCEPT !.all = @ + 2]
barrier_count ==
  [setup |-> IF lcfg.relays > 0 THEN lcfg.relays + 1 ELSE 0,
   all |-> lcfg.relays + lcfg.auth + 1 + 1]

(* Where a thread goes on once the barrier lets it go.                     *)
Beyond(t, b) == IF b = "all" THEN "run" ELSE IF t = Main THEN "udp" ELSE "ready"
(* A thread waits; the last one to come lets all of them go.               *)
barrier_wait(t, from, b) ==
  /\ lpc[t] = from
  /\ IF lbar[b] + 1 = barrier_count[b]
     THEN /\ lpc' = [u \in LfThread |-> IF u = t \/ lpc[u] = b THEN Beyond(u, b) ELSE lpc[u]]
          /\ lbar' = [lbar EXCEPT ![b] = 0]
     ELSE /\ lpc' = [lpc EXCEPT ![t] = b]
          /\ lbar' = [lbar EXCEPT ![b] = @ + 1]
-----------------------------------------------------------------------------
(* Contexts of TLS *)

(* update_ssl_ctx: the engine takes the process's contexts.                *)
replace_one_ssl_ctx(tls, e) == [tls EXCEPT !.eng[e] = tls.cur]
(* set_ssl_ctx, the second half: the engine's event becomes the head.      *)
Registered(tls, e) == [tls EXCEPT !.chain = <<e>> \o @]
NextInChain(e) ==
  LET at == CHOOSE i \in 1..Len(ltls.chain) : ltls.chain[i] = e
  IN IF at = Len(ltls.chain) THEN {} ELSE {ltls.chain[at + 1]}

(* The callback of an engine's event, in the engine's own thread; then the *)
(* next engine's event is activated.                                       *)
update_only_own_ctx(t) ==
  /\ t \in ltls.active /\ lpc[t] = "run"
  /\ ltls' = [replace_one_ssl_ctx(ltls, t) EXCEPT !.active = @ \ {t}]
  /\ UNCHANGED <<lcfg, lpc, lbar, lrel, lproc>>
update_ssl_ctx(t) ==
  /\ t \in ltls.active /\ lpc[t] = "run"
  /\ ltls' = [replace_one_ssl_ctx(ltls, t) EXCEPT !.active = (@ \ {t}) \union NextInChain(t)]
  /\ UNCHANGED <<lcfg, lpc, lbar, lrel, lproc>>

(* reload_ssl_certs on SIGUSR2: the new context replaces the old one       *)
(* unless a file could not be read; the head event is activated.           *)
reload_ssl_certs ==
  /\ lpc[Main] = "run" /\ ltls.reloads < MaxReload
  /\ \E good \in BOOLEAN :
       ltls' = [ltls EXCEPT !.reloads = @ + 1, !.cur = IF good THEN @ + 1 ELSE @,
                            !.active = @ \union (IF ltls.chain = <<>> THEN {}
                                                 ELSE {Head(ltls.chain)})]
  /\ UNCHANGED <<lcfg, lpc, lbar, lrel, lproc>>
-----------------------------------------------------------------------------
(* Set-up *)

(* setup_listener, setup_barriers: the listener's engine is made; nothing  *)
(* else runs yet.                                                          *)
setup_listener ==
  /\ lpc[Main] = "listener"
  /\ ltls' = Registered(replace_one_ssl_ctx(ltls, Main), Main)
  /\ lpc' = [lpc EXCEPT ![Main] = "relays"]
  /\ UNCHANGED <<lcfg, lbar, lrel, lproc>>

(* The main thread creates the threads of a kind in their order, or leaves *)
(* the program when the system refuses one.                                *)
Creates(at, kind, next) ==
  /\ lpc[Main] = at
  /\ LET left == {t \in kind : lpc[t] = "none"}
     IN \/ /\ left # {}
           /\ LET t == CHOOSE u \in left : \A v \in left : u[2] <= v[2]
              IN lpc' = [lpc EXCEPT ![t] = "start"]
        \/ left # {} /\ lcfg.fails /\ lpc' = [lpc EXCEPT ![Main] = "exit"]
        \/ left = {} /\ lpc' = [lpc EXCEPT ![Main] = next]
  /\ UNCHANGED <<lcfg, lbar, ltls, lrel, lproc>>
setup_general_relay_servers == Creates("relays", Relays, "relays_made")
setup_auth_servers == Creates("auth", AuthThreads, "admin")
setup_admin_server == Creates("admin", {Admin}, "server_made")

(* setup_socket_per_thread_udp_listener_servers: the main thread waits for *)
(* the relays' engines, then gives each its UDP listeners.  Waiting at the *)
(* barrier that was not initialised is undefined: it crashes (a division   *)
(* by its count of 0 in glibc), returns or blocks.                         *)
WaitForRelays ==
  /\ IF barrier_count["setup"] = 0
     THEN /\ lpc[Main] = "relays_made"
          /\ \E p \in {"crash", "udp", "blocked"} : lpc' = [lpc EXCEPT ![Main] = p]
          /\ UNCHANGED lbar
     ELSE barrier_wait(Main, "relays_made", "setup")
  /\ UNCHANGED <<lcfg, ltls, lrel, lproc>>
setup_udp_listeners ==
  /\ lpc[Main] = "udp"
  /\ lpc' = [lpc EXCEPT ![Main] = "auth"]
  /\ UNCHANGED <<lcfg, lbar, ltls, lrel, lproc>>
WaitForAll ==
  /\ barrier_wait(Main, "server_made", "all")
  /\ UNCHANGED <<lcfg, ltls, lrel, lproc>>

(* set_ssl_ctx in a relay thread, and in the admin thread when it serves   *)
(* the web: the contexts are copied, then the event joins the chain.  A    *)
(* relay thread that cannot make its engine leaves the program.            *)
HasEngine(t) == t \in Relays \/ (t = Admin /\ lcfg.web)
CopyContext(t) ==
  /\ lpc[t] = "start" /\ HasEngine(t)
  /\ \/ /\ ltls' = replace_one_ssl_ctx(ltls, t)
        /\ lpc' = [lpc EXCEPT ![t] = "copied"]
     \/ /\ lcfg.fails /\ t # Admin
        /\ lpc' = [lpc EXCEPT ![Main] = "exit"] /\ UNCHANGED ltls
  /\ UNCHANGED <<lcfg, lbar, lrel, lproc>>
set_ssl_ctx(t) ==
  /\ lpc[t] = "copied"
  /\ ltls' = Registered(ltls, t)
  /\ lpc' = [lpc EXCEPT ![t] = IF t = Admin THEN "ready" ELSE "engine"]
  /\ UNCHANGED <<lcfg, lbar, lrel, lproc>>
(* The other threads set their event base, queues or realms up.            *)
setup_thread(t) ==
  /\ lpc[t] = "start" /\ t # Main /\ ~HasEngine(t)
  /\ lpc' = [lpc EXCEPT ![t] = "ready"]
  /\ UNCHANGED <<lcfg, lbar, ltls, lrel, lproc>>
run_general_relay_thread(t) ==
  /\ t \in Relays /\ barrier_wait(t, "engine", "setup")
  /\ UNCHANGED <<lcfg, ltls, lrel, lproc>>
JoinAll(t) ==
  /\ t # Main /\ barrier_wait(t, "ready", "all")
  /\ UNCHANGED <<lcfg, ltls, lrel, lproc>>
-----------------------------------------------------------------------------
(* Drain and stop *)

LfServers == IF lcfg.relays = 0 THEN {Main} ELSE Relays

(* enable_drain_mode on SIGUSR1: a plain store for each server in turn,    *)
(* then the process's flag.                                                *)
enable_drain_mode ==
  /\ lpc[Main] = "run" /\ ~lproc.drain /\ lproc.phase = 0
  /\ lproc' = [lproc EXCEPT !.phase = 1] /\ lpc' = [lpc EXCEPT ![Main] = "drain"]
  /\ UNCHANGED <<lcfg, lbar, ltls, lrel>>
DrainServer ==
  /\ lpc[Main] = "drain"
  /\ LET left == {r \in LfServers : ~lrel[r].draining}
     IN IF left = {}
        THEN /\ lproc' = [lproc EXCEPT !.drain = TRUE]
             /\ lpc' = [lpc EXCEPT ![Main] = "run"] /\ UNCHANGED lrel
        ELSE /\ LET r == CHOOSE u \in left : \A v \in left : u[2] <= v[2]
                IN lrel' = [lrel EXCEPT ![r].draining = TRUE]
             /\ UNCHANGED <<lproc, lpc>>
  /\ UNCHANGED <<lcfg, lbar, ltls>>
shutdown_handler ==
  /\ lpc[Main] = "run" /\ ~lproc.stop
  /\ lproc' = [lproc EXCEPT !.stop = TRUE, !.why = "signal"]
  /\ UNCHANGED <<lcfg, lpc, lbar, ltls, lrel>>

stop_at_drain ==
  /\ lpc[Main] = "run"
  /\ IF lproc.stop THEN lpc' = [lpc EXCEPT ![Main] = "exit"] /\ UNCHANGED lproc
     ELSE lproc.drain /\ lproc' = [lproc EXCEPT !.stop = TRUE, !.why = "drain"] /\ UNCHANGED lpc
  /\ UNCHANGED <<lcfg, lbar, ltls, lrel>>
(* One turn of run_listener_server.                                        *)
run_listener_server ==
  /\ lpc[Main] = "run"
  /\ \/ /\ ~lproc.stop /\ lproc.drain /\ lproc.count = 0
        /\ lproc' = [lproc EXCEPT !.stop = TRUE, !.why = "drain"]
        /\ UNCHANGED lpc
     \/ /\ lproc.stop
        /\ lpc' = [lpc EXCEPT ![Main] = "exit"]
        /\ UNCHANGED lproc
  /\ UNCHANGED <<lcfg, lbar, ltls, lrel>>

(* A relay thread serves an ALLOCATE: it looks at is_draining, makes the   *)
(* relay endpoints, and reports the allocation.                            *)
Serves(r) == lpc[r] = "run"
AllocateChecks(r) ==
  /\ Serves(r) /\ ~lrel[r].busy /\ ~lrel[r].draining
  /\ lrel[r].old + lrel[r].new < MaxAlloc
  /\ lrel' = [lrel EXCEPT ![r].busy = TRUE]
  /\ UNCHANGED <<lcfg, lpc, lbar, ltls, lproc>>
AllocateReports(r) ==
  /\ Serves(r) /\ lrel[r].busy
  /\ \/ /\ lrel' = [lrel EXCEPT ![r].busy = FALSE,
                    ![r].old = IF lproc.drain THEN @ ELSE @ + 1,
                    ![r].new = IF lproc.drain THEN @ + 1 ELSE @]
        /\ lproc' = [lproc EXCEPT !.count = @ + 1]
     \/ lrel' = [lrel EXCEPT ![r].busy = FALSE] /\ UNCHANGED lproc
  /\ UNCHANGED <<lcfg, lpc, lbar, ltls>>
AllocationEndsUncounted(r) ==
  /\ Serves(r) /\ ~lrel[r].busy
  /\ \/ lrel[r].old > 0 /\ lrel' = [lrel EXCEPT ![r].old = @ - 1]
     \/ lrel[r].new > 0 /\ lrel' = [lrel EXCEPT ![r].new = @ - 1]
  /\ lproc' = [lproc EXCEPT !.count = IF lproc.drain THEN @ ELSE @ - 1]
  /\ UNCHANGED <<lcfg, lpc, lbar, ltls>>
(* clear_allocation of a valid allocation reports its end.                 *)
AllocationEnds(r) ==
  /\ Serves(r) /\ ~lrel[r].busy
  /\ \/ lrel[r].old > 0 /\ lrel' = [lrel EXCEPT ![r].old = @ - 1]
     \/ lrel[r].new > 0 /\ lrel' = [lrel EXCEPT ![r].new = @ - 1]
  /\ lproc' = [lproc EXCEPT !.count = @ - 1]
  /\ UNCHANGED <<lcfg, lpc, lbar, ltls>>
-----------------------------------------------------------------------------
LfInit ==
  /\ lcfg \in LfSetup
  /\ lpc = [t \in LfThread |-> IF t = Main THEN "listener" ELSE "none"]
  /\ lbar = [setup |-> 0, all |-> 0]
  /\ ltls = [cur |-> 1, eng |-> [t \in LfThread |-> 0], chain |-> <<>>,
             active |-> {}, reloads |-> 0]
  /\ lrel = [r \in LfServers |-> [draining |-> FALSE, busy |-> FALSE, old |-> 0, new |-> 0]]
  /\ lproc = [drain |-> FALSE, phase |-> 0, stop |-> FALSE, why |-> "none", count |-> 0]

LfMain ==
  \/ setup_listener \/ setup_general_relay_servers \/ WaitForRelays
  \/ setup_udp_listeners \/ setup_auth_servers \/ setup_admin_server \/ WaitForAll
LfThreadStep(t) ==
  \/ CopyContext(t) \/ set_ssl_ctx(t) \/ setup_thread(t)
  \/ run_general_relay_thread(t) \/ JoinAll(t)
LfRunning == lpc[Main] \notin {"exit", "crash"}
LfNext ==
  /\ LfRunning
  /\ \/ LfMain \/ (\E t \in LfThread : LfThreadStep(t) \/ update_ssl_ctx(t))
     \/ reload_ssl_certs \/ enable_drain_mode \/ DrainServer \/ shutdown_handler
     \/ run_listener_server
     \/ \E r \in LfServers : AllocateChecks(r) \/ AllocateReports(r) \/ AllocationEnds(r)

(* Threads are scheduled, active events are served, requests end, and      *)
(* every allocation ends at last (its lifetime, unless it is refreshed).   *)
LfThreads == LfRunning /\ \E t \in LfThread : LfThreadStep(t)
LfUpdates == LfRunning /\ \E t \in LfThread : update_ssl_ctx(t)
LfReports == LfRunning /\ \E r \in LfServers : AllocateReports(r)
LfEnds == LfRunning /\ \E r \in LfServers : AllocationEnds(r)
LfFairness ==
  /\ WF_LfVars(LfMain) /\ WF_LfVars(DrainServer) /\ WF_LfVars(run_listener_server)
  /\ WF_LfVars(LfThreads) /\ WF_LfVars(LfUpdates) /\ WF_LfVars(LfReports) /\ WF_LfVars(LfEnds)
LfSpec == LfInit /\ [][LfNext]_LfVars /\ LfFairness
-----------------------------------------------------------------------------
(* The start-up that has begun comes to its end: every thread serves       *)
(* events, or the program left because a thread could not be created.      *)
(* README.turnserver promises it for 0 relay threads too.                  *)
Started == lpc[Main] = "exit" \/ \A t \in LfThread : lpc[t] = "run"
StartsUp == lpc[Main] = "relays" ~> Started

(* Certificates that were re-read (reload_ssl_certs), or newer ones, reach *)
(* the engine of every thread, or the process ends.                        *)
TlsReachesAll ==
  \A n \in 2..(MaxReload + 1) :
    ltls.cur = n ~> (lpc[Main] = "exit" \/ \A t \in LfThread :
                       t = Main \/ HasEngine(t) => ltls.eng[t] >= n)

(* A drain ends the process, provided that clients stop refreshing their   *)
(* allocations: a Refresh is not refused while the server drains.          *)
DrainEnds == lproc.drain ~> lpc[Main] = "exit"

(* It ends it only when no allocation is left that was reported before the *)
(* drain mode was set.                                                     *)
DrainSpares == lproc.why = "drain" => \A r \in LfServers : lrel[r].old = 0
=============================================================================
