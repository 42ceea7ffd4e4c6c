----------------------------- MODULE MCThreads -----------------------------
(***************************************************************************)
(* The parts of the server and of the load generator in which threads or   *)
(* two ends of a connection wait for each other, one of them per           *)
(* behaviour: "part" says which, and the variables of the others keep      *)
(* their first value.                                                      *)
(***************************************************************************)
EXTENDS Lifecycle, AdminServer, MCAuth, StartUclient, UclientTraffic

VARIABLE part

(* Two relay threads; one with the web admin; one and a thread that cannot *)
(* be created.  Without any relay thread: see MCSingleThread.cfg.          *)
Threads(r, a, w, f) == [relays |-> r, auth |-> a, web |-> w, fails |-> f]
FirstThreads == Threads(1, 2, FALSE, TRUE)
MCLfSetup == {FirstThreads, Threads(2, 2, FALSE, FALSE), Threads(1, 2, TRUE, FALSE)}
SingleThread == {Threads(0, 2, FALSE, FALSE)}

(* Sessions that are cancelled; the password; the list of alternate        *)
(* servers, with memory for it and without.                                *)
Administered(pw, cs, al, ids, f) ==
  [password |-> pw, commands |-> cs, alt |-> al, ids |-> ids, faults |-> f]
FirstAdministered == Administered(TRUE, {"q"}, <<>>, {}, 0)
MCAsSetup ==
  {FirstAdministered, Administered(FALSE, {"cs"}, <<>>, {<<2, 1>>}, 0),
   Administered(FALSE, {"aas", "das", "other"}, <<"a", "b">>, {}, 0),
   Administered(FALSE, {"das"}, <<"a", "b">>, {}, 1)}
MCAltFamily == [a \in {"a", "b", "l"} |-> IF a = "b" THEN 6 ELSE 4]

(* Command lines of the load generator: channels, redirection, RTCP,       *)
(* client-to-client, load, even ports, and the faults of the network.      *)
Faulty(l, e, s, b) == [lost |-> l, early |-> e, stale |-> s, broken |-> b]
Command(flags, load, fl) ==
  [flags |-> flags, load |-> load, before |-> FALSE, redirect |-> FALSE, bigfd |-> FALSE,
   faults |-> fl]
FirstCommand == Command({"O"}, "none", Faulty(0, 0, 0, 0))
MCUcCommand ==
  {FirstCommand, Command({"c"}, "none", Faulty(1, 1, 0, 0)),
   Command({"c"}, "none", Faulty(1, 0, 1, 0)),
   [Command({}, "none", Faulty(1, 0, 1, 0)) EXCEPT !.redirect = TRUE],
   [Command({"c", "s", "G"}, "none", Faulty(1, 0, 0, 1)) EXCEPT !.before = TRUE],
   Command({"y", "c", "G"}, "none", Faulty(0, 1, 0, 0)),
   Command({"y", "s"}, "none", Faulty(1, 0, 0, 0)), Command({"P"}, "none", Faulty(0, 0, 1, 1)),
   Command({}, "alloc", Faulty(1, 1, 0, 1)), Command({}, "alloc", Faulty(1, 0, 1, 1)),
   Command({"c", "I", "s"}, "none", Faulty(1, 0, 0, 0))}

(* Its threads: one sender or none, one listener or two.                   *)
Pools(s, l, h, v, d) ==
  [senders |-> s, listeners |-> l, hang |-> h, random |-> FALSE, live |-> v, lost |-> d]
FirstPools == Pools(1, 2, TRUE, 0, 0)
MCUtSetup ==
  {FirstPools, Pools(0, 0, FALSE, 1, 0), Pools(0, 1, FALSE, 0, 1), Pools(1, 1, FALSE, 0, 1),
   [Pools(0, 1, FALSE, 0, 0) EXCEPT !.random = TRUE]}

Others(p) ==
  /\ p # "life" => UNCHANGED LfVars
  /\ p # "admin" => UNCHANGED AsVars
  /\ p # "auth" => UNCHANGED AuthVars
  /\ p # "setup" => UNCHANGED UcVars
  /\ p # "traffic" => UNCHANGED UtVars
  /\ UNCHANGED part

AllInit ==
  /\ LfInit /\ (part # "life" => lcfg = FirstThreads)
  /\ AsInit /\ (part # "admin" => ascfg = FirstAdministered)
  /\ AuthInit /\ (part # "auth" => opt = FirstChecked)
  /\ UcInit /\ (part # "setup" => uopt = main(FirstCommand))
  /\ UtInit /\ (part # "traffic" => ucfg = FirstPools)
Next ==
  \/ part = "life" /\ LfNext /\ Others("life")
  \/ part = "admin" /\ AsNext /\ Others("admin")
  \/ part = "auth" /\ AuthNext /\ Others("auth")
  \/ part = "setup" /\ UcNext /\ Others("setup")
  \/ part = "traffic" /\ UtNext /\ Others("traffic")
Init == part \in {"life", "admin", "auth", "setup", "traffic"} /\ AllInit
(* The fairness of each part's own specification, while it is the part     *)
(* that runs.                                                              *)
Fairness ==
  /\ WF_LfVars(part = "life" /\ LfMain) /\ WF_LfVars(part = "life" /\ DrainServer)
  /\ WF_LfVars(part = "life" /\ run_listener_server)
  /\ WF_LfVars(part = "life" /\ LfThreads) /\ WF_LfVars(part = "life" /\ LfUpdates)
  /\ WF_LfVars(part = "life" /\ LfReports) /\ WF_LfVars(part = "life" /\ LfEnds)
  /\ WF_AsVars(part = "admin" /\ admin_server_receive_message)
  /\ \A t \in AsThread : /\ WF_AsVars(part = "admin" /\ relay_receive_message(t))
                          /\ WF_AsVars(part = "admin" /\ AltAnswered(t))
  /\ \A t \in AuthThread : WF_AuthVars(part = "auth" /\ UserCheck(t))
  /\ WF_AuthVars(part = "auth" /\ Resume)
  /\ WF_UcVars(part = "setup" /\ UcClient) /\ WF_UcVars(part = "setup" /\ UcServe)
  /\ \A t \in 0..2 : /\ WF_UtVars(part = "traffic" /\ UtTicks(t))
                      /\ SF_UtVars(part = "traffic" /\ UtWrites(t))
                      /\ SF_UtVars(part = "traffic" /\ UtCompletes(t))
  /\ \A e \in UtSession : WF_UtVars(part = "traffic" /\ WaitedEnough(e))
  /\ WF_UtVars(part = "traffic" /\ UtMain)
AllVars == <<part, LfVars, AsVars, AuthVars, UcVars, UtVars>>
Spec == Init /\ [][Next]_AllVars /\ Fairness

(* Only the life of a process without relay threads.                       *)
SingleThreadSpec == part = "life" /\ AllInit /\ [][Next]_AllVars /\ LfFairness
=============================================================================
