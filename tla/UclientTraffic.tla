--------------------------- MODULE UclientTraffic ---------------------------
(***************************************************************************)
(* turnutils_uclient once its sessions are ready (uclient.c): timer        *)
(* threads send the messages of their share of the sessions through a      *)
(* per-thread batch, listener threads count what comes back, the main      *)
(* thread waits until no client is left and adds the threads' counters up. *)
(* Plain UDP; without pools everything runs in the main thread, "main".    *)
(***************************************************************************)
EXTENDS Sequences, Integers, FiniteSets, FiniteSetsExt

CONSTANTS UtSetup,      \* thread pools and options that are explored
          UtSession,    \* the slots of elems[], 1..total_clients
          MaxBatch,     \* UCLIENT_TX_BATCH
          MaxMessage,   \* messages per session (-n)
          MaxDone       \* the 5 messages a tick sends before -B disconnects

VARIABLES ucfg,     \* pools, -h (hang), -B (random); refreshes and losses allowed
          uses,     \* the sessions
          uthr,     \* the threads that send: batch, position, counters
          ulis,     \* l_tot_recv_messages of each listener
          uglob,    \* the process's counters and its main loop
          uecho,    \* data on its way back, per session
          ughost    \* what really happened, for the properties

UtVars == <<ucfg, uses, uthr, ulis, uglob, uecho, ughost>>

UtSenders == IF ucfg.senders = 0 THEN {0} ELSE 1..ucfg.senders   \* 0: main
NoFd == 0

(* pick_sender_id, pick_listener_base: sessions are dealt round-robin.     *)
pick_sender_id(e) == IF ucfg.senders = 0 THEN 0 ELSE 1 + ((e - 1) % ucfg.senders)
pick_listener_base(e) == IF ucfg.listeners = 0 THEN 0 ELSE 1 + ((e - 1) % ucfg.listeners)

-----------------------------------------------------------------------------
(* The send batch of a thread *)

(* A datagram of session e; "size" tells datagrams of different length     *)
(* apart, n is the message number it carries.                              *)
Datagram(e, size, n) == [e |-> e, size |-> size, n |-> n]
EmptyBatch == [fd |-> NoFd, size |-> "none", q |-> <<>>]

(* uclient_tx_flush: one GSO sendmsg, sendmmsg, or send of each leftover:  *)
(* every datagram leaves on the batch's socket unless that socket was      *)
(* closed; then it is counted as dropped.                                  *)
uclient_tx_flush(b, sess, out) ==
  [batch |-> EmptyBatch,
   kernel |-> out.kernel \o
     (IF b.fd # NoFd /\ sess[b.fd].open
      THEN [i \in 1..Len(b.q) |-> [fd |-> b.fd, d |-> b.q[i]]] ELSE <<>>),
   dropped |-> out.dropped +
     (IF b.fd # NoFd /\ ~sess[b.fd].open THEN Len(b.q) ELSE 0)]

(* uclient_tx_enqueue: another socket, another size or a full batch sends  *)
(* what was collected first.                                               *)
uclient_tx_enqueue(d, sess, out) ==
  LET b == out.batch
      o == IF b.q # <<>> /\ (b.fd # d.e \/ b.size # d.size \/ Len(b.q) = MaxBatch)
           THEN uclient_tx_flush(b, sess, out) ELSE out
  IN [o EXCEPT !.batch = [fd |-> d.e, size |-> d.size, q |-> Append(o.batch.q, d)]]

(* refresh_channel: REFRESH and, while the session lives, the permission   *)
(* and the channel, each a datagram of its own size.  Nothing is sent      *)
(* without a socket.                                                       *)
refresh_channel(e, live, sess, out) ==
  LET o == uclient_tx_enqueue(Datagram(e, "refresh", 0), sess, out)
  IN IF ~sess[e].open THEN out
     ELSE IF ~live THEN o
     ELSE uclient_tx_enqueue(Datagram(e, "bind", 0), sess,
            uclient_tx_enqueue(Datagram(e, "permit", 0), sess, o))

-----------------------------------------------------------------------------
(* One session in a timer tick *)

recv_count_snapshot == uglob.recv + FoldSet(LAMBDA l, s : s + ulis[l], 0, DOMAIN ulis)

(* client_write: the message number is put into a buffer all threads       *)
(* share, then copied: another thread in a tick may have written its own.  *)
Numbers(t, e) ==
  {uses[e].w} \union {uses[f].w : f \in {g \in UtSession :
     uses[g].sender # t /\ uthr[uses[g].sender].pc = "tick" /\ uses[g].open}}
client_write(e, n, sess, out) == uclient_tx_enqueue(Datagram(e, "data", n), sess, out)

UtNextSlot(t, th) ==
  LET later == {e \in UtSession : e > th.at /\ uses[e].sender = t /\ uses[e].listed}
  IN [th EXCEPT !.at = IF later = {} THEN 0 ELSE Min(later)]

(* What the kernel took goes to the peer, which sends data back.           *)
UtTaken(out) == SelectSeq(out.kernel, LAMBDA k : k.d.size = "data")
Echoed(echo, out) ==
  LET k == UtTaken(out)
  IN [e \in UtSession |->
        LET mine == SelectSeq(k, LAMBDA x : x.fd = e)
        IN echo[e] \o [i \in 1..Len(mine) |-> mine[i].d.n]]

NoneSent(t) == [batch |-> uthr[t].batch, kernel |-> <<>>, dropped |-> 0]
UtSending(t, out, th) ==
  /\ uthr' = [uthr EXCEPT ![t] = [th EXCEPT !.batch = out.batch,
                                           !.dropped = @ + out.dropped]]
  /\ uecho' = Echoed(uecho, out)
  /\ ughost' = [ughost EXCEPT !.wrong = @ \/ \E i \in 1..Len(out.kernel) :
                                               out.kernel[i].fd # out.kernel[i].d.e]

(* timer_handler, sender_timer_handler: a tick begins once the full timer  *)
(* is started, with an empty batch.                                        *)
TickBegin(t) ==
  /\ uglob.main = "run" /\ uthr[t].pc = "idle"
  /\ uthr' = [uthr EXCEPT ![t] =
       UtNextSlot(t, [@ EXCEPT !.pc = "tick", !.at = 0, !.done = 0, !.batch = EmptyBatch])]
  /\ UNCHANGED <<ucfg, uses, ulis, uglob, uecho, ughost>>

UtSlot(t) == uthr[t].at
InTick(t) == uthr[t].pc = "tick" /\ UtSlot(t) # 0
CompleteOnAll(e) == uses[e].w >= MaxMessage
                     /\ recv_count_snapshot >= MaxMessage * Cardinality(UtSession)
UtComplete(e) == uses[e].w >= MaxMessage
                 /\ (uses[e].late \/ recv_count_snapshot >= MaxMessage * Cardinality(UtSession))

(* client_timer_handler, no message of this session is due.                *)
TickPass(t) ==
  /\ InTick(t)
  /\ uthr' = [uthr EXCEPT ![t] = UtNextSlot(t, @)]
  /\ UNCHANGED <<ucfg, uses, ulis, uglob, uecho, ughost>>

(* ... the periodic refresh of the allocation, permission and channel.     *)
TickRefresh(t) ==
  /\ InTick(t) /\ uglob.live > 0
  /\ UtSending(t, refresh_channel(UtSlot(t), TRUE, uses, NoneSent(t)), uthr[t])
  /\ uglob' = [uglob EXCEPT !.live = @ - 1]
  /\ UNCHANGED <<ucfg, uses, ulis>>

(* ... one message of the burst; without a socket the write fails and the  *)
(* session is shut down.                                                   *)
MayWrite(t) == InTick(t) /\ uses[UtSlot(t)].w < MaxMessage
                 /\ ~(ucfg.hang /\ uses[UtSlot(t)].completed)
TickWrite(t) ==
  /\ MayWrite(t) /\ uses[UtSlot(t)].open
  /\ \E n \in Numbers(t, UtSlot(t)) :
       UtSending(t, client_write(UtSlot(t), n, uses, NoneSent(t)),
           [uthr[t] EXCEPT !.sent = @ + 1,
                           !.done = IF ucfg.random /\ @ <= MaxDone THEN @ + 1 ELSE @])
  /\ uses' = [uses EXCEPT ![UtSlot(t)].w = @ + 1]
  /\ UNCHANGED <<ucfg, ulis, uglob>>
TickWriteFails(t) ==
  /\ MayWrite(t) /\ ~uses[UtSlot(t)].open
  /\ uses' = [uses EXCEPT ![UtSlot(t)].w = @ + 1, ![UtSlot(t)].ready = FALSE]
  /\ uthr' = [uthr EXCEPT ![t].pc = "read"]
  /\ UNCHANGED <<ucfg, ulis, uglob, uecho, ughost>>

(* ... the session is complete: its statistics are exchanged for zero;     *)
(* unless the tool hangs on, the allocation is released and the session's  *)
(* socket closed (client_shutdown, remove_all_from_ss).                    *)
harvest(th, s) == [th EXCEPT !.loss = @ + s.loss]
TickComplete(t) ==
  LET e == UtSlot(t)
      s == [uses[e] EXCEPT !.loss = 0, !.completed = TRUE]
      done == [s EXCEPT !.open = FALSE, !.ready = FALSE]
  IN /\ InTick(t) /\ UtComplete(e) /\ ~uses[e].completed
     /\ uses' = [uses EXCEPT ![e] = IF ucfg.hang THEN s ELSE done]
     /\ IF ucfg.hang
        THEN /\ uthr' = [uthr EXCEPT ![t] = UtNextSlot(t, harvest(@, uses[e]))]
             /\ UNCHANGED <<uecho, ughost>>
        ELSE UtSending(t, refresh_channel(e, FALSE, uses, NoneSent(t)),
                 [harvest(uthr[t], uses[e]) EXCEPT !.pc = "read"])
     /\ UNCHANGED <<ucfg, ulis, uglob>>

(* --current_clients_number is a plain decrement: read, then write.        *)
DecrementRead(t) ==
  /\ uthr[t].pc = "read"
  /\ uthr' = [uthr EXCEPT ![t].reg = uglob.clients, ![t].pc = "write"]
  /\ UNCHANGED <<ucfg, uses, ulis, uglob, uecho, ughost>>
DecrementWrite(t) ==
  /\ uthr[t].pc = "write"
  /\ uglob' = [uglob EXCEPT !.clients = uthr[t].reg - 1]
  /\ uses' = [uses EXCEPT ![UtSlot(t)].listed = FALSE]
  /\ uthr' = [uthr EXCEPT ![t] = UtNextSlot(t, [@ EXCEPT !.pc = "tick"])]
  /\ UNCHANGED <<ucfg, ulis, uecho, ughost>>

(* uclient_send_batch_end; with -B a busy tick then closes the sockets of  *)
(* the thread's sessions.                                                  *)
TickEnd(t) ==
  /\ uthr[t].pc = "tick" /\ UtSlot(t) = 0
  /\ UtSending(t, uclient_tx_flush(uthr[t].batch, uses, NoneSent(t)),
         [uthr[t] EXCEPT !.pc = "idle"])
  /\ uses' = [e \in UtSession |->
       IF ucfg.random /\ uthr[t].done > MaxDone /\ uses[e].listed /\ uses[e].sender = t
       THEN [uses[e] EXCEPT !.open = FALSE] ELSE uses[e]]
  /\ UNCHANGED <<ucfg, ulis, uglob>>

-----------------------------------------------------------------------------
(* Receiving *)

(* process_received_buffer, for data: a number out of turn is a loss.      *)
recv_count_add(l) ==
  IF l = 0 THEN uglob' = [uglob EXCEPT !.recv = @ + 1] /\ UNCHANGED ulis
  ELSE ulis' = [ulis EXCEPT ![l] = @ + 1] /\ UNCHANGED uglob
ClientRead(e) ==
  LET n == Head(uecho[e])
      lost == n # uses[e].recvmsgnum + 1
  IN /\ uses[e].open /\ uecho[e] # <<>> /\ uglob.main # "done"
     /\ uses[e].listener = 0 => uglob.main = "run" /\ (0 \in UtSenders => uthr[0].pc = "idle")
     /\ uses' = [uses EXCEPT ![e].recvmsgnum = n, ![e].loss = IF lost THEN @ + 1 ELSE @]
     /\ recv_count_add(uses[e].listener)
     /\ uecho' = [uecho EXCEPT ![e] = Tail(@)]
     /\ ughost' = [ughost EXCEPT !.recv = @ + 1, !.loss = IF lost THEN @ + 1 ELSE @]
     /\ UNCHANGED <<ucfg, uthr>>

(* The network drops the oldest message.                                   *)
EchoLost(e) ==
  /\ uecho[e] # <<>> /\ ughost.drops < ucfg.lost
  /\ uecho' = [uecho EXCEPT ![e] = Tail(@)]
  /\ ughost' = [ughost EXCEPT !.drops = @ + 1]
  /\ UNCHANGED <<ucfg, uses, uthr, ulis, uglob>>

(* finished_time passes: the session waited long enough for answers.       *)
WaitedEnough(e) ==
  /\ uses[e].w >= MaxMessage /\ ~uses[e].late
  /\ uses' = [uses EXCEPT ![e].late = TRUE]
  /\ UNCHANGED <<ucfg, uthr, ulis, uglob, uecho, ughost>>

-----------------------------------------------------------------------------
(* The main loop of start_mclient *)

SumOver(f, S) == FoldSet(LAMBDA t, s : s + f[t], 0, S)

(* No client left: the senders are told to stop; each ends its tick, is    *)
(* joined, and its counters are added up.                                  *)
NoClientLeft ==
  /\ uglob.main = "run" /\ uglob.clients < 1
  /\ uglob' = [uglob EXCEPT !.main = "stop"]
  /\ UNCHANGED <<ucfg, uses, uthr, ulis, uecho, ughost>>
stop_sender_threads ==
  /\ uglob.main = "stop"
  /\ \A t \in UtSenders : uthr[t].pc = "idle"
  /\ uglob' = [uglob EXCEPT !.main = "joined",
       !.sent = SumOver([t \in UtSenders |-> uthr[t].sent], UtSenders),
       !.dropped = SumOver([t \in UtSenders |-> uthr[t].dropped], UtSenders),
       !.loss = SumOver([t \in UtSenders |-> uthr[t].loss], UtSenders)]
  /\ UNCHANGED <<ucfg, uses, uthr, ulis, uecho, ughost>>

(* Then the listeners; their counters are freed with them.                 *)
stop_listeners_uncounted ==
  /\ uglob.main = "joined"
  /\ uglob' = [uglob EXCEPT !.main = "done"]
  /\ UNCHANGED <<ucfg, uses, uthr, ulis, uecho, ughost>>
stop_listener_threads ==
  /\ uglob.main = "joined"
  /\ uglob' = [uglob EXCEPT !.main = "done", !.recv = recv_count_snapshot]
  /\ UNCHANGED <<ucfg, uses, uthr, ulis, uecho, ughost>>

UtInit ==
  /\ ucfg \in UtSetup
  /\ uses = [e \in UtSession |->
       [w |-> 0, recvmsgnum |-> -1, loss |-> 0, completed |-> FALSE, late |-> FALSE,
        open |-> TRUE, ready |-> TRUE, listed |-> TRUE,
        sender |-> pick_sender_id(e), listener |-> pick_listener_base(e)]]
  /\ uthr = [t \in UtSenders |-> [pc |-> "idle", at |-> 0, batch |-> EmptyBatch,
                                reg |-> 0, done |-> 0, sent |-> 0, dropped |-> 0, loss |-> 0]]
  /\ ulis = [l \in 1..ucfg.listeners |-> 0]
  /\ uglob = [clients |-> Cardinality(UtSession), main |-> "run", live |-> ucfg.live,
              sent |-> 0, recv |-> 0, dropped |-> 0, loss |-> 0]
  /\ uecho = [e \in UtSession |-> <<>>]
  /\ ughost = [recv |-> 0, loss |-> 0, drops |-> 0, wrong |-> FALSE]

UtTick(t) ==
  \/ TickBegin(t) \/ TickPass(t) \/ TickRefresh(t) \/ TickWrite(t) \/ TickWriteFails(t)
  \/ TickComplete(t) \/ DecrementRead(t) \/ DecrementWrite(t) \/ TickEnd(t)
UtNext ==
  \/ \E t \in UtSenders : UtTick(t)
  \/ \E e \in UtSession : ClientRead(e) \/ EchoLost(e) \/ WaitedEnough(e)
  \/ NoClientLeft \/ stop_sender_threads \/ stop_listener_threads

(* Timers fire, time passes and messages are sent in every tick.           *)
UtTicks(t) == t \in UtSenders /\ UtTick(t)
UtWrites(t) == t \in UtSenders /\ (TickWrite(t) \/ TickWriteFails(t))
UtCompletes(t) == t \in UtSenders /\ TickComplete(t)
UtMain == NoClientLeft \/ stop_sender_threads \/ stop_listener_threads
UtFairness ==
  /\ \A t \in 0..2 :
       WF_UtVars(UtTicks(t)) /\ SF_UtVars(UtWrites(t)) /\ SF_UtVars(UtCompletes(t))
  /\ \A e \in UtSession : WF_UtVars(WaitedEnough(e))
  /\ WF_UtVars(UtMain)
UtSpec == UtInit /\ [][UtNext]_UtVars /\ UtFairness

-----------------------------------------------------------------------------
(* A datagram collected in a batch leaves on the socket of the session it  *)
(* was made for (uclient_tx_enqueue, uclient_tx_flush), and the totals     *)
(* printed at the end are what the threads saw: every reception is counted *)
(* once, every loss a session noted is harvested once or still with the    *)
(* session, and what was sent is what the sessions wrote.                  *)
TrafficExact ==
  /\ ~ughost.wrong
  /\ uglob.main = "done" =>
       /\ uglob.recv = ughost.recv
       /\ uglob.loss + SumOver([e \in UtSession |-> uses[e].loss], UtSession) = ughost.loss
       /\ ~ucfg.random => uglob.sent = SumOver([e \in UtSession |-> uses[e].w], UtSession)

(* With at most one sender thread the tool ends, unless told to hang on.   *)
MainEnds == ucfg.senders <= 1 /\ ~ucfg.hang ~> uglob.main = "done"
=============================================================================
