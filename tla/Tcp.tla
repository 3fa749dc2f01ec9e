--------------------------------- MODULE Tcp ---------------------------------
(***************************************************************************)
(* The transmission control protocol of 4.2BSD (netinet/tcp_input.c,       *)
(* tcp_output.c, tcp_timer.c, tcp_usrreq.c, tcp_subr.c): two ends of one   *)
(* connection over a network that loses, repeats and reorders segments,    *)
(* and may still hold some of an earlier connection.                       *)
(*                                                                         *)
(* One step is one call of the protocol at splnet: a segment taken from    *)
(* the network, a timer, or a request of the user, with the whole of the   *)
(* tcp_output it ends with.  Data is the numbers of the bytes; sequence    *)
(* numbers are counted modulo Modulus and compared as tcp_seq.h does.      *)
(* Urgent data, options, checksums, keep-alive probes of an established    *)
(* connection, SO_LINGER and the want of mbufs are left out.               *)
(***************************************************************************)
EXTENDS Integers, Sequences, FiniteSets, SequencesExt

CONSTANTS
    Ends,       \* the two ends
    Client,     \* the one that connects; the other listens
    Uses,       \* Uses[e]: the calls its program makes to be done with it
    Bytes,      \* Bytes[e]: how many bytes the user of e has to write
    Writes,     \* and how many in one call
    Reads,      \* and how many it asks for in one call
    Iss,        \* Iss[e]: its first initial sequence number
    IssIncr,    \* TCP_ISSINCR / 2: what one connection adds to tcp_iss
    Old,        \* Old[e]: segments to e an earlier connection may have left
    Modulus,    \* 2^32: the range of a sequence number
    Hiwat,      \* so_rcv.sb_hiwat: the size of a receive buffer
    MaxSeg,     \* t_maxseg: the most data in a segment
    MaxShift,   \* TCP_MAXRXTSHIFT: retransmissions before the end is dropped
    MaxFaults   \* how often the network or the clock misbehaves

ASSUME TcpAssumption ==
    /\ Client \in Ends /\ Cardinality(Ends) = 2
    /\ Uses \in [Ends -> SUBSET {"shutdown", "close"}]
    /\ Bytes \in [Ends -> Nat] /\ Iss \in [Ends -> 0..(Modulus - 1)]
    /\ {Modulus, IssIncr, Hiwat, MaxSeg, MaxShift} \subseteq Nat \ {0}
    /\ MaxFaults \in Nat /\ Writes \cup Reads \subseteq Nat \ {0}
    /\ \A e \in Ends: Modulus > 2 * (Bytes[e] + Hiwat + 2)

VARIABLES
    conn,       \* conn[e]: socket, protocol control block and tcpcb of e
    net,        \* net[e]: the segments on their way to e, in order
    late,       \* late[e]: those that have been held up, and may overtake
    faults      \* losses, repetitions, delays and early timers so far

vars == <<conn, net, late, faults>>

Peer(e) == CHOOSE p \in Ends: p # e

------------------------------------------------------------------------------
(* States (tcp_fsm.h) and sequence numbers (tcp_seq.h).                    *)

CLOSED == 0
LISTEN == 1
SYN_SENT == 2
SYN_RECEIVED == 3
ESTABLISHED == 4
CLOSE_WAIT == 5
FIN_WAIT_1 == 6
CLOSING == 7
LAST_ACK == 8
FIN_WAIT_2 == 9
TIME_WAIT == 10

HaveRcvdSyn(c) == c.st >= SYN_RECEIVED
HaveRcvdFin(c) == c.st >= TIME_WAIT

OutFlags(c) ==
    CASE c.st = CLOSED -> {"RST", "ACK"}
      [] c.st = LISTEN -> {}
      [] c.st = SYN_SENT -> {"SYN"}
      [] c.st = SYN_RECEIVED -> {"SYN", "ACK"}
      [] c.st \in {FIN_WAIT_1, CLOSING, LAST_ACK} -> {"FIN", "ACK"}
      [] OTHER -> {"ACK"}

Mod(x) == x % Modulus
Diff(x, y) ==
    LET d == Mod(x - y) IN IF d < Modulus \div 2 THEN d ELSE d - Modulus

SeqLT(x, y) == Diff(x, y) < 0
SeqLEQ(x, y) == Diff(x, y) <= 0
SeqGT(x, y) == Diff(x, y) > 0

Least(x, y) == IF x < y THEN x ELSE y

------------------------------------------------------------------------------
(* The control blocks.                                                     *)

States == CLOSED..TIME_WAIT
Seqs == 0..(Modulus - 1)

Conns == [st: States, una: Seqs, nxt: Seqs, max: Seqs, wnd: Seqs, wl1: Seqs,
          wl2: Seqs, rnxt: Seqs, adv: Seqs, iss: Seqs,
          queue: Seq([seq: Seqs, data: Seq(Nat), fin: BOOLEAN]),
          acknow: BOOLEAN, delack: BOOLEAN,
          rexmt: BOOLEAN, persist: BOOLEAN, msl: BOOLEAN, shift: 0..MaxShift,
          cc: Nat, wrote: Nat, got: Seq(Nat), unread: 0..Hiwat,
          up: BOOLEAN, norcv: BOOLEAN, nosend: BOOLEAN, noref: BOOLEAN,
          eof: BOOLEAN, error: BOOLEAN]

Segments == [seq: Seqs, ack: Seqs, win: 0..Hiwat, data: Seq(Nat),
             flags: SUBSET {"SYN", "ACK", "FIN", "RST"}]

\* A new tcpcb is zeroed (m_getclr).
NewTcpcb(e) ==
    [st |-> IF e = Client THEN CLOSED ELSE LISTEN,
     una |-> 0, nxt |-> 0, max |-> 0, wnd |-> 0, wl1 |-> 0, wl2 |-> 0,
     rnxt |-> 0, adv |-> 0, iss |-> Iss[e], queue |-> <<>>,
     acknow |-> FALSE, delack |-> FALSE,
     rexmt |-> FALSE, persist |-> FALSE, msl |-> FALSE, shift |-> 0,
     cc |-> 0, wrote |-> 0, got |-> <<>>, unread |-> 0,
     up |-> FALSE, norcv |-> FALSE, nosend |-> FALSE, noref |-> FALSE,
     eof |-> FALSE, error |-> FALSE]

\* The other end listens, or there is no such socket; segments of an earlier
\* connection are one fault of the network.
Init ==
    /\ \E st \in {LISTEN, CLOSED}:
          conn = [e \in Ends |->
                     [NewTcpcb(e) EXCEPT !.st = IF e = Client THEN @ ELSE st]]
    /\ net = [e \in Ends |-> <<>>]
    /\ late \in [Ends -> SUBSET UNION {Old[e]: e \in Ends}]
    /\ \A e \in Ends: late[e] \subseteq Old[e]
    /\ faults = IF \E e \in Ends: late[e] # {} THEN 1 ELSE 0
    /\ faults <= MaxFaults

Space(c) == Hiwat - c.unread

SendSeqInit(c) == [c EXCEPT !.una = c.iss, !.nxt = c.iss, !.max = c.iss]

SoIsDisconnected(c) == [c EXCEPT !.up = FALSE, !.norcv = TRUE, !.nosend = TRUE]
CancelTimers(c) ==
    [c EXCEPT !.rexmt = FALSE, !.persist = FALSE, !.msl = FALSE]

\* tcp_close.  What is left is what the user has seen of the connection; one
\* that the listener has not accepted is not there any more.
TcpClose(e, c) ==
    IF e # Client /\ ~c.nosend /\ ~c.up
    THEN [NewTcpcb(e) EXCEPT !.iss = Mod(c.iss + IssIncr)]
    ELSE [SoIsDisconnected(NewTcpcb(e)) EXCEPT
             !.st = CLOSED, !.wrote = c.wrote, !.got = c.got, !.noref = c.noref,
             !.eof = c.eof, !.error = c.error]

------------------------------------------------------------------------------
(* tcp_output.  A result is the block and the segments sent.               *)

Result(c, out) == [c |-> c, out |-> out]

\* The bytes of the send buffer are the last cc the user wrote.
SendBuffer(c, off, len) == [i \in 1..len |-> c.wrote - c.cc + off + i]

\* The window to announce: none rather than a silly one.
Window(c) == IF Space(c) < Hiwat \div 4 THEN 0 ELSE Space(c)

\* 35% of the buffer have opened since the last window announced; the
\* difference is unsigned.
WorthUpdate(c) ==
    /\ Space(c) > 0
    /\ 100 * Mod(Space(c) - Mod(c.adv - c.rnxt)) >= 35 * Hiwat

SetPersist(c) ==
    [c EXCEPT !.persist = TRUE,
              !.shift = IF @ + 1 >= MaxShift THEN 0 ELSE @ + 1]

\* Mutant: snd_max goes back with snd_nxt.
AdvanceBack(c, flags, len, force) ==
    LET ctl == IF flags \cap {"SYN", "FIN"} # {} THEN 1 ELSE 0
        nxt == Mod(c.nxt + ctl + len)
        start == ~c.rexmt /\ nxt # c.una
    IN  IF force = 1
        THEN [c EXCEPT !.max = Mod(c.una + 1)]
        ELSE [c EXCEPT !.nxt = nxt, !.max = nxt,
                       !.rexmt = @ \/ start,
                       !.shift = IF start THEN 0 ELSE @,
                       !.persist = FALSE]


\* "Advance snd_nxt over sequence space of this segment" and set the timer;
\* a forced byte only moves snd_max.
Advance(c, flags, len, force) ==
    LET ctl == IF flags \cap {"SYN", "FIN"} # {} THEN 1 ELSE 0
        nxt == Mod(c.nxt + ctl + len)
        start == ~c.rexmt /\ nxt # c.una
    IN  IF force = 1
        THEN [c EXCEPT !.max = IF SeqGT(c.una + 1, @) THEN Mod(c.una + 1)
                               ELSE @]
        ELSE [c EXCEPT !.nxt = nxt,
                       !.max = IF SeqGT(nxt, @) THEN nxt ELSE @,
                       !.rexmt = @ \/ start,
                       !.shift = IF start THEN 0 ELSE @,
                       !.persist = FALSE]

\* What this end would send now, and whether it has reason to.
Outgoing(c, force) ==
    LET off == Diff(c.nxt, c.una)
        room == Least(c.cc, c.wnd + force) - off
        len == Least(room, MaxSeg)
        flags == IF Mod(c.nxt + len) < Mod(c.una + c.cc)
                 THEN OutFlags(c) \ {"FIN"} ELSE OutFlags(c)
    IN  [off |-> off, len |-> len, flags |-> flags,
         more |-> room > MaxSeg /\ force = 0,
         send |-> /\ len >= 0
                  /\ \/ flags \cap {"SYN", "RST", "FIN"} # {}
                     \/ /\ len > 0
                        /\ \/ len = MaxSeg \/ off + len >= c.cc
                           \/ len * 4 >= c.wnd \/ force = 1
                     \/ c.acknow
                     \/ WorthUpdate(c),
         hold |-> /\ len >= 0 /\ c.wnd = 0 /\ c.cc > 0
                  /\ ~c.rexmt /\ ~c.persist]

RECURSIVE Output(_, _)
Output(c, force) ==
    LET o == Outgoing(c, force)
        seg == [seq |-> c.nxt, ack |-> c.rnxt, win |-> Window(c),
                flags |-> o.flags, data |-> SendBuffer(c, o.off, o.len)]
        edge == Mod(c.rnxt + Window(c))
        sent == [Advance(c, o.flags, o.len, force) EXCEPT
                    !.adv = IF Window(c) > 0 /\ SeqGT(edge, @) THEN edge ELSE @,
                    !.acknow = FALSE, !.delack = FALSE]
        rest == Output(sent, force)
    IN  IF ~o.send
        THEN Result(IF o.hold THEN SetPersist([c EXCEPT !.shift = 0]) ELSE c,
                    <<>>)
        ELSE IF o.more THEN Result(rest.c, <<seg>> \o rest.out)
                       ELSE Result(sent, <<seg>>)

\* tcp_drop: a RST, if there is a peer to tell and tcp_output gets to it.
TcpDrop(e, c) ==
    LET o == IF HaveRcvdSyn(c) THEN Output([c EXCEPT !.st = CLOSED], 0)
                               ELSE Result(c, <<>>)
        gone == TcpClose(e, o.c)
    IN  Result([gone EXCEPT !.error = gone.st = CLOSED], o.out)

\* tcp_usrclosed, for an end that is connected.
UsrClosed(c) ==
    LET st == CASE c.st \in {SYN_RECEIVED, ESTABLISHED} -> FIN_WAIT_1
                [] c.st = CLOSE_WAIT -> LAST_ACK
                [] OTHER -> c.st
        c1 == [c EXCEPT !.st = st]
    IN  IF c1.st >= FIN_WAIT_2 THEN SoIsDisconnected(c1) ELSE c1

\* tcp_disconnect
Disconnect(e, c) ==
    IF c.st < ESTABLISHED THEN Result(TcpClose(e, c), <<>>)
    ELSE Output(UsrClosed([c EXCEPT !.norcv = TRUE, !.nosend = TRUE,
                                    !.unread = 0]), 0)

\* tcp_respond with flags, through the tcpcb or without one.
Respond(c, ack, seq, flags) ==
    [seq |-> seq, ack |-> ack, flags |-> flags, data |-> <<>>,
     win |-> IF c.st = CLOSED THEN 0 ELSE Space(c)]

------------------------------------------------------------------------------
(* tcp_reass: the text of a segment, and the queue of those that came      *)
(* early.  An entry has a sequence number, data, and whether a FIN ends it.*)

Follow(c) == c.queue # <<>> /\ Head(c.queue).seq = c.rnxt

\* Hand what is now in order to the user; the FIN that counts is the last's.
RECURSIVE Present(_, _)
Present(c, fin) ==
    IF ~Follow(c) THEN [c |-> c, fin |-> fin]
    ELSE LET q == Head(c.queue)
             kept == IF c.norcv THEN <<>> ELSE q.data
         IN  Present([c EXCEPT !.rnxt = Mod(@ + Len(q.data)), !.queue = Tail(@),
                               !.got = @ \o kept, !.unread = @ + Len(kept)],
                     q.fin)

\* The part of q from its n-th byte on.
Cut(q, n) == [q EXCEPT !.seq = Mod(@ + n), !.data = SubSeq(@, n + 1, Len(@))]

\* Put q in its place.  A segment before it may have its first bytes, or all
\* of it; those after it lose what it brings.
Insert(queue, q) ==
    LET before == SelectSeq(queue, LAMBDA x: SeqLEQ(x.seq, q.seq))
        after == SelectSeq(queue, LAMBDA x: SeqGT(x.seq, q.seq))
        over == IF before = <<>> THEN 0
                ELSE Diff(Last(before).seq + Len(Last(before).data), q.seq)
        new == IF over > 0 THEN Cut(q, over) ELSE q
        end(x) == Diff(new.seq + Len(new.data), x.seq)
        left == SelectSeq(after, LAMBDA x: end(x) <= 0 \/ end(x) < Len(x.data))
        rest(x) == IF end(x) > 0 THEN Cut(x, end(x)) ELSE x
    IN  IF over > 0 /\ over >= Len(q.data) THEN queue
        ELSE before \o <<new>> \o [i \in DOMAIN left |-> rest(left[i])]

\* Mutant: a FIN counts when it comes, and not in its turn.
ReassAtOnce(c, q) ==
    LET c1 == [c EXCEPT !.queue = Insert(@, q)]
    IN  [c |-> Present(c1, FALSE).c, fin |-> q.fin]

\* A FIN that ends what is now in order is reported; in SYN_RECEIVED data
\* wait for the acknowledgement of our SYN.
Reass(c, q) ==
    LET c1 == [c EXCEPT !.queue = Insert(@, q)]
        wait == c.st = SYN_RECEIVED /\ Follow(c1) /\ Head(c1.queue).data # <<>>
    IN  IF c1.queue = c.queue \/ wait
        THEN [c |-> c1, fin |-> FALSE]
        ELSE Present(c1, FALSE)

------------------------------------------------------------------------------
(* tcp_input, in the order of its steps.                                   *)

\* "First check that at least some bytes of segment are within receive
\* window", and drop those that are not.  fin is TH_FIN in ti_flags, which
\* trimming clears; flags are the tiflags, which keep it.
Trim(c, s) ==
    LET wnd == Space(c)
        syn == "SYN" \in s.flags /\ SeqGT(c.rnxt, s.seq)
        seq == IF syn THEN Mod(s.seq + 1) ELSE s.seq
        flags == IF syn THEN s.flags \ {"SYN"} ELSE s.flags
        ahead == Diff(c.rnxt, seq)
        q == [seq |-> seq, data |-> s.data, fin |-> "FIN" \in flags]
        q1 == IF ahead > 0 THEN Cut(q, ahead) ELSE q
        beyond == Diff(q1.seq + Len(q1.data), c.rnxt + wnd)
        q2 == IF beyond > 0
              THEN [q1 EXCEPT !.data = SubSeq(@, 1, Len(@) - beyond),
                              !.fin = FALSE]
              ELSE q1
        lead == \/ ~SeqGT(c.rnxt, s.seq) \/ ahead < Len(s.data)
                \/ ahead = Len(s.data) /\ "FIN" \in flags
        trail == beyond <= 0 \/ beyond < Len(q1.data)
    IN  IF wnd = 0
        THEN [ok |-> c.rnxt = s.seq, flags |-> s.flags,
              q |-> [q EXCEPT !.seq = s.seq, !.data = <<>>,
                              !.fin = @ /\ s.data = <<>>]]
        ELSE [ok |-> lead /\ trail, flags |-> flags, q |-> q2]

\* "Generate an ACK dropping incoming segment if it occupies sequence space."
DropAfterAck(c, s, flags) ==
    Result(c, IF "RST" \notin flags
                 /\ (s.data # <<>> \/ flags \cap {"SYN", "FIN"} # {})
              THEN <<Respond(c, c.rnxt, c.nxt, {"ACK"})>> ELSE <<>>)

\* "Generate a RST. Make ACK acceptable to originator of segment."
DropWithReset(c, s) ==
    LET end == s.seq + Len(s.data) + (IF "SYN" \in s.flags THEN 1 ELSE 0)
    IN  Result(c, IF "RST" \in s.flags THEN <<>>
                  ELSE IF "ACK" \in s.flags
                  THEN <<Respond(c, 0, s.ack, {"RST"})>>
                  ELSE <<Respond(c, Mod(end), 0, {"RST", "ACK"})>>)

\* Ack processing of a segment that acknowledges something new.  The send
\* window is an unsigned number; when the FIN is acknowledged too, nothing is
\* taken from it, for the buffer has been emptied first.
Acked(c, ack) ==
    LET n == Diff(ack, c.una)
        finacked == n > c.cc
        c1 == [c EXCEPT !.rexmt = ack # c.max,
                        !.shift = IF ack # c.max THEN 0 ELSE @,
                        !.cc = IF finacked THEN 0 ELSE @ - n,
                        !.wnd = IF finacked THEN @ ELSE Mod(@ - n),
                        !.una = ack,
                        !.nxt = IF SeqLT(@, ack) THEN ack ELSE @]
    IN  CASE finacked /\ c.st = FIN_WAIT_1 ->
                [(IF c.norcv THEN SoIsDisconnected(c1) ELSE c1)
                     EXCEPT !.st = FIN_WAIT_2]
          [] finacked /\ c.st = CLOSING ->
                [CancelTimers(SoIsDisconnected(c1)) EXCEPT !.st = TIME_WAIT,
                                                           !.msl = TRUE]
          [] OTHER -> c1

\* step6: "If this ACK reflects more up to date window information ..."
UpdateWindow(c, seq, ack, win) ==
    IF \/ SeqLT(c.wl1, seq)
       \/ c.wl1 = seq /\ (SeqLT(c.wl2, ack) \/ (c.wl2 = ack /\ win > c.wnd))
    THEN [c EXCEPT !.wnd = win, !.wl1 = seq, !.wl2 = ack,
                   !.persist = @ /\ win = 0]
    ELSE c

\* "If FIN is received ACK the FIN and let the user know."
FinReceived(c) ==
    LET c1 == [c EXCEPT !.norcv = TRUE, !.eof = TRUE, !.acknow = TRUE,
                        !.rnxt = Mod(@ + 1)]
    IN  CASE c.st \in {SYN_RECEIVED, ESTABLISHED} ->
                [c1 EXCEPT !.st = CLOSE_WAIT]
          [] c.st = FIN_WAIT_1 -> [c1 EXCEPT !.st = CLOSING]
          [] c.st = FIN_WAIT_2 ->
                [CancelTimers(SoIsDisconnected(c1)) EXCEPT !.st = TIME_WAIT,
                                                           !.msl = TRUE]
          [] OTHER -> c1

\* From step6 to the end: window, text, FIN, output.  t is what Trim left.
Step6(c, s, t) ==
    LET c1 == UpdateWindow(c, t.q.seq, s.ack, s.win)
        text == (t.q.data # <<>> \/ "FIN" \in t.flags) /\ ~HaveRcvdFin(c)
        r == IF text THEN Reass([c1 EXCEPT !.delack = TRUE], t.q)
                     ELSE [c |-> c1, fin |-> FALSE]
    IN  Output(IF r.fin THEN FinReceived(r.c) ELSE r.c, 0)

------------------------------------------------------------------------------
(* The network delivers in order, but for its faults: a segment may be     *)
(* lost, held up, or both delivered and held up, and so come twice.        *)

Fates == {"sent", "lost", "late", "twice"}
With(fate, which) == {i \in DOMAIN fate: fate[i] \in which}

Step(e, net0, late0, r, cost) ==
    \E fate \in [DOMAIN r.out -> Fates]:
       LET gone == {r.out[i]: i \in With(fate, {"lost", "late"})}
           held == {r.out[i]: i \in With(fate, {"late", "twice"})}
           mine == Cardinality(With(fate, Fates \ {"sent"}))
       IN  /\ faults' = faults + cost + mine /\ faults' <= MaxFaults
           /\ conn' = [conn EXCEPT ![e] = r.c]
           /\ net' = [net0 EXCEPT ![Peer(e)] =
                         @ \o SelectSeq(r.out, LAMBDA x: x \notin gone)]
           /\ late' = [late0 EXCEPT ![Peer(e)] = @ \cup held]

\* s is the next to arrive at e, or one that has been held up.
Take(e, s, r) ==
    \/ /\ net[e] # <<>> /\ s = Head(net[e])
       /\ Step(e, [net EXCEPT ![e] = Tail(@)], late, r, 0)
    \/ /\ s \in late[e]
       /\ Step(e, net, [late EXCEPT ![e] = @ \ {s}], r, 0)

Arriving(e) == late[e] \cup (IF net[e] = <<>> THEN {} ELSE {Head(net[e])})

\* in_pcblookup finds nothing.
NoConnection(e, s) ==
    /\ conn[e].st = CLOSED
    /\ Take(e, s, DropWithReset(conn[e], s))

\* A segment for the listener that does not open a connection.
NotASyn(e, s) ==
    /\ conn[e].st = LISTEN
    /\ "SYN" \notin s.flags \/ s.flags \cap {"RST", "ACK"} # {}
    /\ Take(e, s, IF "RST" \notin s.flags /\ "ACK" \in s.flags
                  THEN DropWithReset(conn[e], s) ELSE Result(conn[e], <<>>))

\* trimthenstep6: the sequence number of the data, which a SYN never has
\* here, and snd_wl1 just before it.
AfterSyn(c, s) ==
    LET t == [flags |-> s.flags,
              q |-> [seq |-> Mod(s.seq + 1), data |-> s.data, fin |-> FALSE]]
    IN  Step6([c EXCEPT !.wl1 = s.seq], s, t)

PassiveOpen(e, s) ==
    /\ conn[e].st = LISTEN
    /\ "SYN" \in s.flags /\ s.flags \cap {"RST", "ACK"} = {}
    /\ LET c == [SendSeqInit(conn[e]) EXCEPT !.st = SYN_RECEIVED,
                                              !.rnxt = Mod(s.seq + 1)]
       IN  Take(e, s, AfterSyn(c, s))

\* SYN_SENT: an acknowledgement of something else, a refusal, or neither.
NotOurSyn(e, s) ==
    LET c == conn[e]
        bad == "ACK" \in s.flags /\ (SeqLT(s.ack, c.iss) \/ SeqGT(s.ack, c.max))
    IN  /\ c.st = SYN_SENT
        /\ bad \/ "RST" \in s.flags \/ "SYN" \notin s.flags
        /\ Take(e, s, IF bad THEN DropWithReset(c, s)
                      ELSE IF {"RST", "ACK"} \subseteq s.flags
                      THEN TcpDrop(e, c) ELSE Result(c, <<>>))

ActiveOpen(e, s) ==
    LET c == conn[e]
        c1 == [c EXCEPT !.una = s.ack,
                        !.nxt = IF SeqLT(@, s.ack) THEN s.ack ELSE @,
                        !.rexmt = FALSE, !.rnxt = Mod(s.seq + 1),
                        !.acknow = TRUE]
        c2 == IF SeqGT(s.ack, c.iss)
              THEN Present([c1 EXCEPT !.up = TRUE, !.st = ESTABLISHED], FALSE).c
              ELSE [c1 EXCEPT !.st = SYN_RECEIVED]
    IN  /\ c.st = SYN_SENT
        /\ "SYN" \in s.flags /\ "RST" \notin s.flags
        /\ "ACK" \in s.flags => ~SeqLT(s.ack, c.iss) /\ ~SeqGT(s.ack, c.max)
        /\ Take(e, s, AfterSyn(c2, s))

------------------------------------------------------------------------------
(* tcp_input in the other states.                                          *)

OutsideWindow(e, s, t) ==
    LET c == conn[e]
    IN  /\ HaveRcvdSyn(c) /\ ~t.ok
        /\ Take(e, s, DropAfterAck(c, s, t.flags))

\* A segment that is not taken: data for a user who is gone, a RST, a SYN, or
\* one without ACK.
UserGone(c, t) == c.noref /\ c.st > CLOSE_WAIT /\ t.q.data # <<>>

Rejected(e, s, t) ==
    LET c == conn[e]
        dropped == TcpDrop(e, c)
        reset == DropWithReset([c EXCEPT !.st = CLOSED], s)
    IN  /\ HaveRcvdSyn(c) /\ t.ok
        /\ UserGone(c, t) \/ "ACK" \notin t.flags
                          \/ t.flags \cap {"RST", "SYN"} # {}
        /\ Take(e, s,
             IF UserGone(c, t) THEN Result(TcpClose(e, c), reset.out)
             ELSE IF "RST" \in t.flags
             THEN IF c.st \in {CLOSING, LAST_ACK, TIME_WAIT}
                  THEN Result(TcpClose(e, c), <<>>) ELSE dropped
             ELSE IF "SYN" \in t.flags
             THEN Result(dropped.c, dropped.out \o reset.out)
             ELSE Result(c, <<>>))

Taken(c, t) ==
    /\ HaveRcvdSyn(c) /\ t.ok /\ ~UserGone(c, t)
    /\ "ACK" \in t.flags /\ t.flags \cap {"RST", "SYN"} = {}

New(c, ack) == SeqGT(ack, c.una)
TooNew(c, ack) == SeqGT(ack, c.max)

\* An acknowledgement of what has not been sent; TIME_WAIT takes none.
BadAck(e, s, t) ==
    LET c == conn[e]
        early == c.st = SYN_RECEIVED
    IN  /\ Taken(c, t)
        /\ IF early THEN SeqGT(c.una, s.ack) \/ TooNew(c, s.ack)
                    ELSE New(c, s.ack) /\ (TooNew(c, s.ack) \/ c.st = TIME_WAIT)
        /\ Take(e, s, IF early THEN DropWithReset(c, s)
                      ELSE DropAfterAck(c, s, t.flags))

\* LAST_ACK: "the only thing that can arrive is an acknowledgment of our FIN".
LastAck(e, s, t) ==
    LET c == conn[e]
        acked == Acked(c, s.ack)
    IN  /\ Taken(c, t) /\ c.st = LAST_ACK
        /\ New(c, s.ack) /\ ~TooNew(c, s.ack)
        /\ Take(e, s, Result(IF Diff(s.ack, c.una) > c.cc
                             THEN TcpClose(e, acked) ELSE acked, <<>>))

\* The acknowledgement of our SYN.
SynAcked(c, seq) ==
    LET una == Mod(c.una + 1)
        c1 == [c EXCEPT !.una = una, !.nxt = IF SeqLT(@, una) THEN una ELSE @,
                        !.rexmt = FALSE, !.up = TRUE, !.st = ESTABLISHED]
    IN  [Present(c1, FALSE).c EXCEPT !.wl1 = Mod(seq - 1)]

Processed(e, s, t) ==
    LET c == conn[e]
        c1 == IF c.st = SYN_RECEIVED THEN SynAcked(c, t.q.seq) ELSE c
        c2 == IF New(c1, s.ack) THEN Acked(c1, s.ack) ELSE c1
    IN  /\ Taken(c, t)
        /\ c.st = SYN_RECEIVED => ~SeqGT(c.una, s.ack)
        /\ c.st = SYN_RECEIVED \/ New(c, s.ack) => ~TooNew(c, s.ack)
        /\ New(c, s.ack) => c.st \notin {LAST_ACK, TIME_WAIT}
        /\ Take(e, s, Step6(c2, s, t))

Input(e) ==
    \E s \in Arriving(e): LET t == Trim(conn[e], s) IN
       \/ NoConnection(e, s) \/ NotASyn(e, s) \/ PassiveOpen(e, s)
       \/ NotOurSyn(e, s) \/ ActiveOpen(e, s)
       \/ OutsideWindow(e, s, t) \/ Rejected(e, s, t) \/ BadAck(e, s, t)
       \/ LastAck(e, s, t) \/ Processed(e, s, t)

------------------------------------------------------------------------------
(* Requests of the user (tcp_usrreq, and soclose above it).                *)

Call(e, r) == Step(e, net, late, r, 0)

\* One connect per socket.
Connect(e) ==
    LET c == conn[e]
    IN  /\ e = Client /\ c.st = CLOSED /\ ~c.nosend
        /\ Call(e, Output([SendSeqInit(c) EXCEPT !.st = SYN_SENT], 0))

Send(e) ==
    LET c == conn[e]
    IN  /\ c.up /\ ~c.nosend
        /\ \E n \in Writes \cap 1..(Bytes[e] - c.wrote):
              Call(e, Output([c EXCEPT !.wrote = @ + n, !.cc = @ + n], 0))

\* soreceive takes n bytes, and PRU_RCVD may announce the room.
Receive(e) ==
    LET c == conn[e]
    IN  /\ c.st # CLOSED /\ c.unread > 0
        /\ \E n \in Reads:
              Call(e, Output([c EXCEPT !.unread = @ - Least(n, @)], 0))

Shutdown(e) ==
    LET c == conn[e]
    IN  /\ "shutdown" \in Uses[e] /\ c.up /\ ~c.nosend /\ c.wrote = Bytes[e]
        /\ Call(e, Output(UsrClosed([c EXCEPT !.nosend = TRUE]), 0))

\* soclose: disconnect if connected, then detach, which disconnects again
\* what is still there.
SoClose(e) ==
    LET c == conn[e]
        first == IF c.up THEN Disconnect(e, c) ELSE Result(c, <<>>)
        second == IF first.c.st = CLOSED THEN Result(first.c, <<>>)
                  ELSE Disconnect(e, first.c)
    IN  /\ "close" \in Uses[e] /\ ~c.noref /\ c.st # CLOSED
        /\ (c.up /\ c.wrote = Bytes[e]) \/ c.nosend \/ c.st = SYN_SENT
        /\ Call(e, Result([second.c EXCEPT !.noref = TRUE],
                          first.out \o second.out))

------------------------------------------------------------------------------
(* The timers (tcp_timers, tcp_fasttimo).  One that goes off when nothing  *)
(* is under way is on time; one that is early is a fault of the network.   *)

Quiet == \A e \in Ends: Arriving(e) = {} /\ ~conn[e].delack

Timer(e, r) == Step(e, net, late, r, IF Quiet THEN 0 ELSE 1)

\* Mutant: one retransmission too many.
RexmtOnce(e) ==
    LET c == conn[e]
    IN  /\ c.rexmt
        /\ Timer(e, IF c.shift > MaxShift THEN TcpDrop(e, c)
                    ELSE Output([c EXCEPT !.shift = @ + 1, !.nxt = c.una], 0))

Rexmt(e) ==
    LET c == conn[e]
    IN  /\ c.rexmt
        /\ Timer(e, IF c.shift + 1 > MaxShift THEN TcpDrop(e, c)
                    ELSE Output([c EXCEPT !.shift = @ + 1, !.nxt = c.una], 0))

\* Mutant: the probe is not forced.
PersistGently(e) ==
    /\ conn[e].persist
    /\ Timer(e, Output(SetPersist(conn[e]), 0))

Persist(e) ==
    /\ conn[e].persist
    /\ Timer(e, Output(SetPersist(conn[e]), 1))

TwoMsl(e) ==
    /\ conn[e].msl
    /\ Timer(e, Result(TcpClose(e, conn[e]), <<>>))

\* TCPT_KEEP drops what is not established; it is longer than the others.
Keep(e) ==
    /\ conn[e].st \in {SYN_SENT, SYN_RECEIVED}
    /\ Step(e, net, late, TcpDrop(e, conn[e]),
            IF Quiet /\ ~conn[e].rexmt THEN 0 ELSE 1)

Fasttimo(e) ==
    /\ conn[e].delack
    /\ Call(e, Output([conn[e] EXCEPT !.delack = FALSE, !.acknow = TRUE], 0))

Next ==
    \E e \in Ends:
       \/ Input(e)
       \/ Connect(e) \/ Send(e) \/ Receive(e) \/ Shutdown(e) \/ SoClose(e)
       \/ Rexmt(e) \/ Persist(e) \/ TwoMsl(e) \/ Keep(e) \/ Fasttimo(e)

\* The network delivers what it does not lose, the clock runs, and programs
\* read what there is.  These are the actions above, told from their effect:
\* TLC is slow at ENABLED of actions as large as theirs.
Delivered(e) ==
    /\ faults' = faults
    /\ \/ net[e] # <<>> /\ net'[e] = Tail(net[e])
       \/ late'[e] \subseteq late[e] /\ late'[e] # late[e]
Due(e) == Quiet /\ (conn[e].rexmt \/ conn[e].persist)
TimedOut(e) ==
    /\ Due(e)
    /\ conn'[e].shift # conn[e].shift \/ conn'[e].st # conn[e].st
HasAcked(e) == conn[e].delack /\ ~conn'[e].delack
HasRead(e) == conn'[e].unread < conn[e].unread

Fairness ==
    \A e \in Ends:
       /\ []<>(Arriving(e) = {}) \/ []<><<Delivered(e)>>_vars
       /\ []<>~Due(e) \/ []<><<TimedOut(e)>>_vars
       /\ []<>~conn[e].delack \/ []<><<HasAcked(e)>>_vars
       /\ []<>(conn[e].unread = 0) \/ []<><<HasRead(e)>>_vars

Spec == Init /\ [][Next]_vars
FairSpec == Spec /\ Fairness

------------------------------------------------------------------------------
(* Properties.                                                             *)

\* Every field keeps its type: no more than the buffer holds is kept, and no
\* timer backs off past TCP_MAXRXTSHIFT.
TypeOK ==
    /\ conn \in [Ends -> Conns]
    /\ net \in [Ends -> Seq(Segments)]
    /\ late \in [Ends -> SUBSET Segments]
    /\ faults \in 0..MaxFaults

\* The user knows that there is no more to come: end of file, or the end of
\* a connection that was not broken off.
Told(c) == c.eof \/ (c.st = CLOSED /\ c.nosend /\ ~c.error /\ ~c.noref)

\* What the users see of the two ends, as the abstract specification has it.
Stream ==
    INSTANCE ByteStream WITH
        wrote <- [e \in Ends |-> conn[e].wrote],
        over <- [e \in Ends |-> conn[e].nosend],
        given <- [e \in Ends |-> conn[e].got],
        told <- [e \in Ends |-> Told(conn[e])]

\* What the two users see is a byte stream: tcp_input and tcp_reass hand over
\* every byte once, in order and without a gap, and the end of it only after
\* all of it, whatever the network does.
StreamKept == Stream!Spec

Both == \A e \in Ends: conn[e].st >= ESTABLISHED

\* The two control blocks agree: what an end takes for acknowledged has been
\* received, what it has received had been sent, and an end that waits for
\* no acknowledgement any more has told the other that it is done.  The FIN
\* that a persist probe carries with the last byte is not counted in snd_max
\* (tcp_output.c:278), so the peer may be one ahead.
InStep ==
    Both => \A e \in Ends:
               LET c == conn[e]
                   p == conn[Peer(e)]
               IN  /\ SeqLEQ(c.una, p.rnxt)
                   /\ \/ SeqLEQ(p.rnxt, c.max)
                      \/ p.eof /\ p.rnxt = Mod(c.max + 1)
                   /\ c.st = FIN_WAIT_2 => p.eof
                   /\ c.st = TIME_WAIT => p.eof

\* Something of c waits for the peer.
Outstanding(c) ==
    \/ HaveRcvdSyn(c) /\ (c.una # c.max \/ c.cc > 0)
    \/ c.st \in {SYN_SENT, SYN_RECEIVED, FIN_WAIT_1, CLOSING, LAST_ACK}

Armed(c) == c.rexmt \/ c.persist

\* The two places where the code leaves an end with work and no timer: data
\* blocked by a closed window after a segment that was sent for something
\* else (tcp_output.c:126 is not reached, and :277 stops the timer), and
\* LAST_ACK after an acknowledgement of data alone (tcp_input.c:557).
Stalled(c) ==
    /\ Outstanding(c) /\ ~Armed(c)
    /\ (c.cc > 0 /\ c.wnd = 0) \/ c.st = LAST_ACK


\* Some user has been told of an error, or the one at the other end is gone.
Broken(e) == conn[e].error \/ conn[Peer(e)].error \/ conn[Peer(e)].noref

\* All that a user has written reaches the other user, through losses,
\* closed windows and lost window updates, unless the connection breaks or
\* that user is gone, or the sender is in one of the states of Stalled.
Arrives ==
    \A e \in Ends:
       conn[e].wrote = Bytes[e] /\ conn[e].wrote > 0
          ~> \/ Len(conn[Peer(e)].got) = Bytes[e]
             \/ Broken(e) \/ Stalled(conn[e])
=============================================================================
