-------------------------------- MODULE MCTcp --------------------------------
(* Instances of Tcp for TLC: a client and a server.                          *)
EXTENDS Tcp
CONSTANTS a, b

\* The client half-closes or closes; the server answers with three bytes,
\* more than its peer's buffer holds, and closes.
ServerBytes == [e \in Ends |-> IF e = a THEN 0 ELSE 3]
ClientUses == [e \in Ends |-> IF e = a THEN {"shutdown", "close"} ELSE {"close"}]

\* The client's SYN has the last sequence number before the wrap.
Numbers == [e \in Ends |-> IF e = a THEN Modulus - 1 ELSE 1]

\* The SYN of an earlier connection, and the acknowledgement that ended its
\* handshake, may still be on their way to the server.
Earlier(seq, ack, flags) ==
    [seq |-> seq, ack |-> ack, win |-> Hiwat, flags |-> flags, data |-> <<>>]
OldSyn == [e \in Ends |->
    IF e = a THEN {}
    ELSE {Earlier(Modulus - 1 - IssIncr, 0, {"SYN"}),
          Earlier(Modulus - IssIncr, Modulus - 2, {"ACK"})}]
=============================================================================
