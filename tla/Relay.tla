-------------------------------- MODULE Relay --------------------------------
(***************************************************************************)
(* The connection manager of route/conn.go: it opens the other side of an  *)
(* inbound connection, copies both ways until both are done, tells the     *)
(* inbound once through onClose, and closes everything it tracks on        *)
(* CloseAll.  A connection is what the two copies share: the ends that are *)
(* open ("in" and "out"), the done flag, and the calls of onClose.  A copy *)
(* is at a read of its source or at a write to its destination, and what   *)
(* wakes it is the close of that end.                                      *)
(***************************************************************************)
EXTENDS Naturals

CONSTANT Conns

VARIABLES
    conn,      \* the connections
    closers    \* what CloseAll took from the list and has not closed yet

vars == <<conn, closers>>

Ends == {"in", "out"}
Directions == {"up", "down"}

\* payload: something was read ahead of a source (CachedReader).
NewConn(kind, duplex, payload) ==
    [kind |-> kind, duplex |-> duplex, payload |-> payload,
     pc |-> "dial", open |-> {"in"}, done |-> FALSE,
     copy |-> [d \in Directions |-> "idle"], calls |-> 0, tracked |-> FALSE,
     unreported |-> FALSE, told |-> FALSE]

Arrivals ==
    {NewConn("tcp", d, TRUE) : d \in BOOLEAN} \cup {NewConn("tcp", d, FALSE) : d \in BOOLEAN}
    \cup {NewConn("udp", FALSE, FALSE)}

Init ==
    /\ conn \in [Conns -> Arrivals]
    /\ closers = {}

Set(c, r) == conn' = [conn EXCEPT ![c] = r]

\* Fault: only the inbound end is closed.
ShutInbound(r) == [r EXCEPT !.open = @ \ {"in"}]

\* Both ends are closed; the close of a tracked connection takes it off the list.
Shut(r) == [r EXCEPT !.open = {}, !.tracked = FALSE]

OnClose(r) == [r EXCEPT !.calls = @ + 1]

-----------------------------------------------------------------------------
\* The dial of NewConnection and NewPacketConnection: a connection that was
\* dialed is tracked by its dialer.
Dial(c) ==
    /\ conn[c].pc = "dial"
    /\ \/ Set(c, [conn[c] EXCEPT !.pc = "report", !.open = Ends, !.tracked = TRUE])
       \/ Set(c, OnClose(Shut([conn[c] EXCEPT !.pc = "over"])))
    /\ UNCHANGED closers

Copying(r) ==
    [r EXCEPT !.pc = "copy", !.payload = FALSE, !.copy = [d \in Directions |-> "read"]]

\* ReportConnHandshakeSuccess, and NewConnection up to its copies.
ReportConn(c) ==
    /\ conn[c].pc = "report" /\ conn[c].kind = "tcp"
    /\ \/ Set(c, [conn[c] EXCEPT !.pc = "up"])
       \/ Set(c, OnClose(Shut([conn[c] EXCEPT !.pc = "over"])))
    /\ UNCHANGED closers

\* The same in NewPacketConnection, which does not call onClose on failure.
ReportPacketConn(c) ==
    /\ conn[c].pc = "report" /\ conn[c].kind = "udp"
    /\ \/ Set(c, Copying(conn[c]))
       \/ Set(c, Shut([conn[c] EXCEPT !.pc = "over", !.unreported = TRUE]))
    /\ UNCHANGED closers

\* kickWriteHandshake for one direction, then for the other.
KickWriteHandshake(c) ==
    /\ conn[c].pc \in Directions
    /\ \/ conn[c].pc = "up" /\ Set(c, [conn[c] EXCEPT !.pc = "down"])
       \/ conn[c].pc = "down" /\ Set(c, Copying(conn[c]))
       \/ LET r == [conn[c] EXCEPT !.pc = "over", !.done = TRUE]
          IN Set(c, Shut(IF conn[c].done THEN r ELSE OnClose(r)))
    /\ UNCHANGED closers

-----------------------------------------------------------------------------
Source(d) == IF d = "up" THEN "in" ELSE "out"
Destination(d) == IF d = "up" THEN "out" ELSE "in"

\* The end at which a copy is.
Place(r, d) == IF r.copy[d] = "read" THEN Source(d) ELSE Destination(d)
AtWork(r, d) == r.copy[d] \in {"read", "write"}

\* Something was read, or written.
CopyMoves(c, d) ==
    /\ AtWork(conn[c], d) /\ Place(conn[c], d) \in conn[c].open
    /\ Set(c, [conn[c] EXCEPT !.copy =
                 [@ EXCEPT ![d] = IF conn[c].copy[d] = "read" THEN "write" ELSE "read"]])
    /\ UNCHANGED closers

\* What the end of the data of one direction does to its destination.
HalfClosed(r, d) ==
    IF r.duplex THEN r
    ELSE [r EXCEPT !.open = @ \ {Destination(d)},
                   !.tracked = @ /\ Destination(d) # "out"]

\* A copy ends: at the end of the data, or because it cannot read or write.
CopyEnds(c, d) ==
    /\ AtWork(conn[c], d)
    /\ LET r == [conn[c] EXCEPT !.copy = [@ EXCEPT ![d] = "ending"]] IN
       \/ /\ r.kind = "tcp" /\ conn[c].copy[d] = "read" /\ Source(d) \in r.open
          /\ r.duplex => Destination(d) \in r.open
          /\ Set(c, HalfClosed(r, d))
       \/ r.kind = "tcp" /\ Set(c, Shut(r))
       \/ r.kind = "udp" /\ Set(c, r)
    /\ UNCHANGED closers

\* Fault: each of the two copies reports the end.
EachTells(r) == TRUE

\* done.Swap(true): the second copy of a stream tells, the first one of packets.
Tells(r) == IF r.kind = "tcp" THEN r.done ELSE ~r.done

ConnectionCopy(c, d) ==
    /\ conn[c].copy[d] = "ending" /\ conn[c].kind = "tcp"
    /\ LET r == [conn[c] EXCEPT !.copy = [@ EXCEPT ![d] = "over"], !.done = TRUE]
       IN Set(c, IF Tells(conn[c]) THEN Shut(OnClose(r)) ELSE r)
    /\ UNCHANGED closers

PacketConnectionCopy(c, d) ==
    /\ conn[c].copy[d] = "ending" /\ conn[c].kind = "udp"
    /\ LET r == [conn[c] EXCEPT !.copy = [@ EXCEPT ![d] = "over"], !.done = TRUE]
       IN Set(c, Shut(IF Tells(conn[c]) THEN OnClose(r) ELSE r))
    /\ UNCHANGED closers

\* Fault: the list is emptied and nothing is closed.
ForgetAll(s) == {}

TakeAll(s) == s

\* CloseAll empties the list under the lock
CloseAll ==
    /\ closers = {}
    /\ LET all == {c \in Conns : conn[c].tracked} IN
       /\ all # {}
       /\ closers' = TakeAll(all)
       /\ conn' = [c \in Conns |-> IF c \in all
                                   THEN [conn[c] EXCEPT !.tracked = FALSE, !.told = TRUE]
                                   ELSE conn[c]]

\* and closes what it took without it.
CloseOne(c) ==
    /\ c \in closers /\ closers' = closers \ {c}
    /\ Set(c, [conn[c] EXCEPT !.open = @ \ {"out"}])

Next ==
    \/ \E c \in Conns :
          \/ Dial(c) \/ ReportConn(c) \/ ReportPacketConn(c) \/ KickWriteHandshake(c)
          \/ CloseOne(c)
          \/ \E d \in Directions :
                \/ CopyMoves(c, d) \/ CopyEnds(c, d)
                \/ ConnectionCopy(c, d) \/ PacketConnectionCopy(c, d)
    \/ CloseAll

Spec == Init /\ [][Next]_vars

\* What nothing outside the program holds up.  A copy is woken by the close of
\* the end it is at, and by nothing else: closing its other end does not end
\* it.  The empty write of kickWriteHandshake has a deadline; the write of what
\* was read ahead has none and is woken as a copy is.
Obliged ==
    \E c \in Conns :
       \/ /\ conn[c].payload => Destination(conn[c].pc) \notin conn[c].open
          /\ KickWriteHandshake(c)
       \/ CloseOne(c)
       \/ \E d \in Directions :
             \/ Place(conn[c], d) \notin conn[c].open /\ CopyEnds(c, d)
             \/ ConnectionCopy(c, d) \/ PacketConnectionCopy(c, d)

-----------------------------------------------------------------------------
Over(r) == r.pc = "over" \/ \A d \in Directions : r.copy[d] = "over"

\* onClose is called once for every connection, never twice, whichever of the
\* two copies, the handshake and the dial ends it; only a packet connection
\* whose handshake cannot be reported is never told (route/conn.go:208).  Then
\* no end is left open and the list has forgotten the connection, whatever
\* CloseAll did in between.
OnCloseOnce ==
    \A c \in Conns :
       /\ conn[c].calls <= 1
       /\ Over(conn[c]) => /\ conn[c].calls = 1 \/ conn[c].unreported
                           /\ conn[c].open = {} /\ ~conn[c].tracked

\* All that is left of the connection is at its inbound end: the report of the
\* handshake, the write of what was read ahead, or copies that read from the
\* client or write to it.
HeldByClient(r) ==
    /\ "in" \in r.open
    /\ \/ r.pc = "report"
       \/ r.pc = "down" /\ r.payload
       \/ /\ r.pc = "copy"
          /\ \A d \in Directions : r.copy[d] = "over" \/ (AtWork(r, d) /\ Place(r, d) = "in")

\* A connection that was tracked when CloseAll ran comes to its end, unless the
\* client neither sends nor takes anything nor goes away: CloseAll closes the
\* remote end only (conn.go:61), so an upload that waits for the client, with
\* the download over or waiting for the client as well, is not woken.
CloseAllEnds ==
    \A c \in Conns : <>[](conn[c].told => Over(conn[c]) \/ HeldByClient(conn[c]))
=============================================================================
