--------------------------- MODULE RoutingProofs ---------------------------
(***************************************************************************)
(* Proofs about what is on the way of a connection: the connection manager *)
(* that relays it, for any set of connections; the race of dials, for any  *)
(* interfaces and numbers of addresses; and the walk over the DNS rules,   *)
(* for any list of rules.                                                  *)
(***************************************************************************)
EXTENDS MCWalks, FiniteSetTheorems, TLAPS

Conn == [kind : {"tcp", "udp"}, duplex : BOOLEAN, payload : BOOLEAN,
         pc : {"dial", "report", "up", "down", "copy", "over"}, open : SUBSET Ends,
         done : BOOLEAN, copy : [Directions -> {"idle", "read", "write", "ending", "over"}],
         calls : {0, 1}, tracked : BOOLEAN, unreported : BOOLEAN, told : BOOLEAN]

Ended(r, d) == r.copy[d] = "over"
Both(r) == Ended(r, "up") /\ Ended(r, "down")
Either(r) == Ended(r, "up") \/ Ended(r, "down")

\* Before the copies nothing was told.  The done flag is set when the first of
\* them ends, which is when packets are reported; a stream is at the second.
Fine(r) ==
    /\ r.pc = "copy" \/ r.copy = [d \in Directions |-> "idle"]
    /\ r.pc \notin {"copy", "over"} => r.calls = 0 /\ r.done = FALSE
    /\ r.pc = "over" => /\ r.calls = 1 \/ r.unreported
                        /\ r.open = {} /\ r.tracked = FALSE
    /\ r.pc = "copy" =>
          /\ r.done <=> Either(r)
          /\ r.calls = IF (IF r.kind = "tcp" THEN Both(r) ELSE Either(r)) THEN 1 ELSE 0
          /\ Both(r) => r.open = {} /\ r.tracked = FALSE

Inv == conn \in [Conns -> Conn] /\ \A c \in Conns : Fine(conn[c])

\* A step that changes one connection to a fine one keeps the invariant.
LEMMA SetKeeps ==
  ASSUME Inv, NEW c \in Conns, NEW r \in Conn, Fine(r), Set(c, r)
  PROVE  Inv'
  BY DEF Inv, Set

\* What the calls do to a connection.
LEMMA ShutSets ==
  ASSUME NEW r \in Conn
  PROVE  /\ Shut(r) \in Conn /\ Shut(r).open = {} /\ Shut(r).tracked = FALSE
         /\ Shut(r).pc = r.pc /\ Shut(r).copy = r.copy /\ Shut(r).done = r.done
         /\ Shut(r).calls = r.calls /\ Shut(r).kind = r.kind /\ Shut(r).unreported = r.unreported
  BY ZenonT(30) DEF Shut, Conn

LEMMA OnCloseSets ==
  ASSUME NEW r \in Conn, r.calls = 0
  PROVE  /\ OnClose(r) \in Conn /\ OnClose(r).calls = 1
         /\ OnClose(r).open = r.open /\ OnClose(r).tracked = r.tracked
         /\ OnClose(r).pc = r.pc /\ OnClose(r).copy = r.copy /\ OnClose(r).done = r.done
         /\ OnClose(r).kind = r.kind /\ OnClose(r).unreported = r.unreported
<1>1. OnClose(r) = [r EXCEPT !.calls = 1]
  BY DEF OnClose, Conn
<1> QED
  BY Zenon, <1>1 DEF Conn

\* A connection that ends before its copies, told or unreported, is fine.
LEMMA OverIsFine ==
  ASSUME NEW r \in Conn, r.pc \notin {"copy", "over"}, Fine(r)
  PROVE  LET e == [r EXCEPT !.pc = "over"]
             u == [r EXCEPT !.pc = "over", !.unreported = TRUE]
             k == [r EXCEPT !.pc = "over", !.done = TRUE]
         IN /\ OnClose(Shut(e)) \in Conn /\ Fine(OnClose(Shut(e)))
            /\ Shut(u) \in Conn /\ Fine(Shut(u))
            /\ Shut(OnClose(k)) \in Conn /\ Fine(Shut(OnClose(k)))
<1> DEFINE e == [r EXCEPT !.pc = "over"]
           u == [r EXCEPT !.pc = "over", !.unreported = TRUE]
           k == [r EXCEPT !.pc = "over", !.done = TRUE]
<1>1. r.calls = 0 /\ r.copy = [d \in Directions |-> "idle"]
  BY DEF Fine
<1>2. /\ e \in Conn /\ e.calls = 0 /\ e.pc = "over" /\ e.copy = r.copy
      /\ u \in Conn /\ u.calls = 0 /\ u.pc = "over" /\ u.copy = r.copy /\ u.unreported
      /\ k \in Conn /\ k.calls = 0 /\ k.pc = "over" /\ k.copy = r.copy
  BY ZenonT(30), <1>1 DEF Conn
<1> HIDE DEF e, u, k
<1>3. OnClose(Shut(e)) \in Conn /\ Fine(OnClose(Shut(e)))
  <2>1. /\ Shut(e) \in Conn /\ Shut(e).calls = 0 /\ Shut(e).pc = "over"
        /\ Shut(e).copy = r.copy /\ Shut(e).open = {} /\ Shut(e).tracked = FALSE
    BY ZenonT(30), <1>2, ShutSets
  <2> DEFINE f == Shut(e)
  <2> HIDE DEF f
  <2>2. /\ OnClose(f) \in Conn /\ OnClose(f).calls = 1 /\ OnClose(f).pc = "over"
        /\ OnClose(f).copy = r.copy /\ OnClose(f).open = {} /\ OnClose(f).tracked = FALSE
    BY <2>1, OnCloseSets DEF f
  <2> QED
    BY Zenon, <1>1, <2>2 DEF Fine, f
<1>4. Shut(u) \in Conn /\ Fine(Shut(u))
  BY ZenonT(30), <1>1, <1>2, ShutSets DEF Fine
<1>5. Shut(OnClose(k)) \in Conn /\ Fine(Shut(OnClose(k)))
  <2> DEFINE f == OnClose(k)
  <2>1. f \in Conn /\ f.calls = 1 /\ f.pc = "over" /\ f.copy = r.copy
    BY <1>2, OnCloseSets
  <2> HIDE DEF f
  <2>2. /\ Shut(f) \in Conn /\ Shut(f).calls = 1 /\ Shut(f).pc = "over"
        /\ Shut(f).copy = r.copy /\ Shut(f).open = {} /\ Shut(f).tracked = FALSE
    BY ZenonT(30), <2>1, ShutSets
  <2> QED
    BY Zenon, <1>1, <2>2 DEF Fine, f
<1> QED
  BY Zenon, <1>3, <1>4, <1>5 DEF e, u, k

\* So is one that moves on towards its copies, or into them.
LEMMA MovesOn ==
  ASSUME NEW r \in Conn, r.pc \notin {"copy", "over"}, Fine(r)
  PROVE  /\ LET m == [r EXCEPT !.pc = "report", !.open = Ends, !.tracked = TRUE]
            IN m \in Conn /\ Fine(m)
         /\ LET m == [r EXCEPT !.pc = "up"] IN m \in Conn /\ Fine(m)
         /\ LET m == [r EXCEPT !.pc = "down"] IN m \in Conn /\ Fine(m)
         /\ Copying(r) \in Conn /\ Fine(Copying(r))
<1>1. LET m == [r EXCEPT !.pc = "report", !.open = Ends, !.tracked = TRUE]
      IN m \in Conn /\ Fine(m)
  BY ZenonT(30) DEF Conn, Fine
<1>2. LET m == [r EXCEPT !.pc = "up"] IN m \in Conn /\ Fine(m)
  BY DEF Conn, Fine
<1>3. LET m == [r EXCEPT !.pc = "down"] IN m \in Conn /\ Fine(m)
  BY DEF Conn, Fine
<1>4. Copying(r) \in Conn
  BY ZenonT(30) DEF Conn, Copying
<1>5. Fine(Copying(r))
  BY DEF Conn, Copying, Fine, Either, Both, Ended, Directions
<1> QED
  BY Zenon, <1>1, <1>2, <1>3, <1>4, <1>5

LEMMA Initial == Init => Inv
<1> SUFFICES ASSUME Init PROVE Inv
  OBVIOUS
<1>1. \A k \in {"tcp", "udp"}, b \in BOOLEAN, p \in BOOLEAN : NewConn(k, b, p) \in Conn
  BY DEF NewConn, Conn, Ends, Directions
<1>2. \A k \in {"tcp", "udp"}, b \in BOOLEAN, p \in BOOLEAN : Fine(NewConn(k, b, p))
  BY DEF NewConn, Fine
<1>3. \A r \in Arrivals : r \in Conn /\ Fine(r)
  BY Zenon, <1>1, <1>2 DEF Arrivals
<1>4. conn \in [Conns -> Arrivals]
  BY DEF Init
<1> QED
  BY <1>3, <1>4 DEF Inv

LEMMA DialKeeps == ASSUME Inv, NEW c \in Conns, Dial(c) PROVE Inv'
<1>1. conn[c] \in Conn /\ Fine(conn[c]) /\ conn[c].pc = "dial"
  BY SMTT(30) DEF Inv, Dial
<1> QED
  BY ZenonT(30), <1>1, MovesOn, OverIsFine, SetKeeps DEF Dial

LEMMA ReportConnKeeps == ASSUME Inv, NEW c \in Conns, ReportConn(c) PROVE Inv'
<1>1. conn[c] \in Conn /\ Fine(conn[c]) /\ conn[c].pc = "report"
  BY SMTT(30) DEF Inv, ReportConn
<1> QED
  BY ZenonT(30), <1>1, MovesOn, OverIsFine, SetKeeps DEF ReportConn

LEMMA ReportPacketConnKeeps == ASSUME Inv, NEW c \in Conns, ReportPacketConn(c) PROVE Inv'
<1>1. conn[c] \in Conn /\ Fine(conn[c]) /\ conn[c].pc = "report"
  BY SMTT(30) DEF Inv, ReportPacketConn
<1> QED
  BY ZenonT(30), <1>1, MovesOn, OverIsFine, SetKeeps DEF ReportPacketConn

LEMMA KickKeeps == ASSUME Inv, NEW c \in Conns, KickWriteHandshake(c) PROVE Inv'
<1>1. /\ conn[c] \in Conn /\ Fine(conn[c]) /\ conn[c].pc \in {"up", "down"}
      /\ conn[c].done = FALSE
  BY DEF Inv, KickWriteHandshake, Directions, Fine
<1> QED
  BY ZenonT(30), <1>1, MovesOn, OverIsFine, SetKeeps DEF KickWriteHandshake

\* A copy that reads or writes is at work before and after.
LEMMA CopyMovesKeeps ==
  ASSUME Inv, NEW c \in Conns, NEW d \in Directions, CopyMoves(c, d)
  PROVE  Inv'
<1> DEFINE v == IF conn[c].copy[d] = "read" THEN "write" ELSE "read"
           r == [conn[c] EXCEPT !.copy = [@ EXCEPT ![d] = v]]
<1>1. conn[c] \in Conn /\ Fine(conn[c]) /\ conn[c].copy[d] \in {"read", "write"}
  BY DEF Inv, CopyMoves, AtWork
<1>2. conn[c].pc = "copy" /\ conn[c].copy \in [Directions -> {"idle", "read", "write", "ending", "over"}]
  BY <1>1 DEF Fine, Conn
<1>3. Set(c, r)
  BY <1>2 DEF CopyMoves
<1>4. v \in {"read", "write"}
  OBVIOUS
<1> HIDE DEF v
<1>5. /\ r \in Conn /\ r.pc = "copy" /\ r.done = conn[c].done /\ r.calls = conn[c].calls
      /\ r.kind = conn[c].kind /\ r.copy[d] = v
      /\ \A e \in Directions \ {d} : r.copy[e] = conn[c].copy[e]
  BY <1>1, <1>2, <1>4 DEF Conn
<1>6. (Either(r) <=> Either(conn[c])) /\ ~Both(r) /\ ~Both(conn[c])
  BY <1>1, <1>4, <1>5 DEF Either, Both, Ended, Directions
<1> HIDE DEF r
<1>7. Fine(r)
  BY <1>1, <1>2, <1>5, <1>6 DEF Fine
<1> QED
  BY Zenon, <1>3, <1>5, <1>7, SetKeeps

\* The end of the data on one side: what it does to the ends does not matter
\* while a copy is still to come.
LEMMA CopyEndsKeeps ==
  ASSUME Inv, NEW c \in Conns, NEW d \in Directions, CopyEnds(c, d)
  PROVE  Inv'
<1> DEFINE r == [conn[c] EXCEPT !.copy = [@ EXCEPT ![d] = "ending"]]
<1>1. conn[c] \in Conn /\ Fine(conn[c]) /\ conn[c].copy[d] \in {"read", "write"}
  BY DEF Inv, CopyEnds, AtWork
<1>2. conn[c].pc = "copy" /\ conn[c].copy \in [Directions -> {"idle", "read", "write", "ending", "over"}]
  BY <1>1 DEF Fine, Conn
<1>3. /\ r \in Conn /\ r.pc = "copy" /\ r.done = conn[c].done /\ r.calls = conn[c].calls
      /\ r.kind = conn[c].kind /\ r.copy[d] = "ending"
      /\ \A e \in Directions \ {d} : r.copy[e] = conn[c].copy[e]
  BY <1>1, <1>2 DEF Conn
<1>4. (Either(r) <=> Either(conn[c])) /\ ~Both(r) /\ ~Both(conn[c])
  BY <1>1, <1>3 DEF Either, Both, Ended, Directions
<1> HIDE DEF r
<1>5. Fine(r)
  BY <1>1, <1>2, <1>3, <1>4 DEF Fine
<1>6. CASE Set(c, HalfClosed(r, d))
  <2>1. /\ HalfClosed(r, d) \in Conn /\ HalfClosed(r, d).pc = "copy"
        /\ HalfClosed(r, d).done = r.done /\ HalfClosed(r, d).calls = r.calls
        /\ HalfClosed(r, d).kind = r.kind /\ HalfClosed(r, d).copy = r.copy
    BY ZenonT(30), <1>3 DEF HalfClosed, Conn, Destination
  <2>2. Fine(HalfClosed(r, d))
    BY <1>3, <1>4, <1>5, <2>1 DEF Fine, Either, Both, Ended
  <2> QED
    BY Zenon, <1>6, <2>1, <2>2, SetKeeps
<1>7. CASE Set(c, Shut(r))
  <2>1. Shut(r) \in Conn /\ Fine(Shut(r))
    BY ZenonT(30), <1>3, <1>4, <1>5, ShutSets DEF Fine, Either, Both, Ended
  <2> QED
    BY Zenon, <1>7, <2>1, SetKeeps
<1>8. CASE Set(c, r)
  BY <1>3, <1>5, <1>8, SetKeeps
<1> QED
  BY Zenon, <1>6, <1>7, <1>8 DEF CopyEnds, r

\* The bookkeeping of a copy that is over, for both kinds.
LEMMA CopyOver ==
  ASSUME Inv, NEW c \in Conns, NEW d \in Directions, conn[c].copy[d] = "ending"
  PROVE  LET r == [conn[c] EXCEPT !.copy = [@ EXCEPT ![d] = "over"], !.done = TRUE]
         IN /\ r \in Conn /\ r.pc = "copy" /\ r.done = TRUE /\ Either(r)
            /\ r.kind = conn[c].kind /\ r.calls = conn[c].calls
            /\ Both(r) <=> conn[c].done
            /\ r.kind = "tcp" => r.calls = 0
            /\ r.kind = "udp" => r.calls = IF conn[c].done THEN 1 ELSE 0
<1> DEFINE r == [conn[c] EXCEPT !.copy = [@ EXCEPT ![d] = "over"], !.done = TRUE]
<1>1. conn[c] \in Conn /\ Fine(conn[c])
  BY DEF Inv
<1>2. conn[c].pc = "copy" /\ conn[c].copy \in [Directions -> {"idle", "read", "write", "ending", "over"}]
  BY <1>1 DEF Fine, Conn
<1>3. /\ r \in Conn /\ r.pc = "copy" /\ r.done = TRUE /\ r.calls = conn[c].calls
      /\ r.kind = conn[c].kind /\ r.copy[d] = "over"
      /\ \A e \in Directions \ {d} : r.copy[e] = conn[c].copy[e]
  BY ZenonT(30), <1>1, <1>2 DEF Conn
<1> HIDE DEF r
<1>4. Either(r) /\ ~Both(conn[c]) /\ (Both(r) <=> Either(conn[c]))
  BY <1>2, <1>3 DEF Either, Both, Ended, Directions
<1>5. conn[c].done <=> Either(conn[c])
  BY <1>1, <1>2 DEF Fine
<1>6. conn[c].kind = "tcp" => conn[c].calls = 0
  BY <1>1, <1>2, <1>4 DEF Fine
<1>7. conn[c].kind = "udp" => conn[c].calls = IF conn[c].done THEN 1 ELSE 0
  BY <1>1, <1>2, <1>5 DEF Fine
<1> QED
  BY Zenon, <1>3, <1>4, <1>5, <1>6, <1>7 DEF r

\* A connection that was told of its end and closed is fine.
LEMMA ToldIsFine ==
  ASSUME NEW f \in Conn, f.pc = "copy", f.done = TRUE, f.calls = 1, Either(f),
         f.kind = "tcp" => Both(f)
  PROVE  Shut(f) \in Conn /\ Fine(Shut(f))
<1> DEFINE g == Shut(f)
<1>1. /\ g \in Conn /\ g.pc = "copy" /\ g.done = TRUE /\ g.calls = 1 /\ g.kind = f.kind
      /\ g.copy = f.copy /\ g.open = {} /\ g.tracked = FALSE
  BY ZenonT(30), ShutSets
<1> HIDE DEF g
<1>2. Either(g) /\ (Both(g) <=> Both(f))
  BY <1>1 DEF Either, Both, Ended
<1>3. Fine(g)
  BY <1>1, <1>2 DEF Fine
<1> QED
  BY Zenon, <1>1, <1>3 DEF g

LEMMA ConnectionCopyKeeps ==
  ASSUME Inv, NEW c \in Conns, NEW d \in Directions, ConnectionCopy(c, d)
  PROVE  Inv'
<1> DEFINE r == [conn[c] EXCEPT !.copy = [@ EXCEPT ![d] = "over"], !.done = TRUE]
<1>1. /\ r \in Conn /\ r.pc = "copy" /\ r.done = TRUE /\ Either(r) /\ r.kind = "tcp"
      /\ r.calls = 0 /\ (Both(r) <=> conn[c].done)
      /\ Set(c, IF conn[c].done THEN Shut(OnClose(r)) ELSE r)
  BY ZenonT(30), CopyOver DEF ConnectionCopy, Tells
<1> HIDE DEF r
<1>2. CASE conn[c].done
  <2> DEFINE f == OnClose(r)
  <2>1. /\ f \in Conn /\ f.calls = 1 /\ f.pc = "copy" /\ f.copy = r.copy /\ f.done = TRUE
        /\ f.kind = "tcp"
    BY <1>1, OnCloseSets
  <2> HIDE DEF f
  <2>2. Shut(f) \in Conn /\ Fine(Shut(f))
    BY ZenonT(30), <1>1, <1>2, <2>1, ToldIsFine DEF Either, Both, Ended
  <2> QED
    BY Zenon, <1>1, <1>2, <2>2, SetKeeps DEF f
<1>3. CASE ~conn[c].done
  <2>1. Fine(r)
    BY <1>1, <1>3 DEF Fine
  <2> QED
    BY Zenon, <1>1, <1>3, <2>1, SetKeeps
<1> QED
  BY Zenon, <1>2, <1>3

LEMMA PacketConnectionCopyKeeps ==
  ASSUME Inv, NEW c \in Conns, NEW d \in Directions, PacketConnectionCopy(c, d)
  PROVE  Inv'
<1> DEFINE r == [conn[c] EXCEPT !.copy = [@ EXCEPT ![d] = "over"], !.done = TRUE]
<1>1. /\ r \in Conn /\ r.pc = "copy" /\ r.done = TRUE /\ Either(r) /\ r.kind = "udp"
      /\ r.calls = (IF conn[c].done THEN 1 ELSE 0)
      /\ Set(c, Shut(IF conn[c].done THEN r ELSE OnClose(r)))
  BY ZenonT(30), CopyOver DEF PacketConnectionCopy, Tells
<1> HIDE DEF r
<1> DEFINE f == IF conn[c].done THEN r ELSE OnClose(r)
<1>2. /\ f \in Conn /\ f.calls = 1 /\ f.pc = "copy" /\ f.copy = r.copy /\ f.done = TRUE
      /\ f.kind = "udp"
  BY <1>1, OnCloseSets
<1>3. Set(c, Shut(f))
  BY <1>1
<1> HIDE DEF f
<1>4. Shut(f) \in Conn /\ Fine(Shut(f))
  BY ZenonT(30), <1>1, <1>2, ToldIsFine DEF Either, Ended
<1> QED
  BY Zenon, <1>3, <1>4, SetKeeps

\* CloseAll only takes connections off the list and closes their outer ends.
LEMMA CloseAllKeeps == ASSUME Inv, CloseAll PROVE Inv'
<1>1. ASSUME NEW c \in Conns
      PROVE  LET r == [conn[c] EXCEPT !.tracked = FALSE, !.told = TRUE] IN r \in Conn /\ Fine(r)
  <2> DEFINE r == [conn[c] EXCEPT !.tracked = FALSE, !.told = TRUE]
  <2>1. conn[c] \in Conn /\ Fine(conn[c])
    BY DEF Inv
  <2>2. /\ r \in Conn /\ r.pc = conn[c].pc /\ r.done = conn[c].done /\ r.calls = conn[c].calls
        /\ r.kind = conn[c].kind /\ r.copy = conn[c].copy /\ r.open = conn[c].open
        /\ r.tracked = FALSE /\ r.unreported = conn[c].unreported
    BY ZenonT(30), <2>1 DEF Conn
  <2> HIDE DEF r
  <2>3. Fine(r)
    BY <2>1, <2>2 DEF Fine, Either, Both, Ended
  <2> QED
    BY Zenon, <2>2, <2>3 DEF r
<1> QED
  BY ZenonT(30), <1>1 DEF CloseAll, Inv

LEMMA CloseOneKeeps == ASSUME Inv, NEW c \in Conns, CloseOne(c) PROVE Inv'
<1>1. LET r == [conn[c] EXCEPT !.open = @ \ {"out"}] IN r \in Conn /\ Fine(r)
  BY DEF Inv, Conn, Fine, Either, Both, Ended
<1> QED
  BY Zenon, <1>1, SetKeeps DEF CloseOne

-----------------------------------------------------------------------------
\* Every connection is reported once, and when it is over nothing of it is left
\* open or listed, for any number of connections and whatever CloseAll meets
\* (connectionCopy and packetConnectionCopy).
THEOREM OnCloseOnceHolds == Spec => []OnCloseOnce
<1>1. Init => Inv
  BY Initial
<1>2. Inv /\ [Next]_vars => Inv'
  <2> SUFFICES ASSUME Inv, [Next]_vars PROVE Inv'
    OBVIOUS
  <2>1. CASE UNCHANGED vars
    BY <2>1 DEF Inv, vars
  <2> QED
    BY SMTT(30), <2>1, DialKeeps, ReportConnKeeps, ReportPacketConnKeeps, KickKeeps, CopyMovesKeeps,
       CopyEndsKeeps, ConnectionCopyKeeps, PacketConnectionCopyKeeps, CloseAllKeeps, CloseOneKeeps DEF Next
<1>3. Inv => OnCloseOnce
  <2> SUFFICES ASSUME Inv, NEW c \in Conns
               PROVE  /\ conn[c].calls <= 1
                      /\ Over(conn[c]) => /\ conn[c].calls = 1 \/ conn[c].unreported
                                          /\ conn[c].open = {} /\ ~conn[c].tracked
    BY ZenonT(30) DEF OnCloseOnce
  <2>1. conn[c] \in Conn /\ Fine(conn[c])
    BY DEF Inv
  <2>2. conn[c].calls \in {0, 1}
    BY <2>1 DEF Conn
  <2>3. Over(conn[c]) => conn[c].pc = "over" \/ (conn[c].pc = "copy" /\ Both(conn[c]))
    BY <2>1 DEF Over, Fine, Both, Ended, Directions
  <2>4. Both(conn[c]) => Either(conn[c])
    BY DEF Both, Either
  <2> QED
    BY <2>1, <2>2, <2>3, <2>4 DEF Fine
<1> QED
  BY <1>1, <1>2, <1>3, PTL DEF Spec

-----------------------------------------------------------------------------
(* The race of dials.                                                      *)

Networks == Interfaces \cup {"v4", "v6"}
AllRacers == {"primary", "fallback"} \X Networks

\* There are finitely many interfaces and addresses, and None is no racer.
Finite == IsFiniteSet(Interfaces) /\ MaxAddress \in Nat /\ None \notin AllRacers

Failures == {r \in DOMAIN racer : racer[r] = "over"}

DialTyped ==
    /\ DOMAIN racer \subseteq AllRacers /\ IsFiniteSet(DOMAIN racer)
    /\ racer \in [DOMAIN racer -> {"idle", "dialing", "connected", "failed", "returned", "over"}]
    /\ left \in [DOMAIN racer -> Nat]
    /\ returned \in BOOLEAN /\ errors \in Nat

\* A racer has addresses left until it has failed, the fallback racers rest
\* while the timer is armed, and as long as nothing is returned the errors count
\* the racers that are over, each with all its addresses tried.
Counted ==
    /\ \A r \in DOMAIN racer :
         /\ racer[r] \in {"idle", "dialing"} => left[r] > 0
         /\ racer[r] = "failed" => left[r] = 0
         /\ timer = "armed" /\ PD!Role(r) = "fallback" => racer[r] = "idle"
    /\ ~returned =>
         /\ errors = Cardinality(Failures)
         /\ \A r \in Failures : left[r] = 0

DialInv == DialTyped /\ Counted /\ PD!FailsOnlyWhenAllFailed

LEMMA DialBegin ==
    ASSUME Finite, NEW m \in {"interface", "fast", "network"},
           NEW P \in SUBSET Networks, NEW F \in SUBSET Networks, IsFiniteSet(P), IsFiniteSet(F),
           NEW n \in Nat \ {0}, PD!Begin(m, P, F, n)
    PROVE  DialInv
<1> DEFINE D == ({"primary"} \X P) \cup ({"fallback"} \X F)
<1>1. IsFiniteSet({"primary"} \X P) /\ IsFiniteSet({"fallback"} \X F)
  BY ZenonT(30), FS_Product, FS_Singleton
<1>2. IsFiniteSet(D)
  BY ZenonT(30), <1>1, FS_Union
<1>3. D \subseteq AllRacers
  BY DEF AllRacers
<1>4. /\ racer = [r \in D |-> IF PD!Role(r) = "primary" \/ m = "fast" THEN "dialing" ELSE "idle"]
      /\ left = [r \in DOMAIN racer |-> n] /\ errors = 0 /\ result = None
      /\ timer = IF m = "fast" \/ F = {} THEN "none" ELSE "armed"
      /\ returned = (P \cup F = {})
  BY DEF PD!Begin
<1>5. P \cup F = {} => D = {}
  OBVIOUS
<1> HIDE DEF D
<1>6. DOMAIN racer = D /\ \A r \in D : racer[r] \in {"idle", "dialing"} /\ left[r] = n
  BY <1>4
<1>7. Failures = {}
  BY <1>6 DEF Failures
<1>8. DialTyped
  BY SMTT(30), <1>2, <1>3, <1>4, <1>6 DEF DialTyped
<1>9. Counted
  <2>1. \A r \in D : timer = "armed" /\ PD!Role(r) = "fallback" => racer[r] = "idle"
    BY <1>4
  <2>2. errors = Cardinality(Failures)
    BY SMTT(30), <1>4, <1>7, FS_EmptySet
  <2> QED
    BY SMTT(30), <1>6, <1>7, <2>1, <2>2 DEF Counted
<1>10. PD!FailsOnlyWhenAllFailed
  BY ZenonT(30), <1>4, <1>5, <1>6 DEF PD!FailsOnlyWhenAllFailed, PD!Racers
<1> QED
  BY SMTT(30), <1>8, <1>9, <1>10 DEF DialInv

LEMMA DialInit == ASSUME Finite, PD!Init PROVE DialInv
<1>1. CASE recent = FALSE /\ \E n \in 1 .. MaxAddress : PD!Begin("network", {"v4"}, {"v6"}, n)
  <2>1. PICK n \in 1 .. MaxAddress : PD!Begin("network", {"v4"}, {"v6"}, n)
    BY <1>1
  <2>2. n \in Nat \ {0}
    BY DEF Finite
  <2>3. IsFiniteSet({"v4"}) /\ IsFiniteSet({"v6"}) /\ {"v4"} \in SUBSET Networks /\ {"v6"} \in SUBSET Networks
    BY ZenonT(30), FS_Singleton DEF Networks
  <2> QED
    BY Zenon, <2>1, <2>2, <2>3, DialBegin
<1>2. CASE \E P, F \in SUBSET Interfaces, m \in {"fast", "interface"} : PD!Begin(m, P, F, 1)
  <2>1. PICK P \in SUBSET Interfaces, F \in SUBSET Interfaces, m \in {"fast", "interface"} :
          PD!Begin(m, P, F, 1)
    BY <1>2
  <2>2. IsFiniteSet(P) /\ IsFiniteSet(F)
    BY FS_Subset DEF Finite
  <2>3. P \in SUBSET Networks /\ F \in SUBSET Networks /\ 1 \in Nat \ {0}
    BY DEF Networks
  <2> QED
    BY Zenon, <2>1, <2>2, <2>3, DialBegin
<1>3. \/ recent = FALSE /\ \E n \in 1 .. MaxAddress : PD!Begin("network", {"v4"}, {"v6"}, n)
      \/ \E P, F \in SUBSET Interfaces, m \in {"fast", "interface"} : PD!Begin(m, P, F, 1)
  <2>1. ASSUME NEW strategy, NEW types, NEW fallbackTypes, NEW default
        PROVE  /\ PD!PrimaryInterfaces(strategy, types, default) \in SUBSET Interfaces
               /\ PD!FallbackInterfaces(strategy, types, fallbackTypes, default) \in SUBSET Interfaces
    BY DEF PD!PrimaryInterfaces, PD!FallbackInterfaces
  <2> QED
    BY SMTT(30), <2>1 DEF PD!Init
<1> QED
  BY ZenonT(30), <1>1, <1>2, <1>3


\* A racer that moves without anything being returned or counted.
LEMMA DialRuns == ASSUME DialInv, NEW r \in DOMAIN racer, PD!DialSerialNetwork(r) PROVE DialInv'
<1> USE DEF DialInv
<1>1. /\ racer[r] = "dialing" /\ left[r] > 0 /\ left[r] \in Nat
      /\ UNCHANGED <<timer, errors, result, returned>>
  BY DEF PD!DialSerialNetwork, Counted, DialTyped
<1>2. /\ racer' \in [DOMAIN racer -> {"idle", "dialing", "connected", "failed", "returned", "over"}]
      /\ left' \in [DOMAIN racer -> Nat]
      /\ \A s \in DOMAIN racer : s # r => racer'[s] = racer[s] /\ left'[s] = left[s]
      /\ \/ racer'[r] = "connected"
         \/ racer'[r] = "failed" /\ left'[r] = 0
         \/ racer'[r] = "dialing" /\ left'[r] > 0
  BY <1>1 DEF PD!DialSerialNetwork, DialTyped
<1>3. DOMAIN racer' = DOMAIN racer
  BY <1>2
<1>4. Failures' = Failures
  BY <1>1, <1>2, <1>3 DEF Failures
<1>5. DialTyped'
  BY SMTT(30), <1>1, <1>2, <1>3 DEF DialTyped
<1>6. Counted'
  <2>1. ASSUME NEW s \in DOMAIN racer
        PROVE  /\ racer'[s] \in {"idle", "dialing"} => left'[s] > 0
               /\ racer'[s] = "failed" => left'[s] = 0
               /\ timer' = "armed" /\ PD!Role(s) = "fallback" => racer'[s] = "idle"
    BY SMTT(30), <1>1, <1>2 DEF Counted
  <2>2. ~returned' => errors' = Cardinality(Failures')
    BY SMTT(30), <1>1, <1>4 DEF Counted
  <2>3. ~returned' => \A s \in Failures : left'[s] = 0
    BY <1>1, <1>2 DEF Counted, Failures
  <2> QED
    BY SMTT(30), <1>3, <1>4, <2>1, <2>2, <2>3 DEF Counted, PD!Role
<1>7. PD!FailsOnlyWhenAllFailed'
  BY <1>1 DEF PD!FailsOnlyWhenAllFailed, PD!Racers
<1> QED
  BY SMTT(30), <1>5, <1>6, <1>7

LEMMA DialFallback == ASSUME DialInv, PD!StartFallback PROVE DialInv'
<1> USE DEF DialInv
<1>1. /\ timer = "armed" /\ timer' = "fired" /\ UNCHANGED <<left, errors, result, returned>> /\ ~returned
      /\ racer' = [r \in DOMAIN racer |-> IF PD!Role(r) = "fallback" THEN "dialing" ELSE racer[r]]
  BY DEF PD!StartFallback, PD!Racers
<1>2. /\ DOMAIN racer' = DOMAIN racer
      /\ \A r \in DOMAIN racer : racer'[r] = racer[r] \/ (racer[r] = "idle" /\ racer'[r] = "dialing")
  BY <1>1 DEF Counted
<1>3. DialTyped'
  BY <1>1, <1>2 DEF DialTyped
<1>4. Failures' = Failures
  BY SMTT(30), <1>2 DEF Failures
<1>5. Counted'
  BY <1>1, <1>2, <1>4 DEF Counted
<1>6. PD!FailsOnlyWhenAllFailed'
  BY <1>1 DEF PD!FailsOnlyWhenAllFailed
<1> QED
  BY Zenon, <1>3, <1>5, <1>6

LEMMA SameCount == PD!Cardinality(DOMAIN racer) = Cardinality(DOMAIN racer)
  BY Zenon DEF PD!Cardinality, Cardinality

\* The racers that are over are all of them when there are as many.
LEMMA DialTaken == ASSUME Finite, DialInv, NEW r \in DOMAIN racer, PD!TakeResult(r) PROVE DialInv'
<1> USE DEF DialInv
<1>1. /\ ~returned /\ UNCHANGED <<left, timer>> /\ racer[r] \in {"connected", "failed"}
      /\ timer = "armed" => PD!Role(r) # "fallback"
  BY DEF PD!TakeResult, Counted
<1>2. CASE /\ racer' = [racer EXCEPT ![r] = "returned"]
           /\ result' = r /\ returned' = TRUE /\ errors' = errors
  <2>1. DialTyped'
    BY <1>1, <1>2 DEF DialTyped
  <2>2. Counted'
    BY <1>1, <1>2 DEF Counted, PD!Role, DialTyped
  <2>3. r # None
    BY DEF Finite, DialTyped
  <2> QED
    BY Zenon, <1>2, <2>1, <2>2, <2>3 DEF PD!FailsOnlyWhenAllFailed
<1>3. CASE /\ racer[r] = "failed" /\ racer' = [racer EXCEPT ![r] = "over"]
           /\ errors' = errors + 1 /\ returned' = PD!AllFailed(errors')
           /\ result' = result
  <2>1. /\ DOMAIN racer' = DOMAIN racer /\ racer'[r] = "over"
        /\ \A s \in DOMAIN racer : s # r => racer'[s] = racer[s]
    BY <1>3 DEF DialTyped
  <2>2. Failures' = Failures \cup {r} /\ r \notin Failures
    BY <1>3, <2>1 DEF Failures
  <2>3. IsFiniteSet(Failures) /\ IsFiniteSet(DOMAIN racer) /\ Failures' \subseteq DOMAIN racer
    BY SMTT(30), <2>2, FS_Subset DEF Failures, DialTyped
  <2>4. IsFiniteSet(Failures') /\ Cardinality(Failures') = Cardinality(Failures) + 1
    BY SMTT(30), <2>2, <2>3, FS_AddElement
  <2>5. errors' = Cardinality(Failures')
    BY SMTT(30), <1>1, <1>3, <2>4 DEF Counted
  <2>6. \A s \in Failures' : left'[s] = 0
    BY <1>1, <1>3, <2>2 DEF Counted
  <2>7. DialTyped'
    BY SMTT(30), <1>1, <1>3, <2>1 DEF DialTyped, PD!AllFailed
  <2>8. Counted'
    BY SMTT(30), <1>1, <2>1, <2>5, <2>6 DEF Counted, PD!Role
  <2>9. ASSUME returned' PROVE Failures' = DOMAIN racer
    <3>1. PD!AllFailed(errors')
      BY ONLY <1>3, <2>9, Zenon
    <3>2. Cardinality(Failures') = Cardinality(DOMAIN racer)
      BY SMTT(30), <2>5, <3>1, SameCount DEF PD!AllFailed, PD!Racers
    <3> QED
      BY Zenon, <2>3, <3>2, FS_Subset
  <2>10. PD!FailsOnlyWhenAllFailed'
    BY SMTT(30), <2>1, <2>6, <2>9 DEF PD!FailsOnlyWhenAllFailed, Failures, PD!Racers
  <2> QED
    BY Zenon, <2>7, <2>8, <2>10
<1> QED
  BY ZenonT(30), <1>1, <1>2, <1>3 DEF PD!TakeResult

LEMMA DialLate == ASSUME DialInv, NEW r \in DOMAIN racer, PD!TooLate(r) PROVE DialInv'
<1> USE DEF DialInv
<1>1. /\ returned /\ UNCHANGED <<left, timer, errors, result, returned>>
      /\ racer[r] \in {"connected", "failed"} /\ racer' = [racer EXCEPT ![r] = "over"]
  BY ZenonT(30) DEF PD!TooLate, PD!CloseLate
<1>2. DialTyped'
  BY <1>1 DEF DialTyped
<1>3. Counted'
  BY <1>1 DEF Counted, DialTyped, PD!Role
<1>4. PD!FailsOnlyWhenAllFailed'
  BY <1>1 DEF PD!FailsOnlyWhenAllFailed, PD!Racers
<1> QED
  BY Zenon, <1>2, <1>3, <1>4

LEMMA DialInductive == ASSUME Finite, DialInv, [PD!Next]_(PD!vars) PROVE DialInv'
<1>1. CASE UNCHANGED PD!vars
  BY <1>1 DEF PD!vars, DialInv, DialTyped, Counted, Failures, PD!FailsOnlyWhenAllFailed, PD!Racers
<1> QED
  BY Zenon, <1>1, DialRuns, DialFallback, DialTaken, DialLate DEF PD!Next, PD!Racers

\* A dial over several interfaces, or over the addresses of two families,
\* fails only when every one of them was tried and failed, the fallback ones
\* included: the count of the errors that ends DialParallelInterface is the
\* count of the racers that are over, whatever the order of the results.
THEOREM FailsOnlyWhenAllFailedHolds ==
  ASSUME Finite PROVE PD!Spec => []FailsOnlyWhenAllFailed
<1>1. PD!Init => DialInv
  BY DialInit
<1>2. DialInv /\ [PD!Next]_(PD!vars) => DialInv'
  BY DialInductive
<1>3. DialInv => FailsOnlyWhenAllFailed
  BY DEF DialInv, FailsOnlyWhenAllFailed
<1> QED
  BY <1>1, <1>2, <1>3, PTL DEF PD!Spec

-----------------------------------------------------------------------------
(* The walk over the DNS rules.                                            *)

Query == [caller : {"exchange", "lookup"}, address : BOOLEAN,
          phase : {"walk", "exchange", "evaluate", "done"}, index : Nat, options : SUBSET (Nat \ {0}),
          evaluated : Nat \cup {None}, via : Nat, check : BOOLEAN, failed : SUBSET Nat,
          result : {None, "answer", "cached", "error", "evaluated", "reject", "predefined"}]

\* None is none of the results.
ResultsNamed == None \notin {"answer", "cached", "error", "evaluated", "reject", "predefined"}

\* matchDNS stopped at the first rule it could after the index, or passed all.
StoppedFirst ==
    /\ query.via # 0 => /\ query.via \in DR!Indices /\ query.via > query.index
                        /\ DR!Stops(rules[query.via])
    /\ \A i \in DR!Indices :
         i > query.index /\ DR!Stops(rules[i]) => query.via # 0 /\ query.via <= i

\* In legacy mode the index is at the last rule that failed, and every rule
\* before it at which the walk stops has failed as well.
LegacyInv ==
    /\ query.index \in 0..Len(rules)
    /\ \A f \in query.failed : /\ f \in 1..query.index
                               /\ rules[f].limit /\ rules[f].action = "route"
    /\ query.phase # "evaluate"
    /\ query.index # 0 => query.index \in query.failed
    /\ \A i \in 1..query.index : DR!Stops(rules[i]) => i \in query.failed
    /\ query.phase # "walk" => StoppedFirst
    /\ query.phase = "exchange" =>
         /\ query.options \ {query.via} = DR!Collected(query.via)
         /\ query.via # 0 => rules[query.via].action = "route"
         /\ query.check <=> query.via # 0 /\ rules[query.via].limit
    /\ query.result = "answer" /\ query.check => query.via # 0 /\ rules[query.via].accepts
    /\ query.result # "evaluated"
    /\ query.phase # "done" => query.result = None

\* In the other mode no rule behind the index decides, the options collected are
\* those of the rules behind it, and no evaluate rule matched since the one
\* whose answer is kept.
ModernInv ==
    /\ query.index \in 0..Len(rules)
    /\ query.failed = {} /\ query.check = FALSE
    /\ \A k \in query.options \ {query.via} : k \in 1..query.index
    /\ \A k \in query.options \ {query.via} : rules[k].action = "options" /\ rules[k].matches
    /\ \A k \in 1..query.index :
         rules[k].action = "options" /\ rules[k].matches /\ rules[k].response = "no"
           => k \in query.options
    /\ \A i \in 1..query.index :
         rules[i].matches /\ rules[i].response = "no" => ~DR!Final(rules[i])
    /\ query.evaluated # None =>
         /\ query.evaluated \in 1..query.index
         /\ \A k \in (query.evaluated + 1)..query.index :
              rules[k].action = "evaluate" => ~rules[k].matches \/ rules[k].response # "no"
    /\ query.phase \in {"walk", "evaluate"} => query.via = 0
    /\ query.phase = "evaluate" => /\ query.index < Len(rules)
                                   /\ rules[query.index + 1].action = "evaluate"
    /\ query.phase \in {"exchange", "done"} =>
         \/ query.via = 0 /\ query.index = Len(rules)
         \/ /\ query.via = query.index + 1 /\ query.via \in DR!Indices
            /\ rules[query.via].matches /\ DR!Final(rules[query.via])
    /\ query.result = "evaluated" => query.phase = "done" /\ query.evaluated # None /\ query.via # 0
    /\ query.phase # "done" => query.result = None

RulesInv ==
    /\ rules \in Seq(DR!Rule) /\ DR!Built(rules) /\ query \in Query
    /\ IF DR!LegacyMode(rules) THEN LegacyInv ELSE ModernInv

LEMMA AskedFine == ASSUME ResultsNamed, rules \in Seq(DR!Rule), DR!Asked PROVE RulesInv
<1>1. PICK caller \in {"exchange", "lookup"}, address \in BOOLEAN : query = DR!Ask(caller, address)
  BY DEF DR!Asked
<1>2. query \in Query /\ query.index = 0 /\ query.failed = {} /\ query.options = {}
      /\ query.via = 0 /\ query.phase = "walk" /\ query.check = FALSE
      /\ query.evaluated = None /\ query.result = None
  BY <1>1 DEF DR!Ask, Query
<1>3. Len(rules) \in Nat
  OBVIOUS
<1>4. LegacyInv
  BY <1>2, <1>3 DEF LegacyInv, ResultsNamed
<1>5. ModernInv
  BY <1>2, <1>3 DEF ModernInv, ResultsNamed
<1> QED
  BY Zenon, <1>2, <1>4, <1>5 DEF RulesInv, DR!Asked


\* What the walk asks of a rule depends on who asks only.
LEMMA SameStops ==
  ASSUME query'.caller = query.caller, query'.address = query.address, NEW r
  PROVE  /\ DR!Looked(r)' <=> DR!Looked(r)
         /\ DR!Stops(r)' <=> DR!Stops(r)
         /\ DR!Final(r)' <=> DR!Final(r)
  BY DEF DR!Looked, DR!Stops, DR!Final, DR!Usable, DR!AllowFakeIP

\* A set of numbers has a least one: the numbers are well ordered, and a least
\* element is what that says without an operator as a parameter.
LEMMA LessThan == \E R : IsWellFoundedOn(R, Nat) /\ \A k, m \in Nat : <<k, m>> \in R <=> k < m
<1>1. \A k, m \in Nat : <<k, m>> \in OpToRel(<, Nat) <=> k < m
  BY DEF OpToRel
<1> WITNESS OpToRel(<, Nat)
<1> QED
  BY Zenon, <1>1, NatLessThanWellFounded

LEMMA LeastOf == ASSUME NEW S, S \subseteq Nat, S # {} PROVE \E m \in S : \A k \in S : m <= k
<1>1. PICK R : IsWellFoundedOn(R, Nat) /\ \A k, m \in Nat : <<k, m>> \in R <=> k < m
  BY LessThan
<1>2. IsWellFoundedOn(R, Nat)
  BY <1>1
<1>3. PICK m \in S : \A k \in S : ~ (<<k, m>> \in R)
  BY <1>2, WFMin, Zenon
<1>4. ASSUME NEW k \in S PROVE m <= k
  <2>1. ~ (<<k, m>> \in R)
    BY <1>3
  <2>2. k \in Nat /\ m \in Nat
    OBVIOUS
  <2>3. ~(k < m)
    BY <2>1, <2>2, <1>1, Zenon
  <2> QED
    BY <2>2, <2>3
<1> QED
  BY <1>4, Zenon

LEMMA StopIsFirst ==
  ASSUME rules \in Seq(DR!Rule)
  PROVE  LET i == DR!NextStop
         IN  /\ i # 0 => i \in DR!Indices /\ i > query.index /\ DR!Stops(rules[i])
             /\ \A j \in DR!Indices :
                   j > query.index /\ DR!Stops(rules[j]) => i # 0 /\ i <= j
<1> DEFINE stops == {i \in DR!Indices : i > query.index /\ DR!Stops(rules[i])}
<1>1. CASE stops = {}
  BY <1>1 DEF DR!NextStop
<1>2. CASE stops # {}
  <2>1. stops \subseteq Nat \ {0}
    BY DEF DR!Indices
  <2>2. \E i \in stops : \A j \in stops : i <= j
    <3> HIDE DEF stops
    <3> QED
      BY Zenon, <1>2, <2>1, LeastOf
  <2>3. DR!NextStop \in stops /\ \A j \in stops : DR!NextStop <= j
    BY <1>2, <2>2 DEF DR!NextStop
  <2> QED
    BY Zenon, <2>1, <2>3
<1> QED
  BY Zenon, <1>1, <1>2


\* A rule of the list, and what the two modes say of all of them.
LEMMA ListedRule ==
  ASSUME rules \in Seq(DR!Rule)
  PROVE  /\ Len(rules) \in Nat /\ DOMAIN rules = DR!Indices
         /\ \A i \in DR!Indices : rules[i] \in DR!Rule
  BY DEF DR!Indices

LEMMA LegacyRules ==
  ASSUME rules \in Seq(DR!Rule), DR!LegacyMode(rules)
  PROVE  \A i \in DR!Indices : /\ rules[i].response = "no"
                               /\ rules[i].action \in {"route", "options", "reject", "predefined"}
  BY ListedRule DEF DR!LegacyMode, DR!Disables, DR!Rule

LEMMA ModernRules ==
  ASSUME rules \in Seq(DR!Rule), DR!Built(rules), ~DR!LegacyMode(rules)
  PROVE  \A i \in DR!Indices : rules[i].limit = FALSE
  BY ListedRule DEF DR!Built, DR!ValidModern, DR!Rule

\* matchDNS goes to the first rule that stops it.
LEMMA MatchDNSKeeps == ASSUME ResultsNamed, RulesInv, DR!MatchDNS PROVE RulesInv'
<1> USE DEF RulesInv
<1>0. PICK i : i = DR!NextStop
  OBVIOUS
<1> DEFINE final == i # 0 /\ rules[i].action \in {"reject", "predefined"}
<1>1. /\ i # 0 => i \in DR!Indices /\ i > query.index /\ DR!Stops(rules[i])
      /\ \A j \in DR!Indices : j > query.index /\ DR!Stops(rules[j]) => i # 0 /\ i <= j
  BY <1>0, StopIsFirst
<1>2. i \in Nat
  BY <1>0, <1>1, ListedRule DEF DR!Indices, DR!NextStop
<1>3. query.phase = "walk" /\ DR!LegacyMode(rules) /\ rules' = rules
  BY DEF DR!MatchDNS
<1>4. /\ final => query' = [query EXCEPT !.phase = "done", !.via = i, !.result = rules[i].action]
      /\ ~final => query' = [query EXCEPT !.phase = "exchange", !.via = i,
                               !.options = DR!Collected(i) \cup (IF i = 0 THEN {} ELSE {i}),
                               !.check = i # 0 /\ rules[i].limit]
  BY <1>0 DEF DR!MatchDNS
<1>5. DR!Collected(i) \subseteq DR!Indices /\ i \notin DR!Collected(i)
  <2>1. DR!Collected(i) \subseteq DR!Indices
    BY DEF DR!Collected
  <2>2. i # 0 => rules[i].action # "options"
    BY <1>1 DEF DR!Stops
  <2>3. 0 \notin DR!Indices
    BY DEF DR!Indices
  <2> QED
    BY Zenon, <2>1, <2>2, <2>3 DEF DR!Collected
<1>6. /\ query' \in Query
      /\ query'.caller = query.caller /\ query'.address = query.address
      /\ query'.index = query.index /\ query'.failed = query.failed
      /\ query'.via = i /\ query'.phase \in {"exchange", "done"}
      /\ query'.result # "answer" /\ query'.result # "evaluated"
      /\ query'.phase = "done" \/ query'.result = None
      /\ query'.phase = "exchange" =>
           /\ query'.options = DR!Collected(i) \cup (IF i = 0 THEN {} ELSE {i})
           /\ query'.check = (i # 0 /\ rules[i].limit)
           /\ ~final
  <2>1. CASE final
    BY Zenon, <2>1, <1>2, <1>3, <1>4, <1>5 DEF Query, ResultsNamed, LegacyInv
  <2>2. CASE ~final
    <3>1. query.result = None
      BY <1>3 DEF LegacyInv
    <3>2. (i # 0 /\ rules[i].limit) \in BOOLEAN
      BY <1>1, ListedRule DEF DR!Rule
    <3>3. DR!Collected(i) \cup (IF i = 0 THEN {} ELSE {i}) \in SUBSET (Nat \ {0})
      BY <1>2, <1>5 DEF DR!Indices
    <3> QED
      BY Zenon, <2>2, <1>2, <1>3, <1>4, <3>1, <3>2, <3>3 DEF Query, ResultsNamed
  <2> QED
    BY Zenon, <2>1, <2>2
<1>7. \A r : DR!Looked(r)' <=> DR!Looked(r)
  BY <1>6, SameStops
<1>8. \A r : DR!Stops(r)' <=> DR!Stops(r)
  BY <1>6, SameStops
<1>9. StoppedFirst'
  BY <1>1, <1>3, <1>6, <1>8 DEF StoppedFirst, DR!Indices
<1>10. query'.phase = "exchange" => query'.options \ {i} = DR!Collected(i)'
  <2>1. DR!Collected(i)' = DR!Collected(i)
    BY <1>3, <1>6, <1>7 DEF DR!Collected, DR!Indices
  <2>2. 0 \notin DR!Collected(i)
    BY <1>5 DEF DR!Indices
  <2> QED
    BY Zenon, <2>1, <2>2, <1>5, <1>6
<1>11. i # 0 /\ ~final => rules[i].action = "route"
  BY <1>1, <1>3, LegacyRules DEF DR!Stops
<1>12. LegacyInv'
  BY Zenon, <1>3, <1>6, <1>8, <1>9, <1>10, <1>11 DEF LegacyInv
<1> QED
  BY Zenon, <1>3, <1>6, <1>12


\* The answer is the query's, or the walk goes on from the rule it was asked by.
LEMMA LegacyAnswerKeeps ==
  ASSUME ResultsNamed, RulesInv, NEW reply \in DR!Replies, DR!LegacyAnswer(reply)
  PROVE  RulesInv'
<1> USE DEF RulesInv
<1>1. query.phase = "exchange" /\ DR!LegacyMode(rules) /\ rules' = rules
  BY DEF DR!LegacyAnswer
<1>2. LegacyInv /\ StoppedFirst
  BY <1>1 DEF LegacyInv
<1>3. CASE DR!GoesOn(reply)
  <2>1. query' = [query EXCEPT !.phase = "walk", !.index = query.via,
                               !.failed = @ \cup {query.via}]
    BY <1>3 DEF DR!LegacyAnswer
  <2>2. query.via # 0 /\ rules[query.via].limit /\ rules[query.via].action = "route"
    BY <1>1, <1>2, <1>3 DEF DR!GoesOn, LegacyInv
  <2>3. query.via \in DR!Indices /\ query.via > query.index
    BY <1>2, <2>2 DEF StoppedFirst
  <2>4. /\ query' \in Query
        /\ query'.caller = query.caller /\ query'.address = query.address
        /\ query'.index = query.via /\ query'.failed = query.failed \cup {query.via}
        /\ query'.phase = "walk" /\ query'.result = query.result
    BY Zenon, <2>1 DEF Query
  <2>5. \A r : DR!Stops(r)' <=> DR!Stops(r)
    BY <2>4, SameStops
  <2>6. query.index \in Nat /\ query.via \in Nat
    BY DEF Query
  <2>7. \A i \in 1..query.via : DR!Stops(rules[i]) => i \in query.failed \cup {query.via}
    BY <1>2, <2>3, <2>6 DEF StoppedFirst, LegacyInv, DR!Indices
  <2>8. \A f \in query.failed \cup {query.via} :
           f \in 1..query.via /\ rules[f].limit /\ rules[f].action = "route"
    BY <1>2, <2>2, <2>3, <2>6 DEF LegacyInv, DR!Indices
  <2>9. LegacyInv'
    BY <1>1, <1>2, <2>3, <2>4, <2>5, <2>7, <2>8 DEF LegacyInv, ResultsNamed, DR!Indices
  <2> QED
    BY Zenon, <1>1, <2>4, <2>9
<1>4. CASE ~DR!GoesOn(reply)
  <2>1. query' = [query EXCEPT !.phase = "done", !.result = DR!ResultOf(reply)]
    BY <1>4 DEF DR!LegacyAnswer
  <2>0. DR!ResultOf(reply) \in {"answer", "cached", "error"}
        /\ (DR!ResultOf(reply) = "answer" => reply = "checked")
    BY DEF DR!ResultOf, DR!Replies
  <2>2. /\ query' \in Query
        /\ query'.caller = query.caller /\ query'.address = query.address
        /\ query'.index = query.index /\ query'.failed = query.failed
        /\ query'.via = query.via /\ query'.check = query.check
        /\ query'.phase = "done" /\ query'.result = DR!ResultOf(reply)
    BY Zenon, <2>0, <2>1 DEF Query
  <2>3. \A r : DR!Stops(r)' <=> DR!Stops(r)
    BY <2>2, SameStops
  <2>4. StoppedFirst'
    BY <1>1, <1>2, <2>2, <2>3 DEF StoppedFirst, DR!Indices
  <2>5. reply = "checked" /\ query.check => query.via # 0 /\ rules[query.via].accepts
    BY <1>1, <1>2, <1>4 DEF LegacyInv, DR!GoesOn
  <2>6. LegacyInv'
    BY <1>1, <1>2, <2>0, <2>2, <2>3, <2>4, <2>5 DEF LegacyInv
  <2> QED
    BY Zenon, <1>1, <2>2, <2>6
<1> QED
  BY Zenon, <1>3, <1>4

\* The walk passes a rule that is none of the ones that decide.
LEMMA PassKeeps ==
  ASSUME ResultsNamed, RulesInv, ~DR!LegacyMode(rules), query.phase \in {"walk", "evaluate"},
         query.index < Len(rules), rules' = rules, NEW more \in SUBSET {query.index + 1},
         NEW answer \in Nat \cup {None},
         query' = [query EXCEPT !.phase = "walk", !.index = @ + 1, !.options = @ \cup more,
                                !.evaluated = answer],
         LET r == rules[query.index + 1]
         IN  /\ r.matches /\ r.response = "no" => ~DR!Final(r)
             /\ IF more = {} THEN r.matches /\ r.response = "no" => r.action # "options"
                ELSE r.action = "options" /\ r.matches
             /\ answer = query.index + 1 \/ answer = None \/
                  /\ answer = query.evaluated
                  /\ r.action = "evaluate" => ~r.matches \/ r.response # "no"
  PROVE  RulesInv'
<1> USE DEF RulesInv
<1>1. ModernInv /\ query.index \in Nat /\ Len(rules) \in Nat
  BY ListedRule DEF Query
<1>2. /\ query' \in Query
      /\ query'.caller = query.caller /\ query'.address = query.address
      /\ query'.index = query.index + 1 /\ query'.options = query.options \cup more
      /\ query'.evaluated = answer /\ query'.failed = query.failed
      /\ query'.via = query.via /\ query'.check = query.check
      /\ query'.phase = "walk" /\ query'.result = query.result
  <2>1. query.index + 1 \in Nat /\ query.options \cup more \in SUBSET (Nat \ {0})
    BY <1>1 DEF Query
  <2>2. /\ query \in Query
        /\ query' = [query EXCEPT !.phase = "walk", !.index = @ + 1, !.options = @ \cup more,
                                  !.evaluated = answer]
    OBVIOUS
  <2> QED
    BY ONLY Zenon, <2>1, <2>2, answer \in Nat \cup {None} DEF Query
<1>3. \A r : DR!Final(r)' <=> DR!Final(r)
  BY <1>2, SameStops
<1> DEFINE n == query.index + 1
<1>4. \A k \in 1..n : k \in 1..query.index \/ k = n
  BY <1>1
<1>5. query.via = 0 /\ query.result = None
  BY <1>1 DEF ModernInv
<1>6. /\ \A k \in (query.options \cup more) \ {0} : k \in 1..n
      /\ \A k \in (query.options \cup more) \ {0} : rules[k].action = "options" /\ rules[k].matches
  BY <1>1, <1>5 DEF ModernInv
<1>7. \A k \in 1..n : rules[k].action = "options" /\ rules[k].matches /\ rules[k].response = "no"
           => k \in query.options \cup more
  BY <1>1, <1>4 DEF ModernInv
<1>8. \A i \in 1..n : rules[i].matches /\ rules[i].response = "no" => ~DR!Final(rules[i])
  BY <1>1, <1>4 DEF ModernInv
<1>9. answer # None =>
         /\ answer \in 1..n
         /\ \A k \in (answer + 1)..n :
              rules[k].action = "evaluate" => ~rules[k].matches \/ rules[k].response # "no"
  <2>1. CASE answer = n
    BY <2>1, <1>1
  <2>2. CASE answer = query.evaluated /\ answer # None /\ answer # n
    <3>1. answer \in 1..query.index
      BY <2>2, <1>1 DEF ModernInv
    <3>2. \A k \in (answer + 1)..n : k \in (answer + 1)..query.index \/ k = n
      BY <1>1, <3>1
    <3> QED
      BY <2>2, <1>1, <3>1, <3>2 DEF ModernInv
  <2> QED
    BY Zenon, <2>1, <2>2
<1>10. n \in 0..Len(rules)
  BY <1>1
<1> HIDE DEF n
<1>11. query'.index = n
  BY <1>2 DEF n
<1>12. ModernInv'
  BY <1>1, <1>2, <1>3, <1>5, <1>6, <1>7, <1>8, <1>9, <1>10, <1>11 DEF ModernInv, ResultsNamed
<1> QED
  BY Zenon, <1>2, <1>12


\* exchangeWithRules at one rule: it is passed, or decides the query.
LEMMA ExchangeWithRulesKeeps == ASSUME ResultsNamed, RulesInv, DR!ExchangeWithRules PROVE RulesInv'
<1> USE DEF RulesInv
<1>1. /\ query.phase = "walk" /\ ~DR!LegacyMode(rules) /\ query.index < Len(rules)
      /\ rules' = rules
  BY DEF DR!ExchangeWithRules
<1>2. ModernInv /\ query.index \in Nat /\ Len(rules) \in Nat
  BY <1>1, ListedRule DEF Query
<1>3. PICK i : i = query.index + 1
  OBVIOUS
<1>4. i \in DR!Indices /\ rules[i] \in DR!Rule
  BY <1>1, <1>2, <1>3, ListedRule DEF DR!Indices
<1>5. IF DR!MatchesNow(rules[i]) THEN DR!RuleAction(i) ELSE query' = DR!Skip
  BY <1>3 DEF DR!ExchangeWithRules
<1>6. query.evaluated \in Nat \cup {None} /\ query.options \in SUBSET (Nat \ {0})
  BY DEF Query
<1>7. DR!Skip = [query EXCEPT !.phase = "walk", !.index = @ + 1, !.options = @ \cup {},
                              !.evaluated = query.evaluated]
  BY Zenon, <1>1, <1>6 DEF DR!Skip, Query
<1>8. DR!MatchesNow(rules[i]) => rules[i].matches
  BY DEF DR!MatchesNow
<1>9. rules[i].matches /\ rules[i].response = "no" => DR!MatchesNow(rules[i])
  BY DEF DR!MatchesNow
<1>10. CASE ~DR!MatchesNow(rules[i])
  BY Zenon, <1>10, <1>1, <1>3, <1>5, <1>6, <1>7, <1>9, PassKeeps
<1>11. CASE DR!MatchesNow(rules[i]) /\ rules[i].action = "options"
  <2>1. query' = [query EXCEPT !.phase = "walk", !.index = @ + 1, !.options = @ \cup {i},
                               !.evaluated = query.evaluated]
    BY Zenon, <1>1, <1>5, <1>6, <1>11 DEF DR!RuleAction, DR!Skip, Query
  <2>2. ~DR!Final(rules[i])
    BY <1>11 DEF DR!Final
  <2> QED
    BY Zenon, <1>1, <1>3, <1>6, <1>8, <1>11, <2>1, <2>2, PassKeeps
<1>12. CASE DR!MatchesNow(rules[i]) /\ rules[i].action = "evaluate"
  <2>1. ~DR!Final(rules[i])
    BY <1>12 DEF DR!Final
  <2>2. CASE query' = DR!SetEvaluated(i, FALSE)
    <3>1. query' = [query EXCEPT !.phase = "walk", !.index = @ + 1, !.options = @ \cup {},
                                 !.evaluated = None]
      BY Zenon, <1>1, <1>6, <2>2 DEF DR!SetEvaluated, DR!Skip, Query
    <3> QED
      BY Zenon, <1>1, <1>3, <1>12, <2>1, <3>1, PassKeeps
  <2>3. CASE query' = [query EXCEPT !.phase = "evaluate"]
    <3>1. /\ query' \in Query
          /\ query'.caller = query.caller /\ query'.address = query.address
          /\ query'.index = query.index /\ query'.options = query.options
          /\ query'.evaluated = query.evaluated /\ query'.failed = query.failed
          /\ query'.via = query.via /\ query'.check = query.check
          /\ query'.phase = "evaluate" /\ query'.result = query.result
      BY Zenon, <2>3 DEF Query
    <3>2. \A r : DR!Final(r)' <=> DR!Final(r)
      BY <3>1, SameStops
    <3>3. ModernInv'
      BY <1>1, <1>2, <1>3, <1>12, <3>1, <3>2 DEF ModernInv, ResultsNamed
    <3> QED
      BY Zenon, <1>1, <3>1, <3>3
  <2> QED
    BY Zenon, <1>5, <1>12, <2>2, <2>3 DEF DR!RuleAction
<1>13. CASE /\ DR!MatchesNow(rules[i]) /\ rules[i].action = "route" /\ ~DR!Usable(rules[i])
  <2>1. query' = DR!Skip
    BY <1>5, <1>13 DEF DR!RuleAction
  <2>2. ~DR!Final(rules[i])
    BY <1>13 DEF DR!Final
  <2> QED
    BY Zenon, <1>1, <1>3, <1>6, <1>7, <1>13, <2>1, <2>2, PassKeeps
<1>14. CASE /\ DR!MatchesNow(rules[i]) /\ rules[i].action \notin {"options", "evaluate"}
            /\ rules[i].action = "route" => DR!Usable(rules[i])
  <2>1. DR!Final(rules[i])
    BY <1>4, <1>14 DEF DR!Final, DR!Rule
  <2>2. /\ query' \in Query
        /\ query'.caller = query.caller /\ query'.address = query.address
        /\ query'.index = query.index /\ query'.failed = query.failed /\ query'.via = i
        /\ query'.options \ {i} = query.options \ {i}
        /\ query'.check = query.check /\ query'.evaluated = query.evaluated
        /\ query'.phase \in {"exchange", "done"}
        /\ query'.result = "evaluated" => query'.phase = "done" /\ query.evaluated # None
        /\ query'.phase # "done" => query'.result = None
    <3>1. i \in Nat \ {0} /\ query.result = None
      BY <1>1, <1>2, <1>3 DEF ModernInv
    <3>2. CASE rules[i].action = "route"
      <4>1. query' = [query EXCEPT !.phase = "exchange", !.via = i, !.options = @ \cup {i}]
        BY <3>2, <1>5, <1>14 DEF DR!RuleAction
      <4>2. query.options \cup {i} \in SUBSET (Nat \ {0})
        BY <1>6, <3>1
      <4> QED
        BY Zenon, <3>1, <4>1, <4>2 DEF Query, ResultsNamed
    <3>3. CASE rules[i].action = "respond"
      <4>1. query' = [query EXCEPT !.phase = "done", !.via = i,
                        !.result = IF query.evaluated = None THEN "error" ELSE "evaluated"]
        BY <3>3, <1>5, <1>14 DEF DR!RuleAction
      <4> QED
        BY Zenon, <3>1, <4>1 DEF Query
    <3>4. CASE rules[i].action \in {"reject", "predefined"}
      <4>1. query' = [query EXCEPT !.phase = "done", !.via = i, !.result = rules[i].action]
        BY Zenon, <3>4, <1>5, <1>14 DEF DR!RuleAction
      <4> QED
        BY Zenon, <3>1, <3>4, <4>1 DEF Query
    <3> QED
      BY Zenon, <1>4, <1>14, <3>2, <3>3, <3>4 DEF DR!Rule
  <2>3. \A r : DR!Final(r)' <=> DR!Final(r)
    BY <2>2, SameStops
  <2>4. query.via = 0 /\ i \notin 1..query.index /\ i # 0
    BY <1>1, <1>2, <1>3 DEF ModernInv
  <2>5. 0 \notin query.options
    BY <1>6
  <2>6. ModernInv'
    BY <1>1, <1>2, <1>3, <1>4, <1>8, <1>14, <2>1, <2>2, <2>3, <2>4, <2>5 DEF ModernInv, DR!Indices
  <2> QED
    BY Zenon, <1>1, <2>2, <2>6
<1> QED
  BY Zenon, <1>4, <1>10, <1>11, <1>12, <1>13, <1>14 DEF DR!Rule


\* The answer of an evaluate rule, or its failure, is kept and the rule passed.
LEMMA EvaluatedKeeps ==
  ASSUME ResultsNamed, RulesInv, NEW ok \in BOOLEAN, DR!Evaluated(ok)
  PROVE  RulesInv'
<1> USE DEF RulesInv
<1>1. query.phase = "evaluate" /\ rules' = rules
  BY DEF DR!Evaluated
<1>2. ~DR!LegacyMode(rules) /\ ModernInv
  BY <1>1 DEF LegacyInv
<1>3. /\ query.index < Len(rules) /\ rules[query.index + 1].action = "evaluate"
      /\ query.index \in Nat
  BY <1>1, <1>2 DEF ModernInv, Query
<1> DEFINE answer == IF ok THEN query.index + 1 ELSE None
<1>4. query' = [query EXCEPT !.phase = "walk", !.index = @ + 1, !.options = @ \cup {},
                             !.evaluated = answer]
  BY Zenon, <1>1 DEF DR!Evaluated, DR!SetEvaluated, DR!Skip, Query
<1>5. answer \in Nat \cup {None} /\ (answer = query.index + 1 \/ answer = None)
  BY <1>3
<1>6. ~DR!Final(rules[query.index + 1])
  BY <1>3 DEF DR!Final
<1> HIDE DEF answer
<1> QED
  BY Zenon, <1>1, <1>2, <1>3, <1>4, <1>5, <1>6, PassKeeps

LEMMA DefaultTransportKeeps == ASSUME ResultsNamed, RulesInv, DR!DefaultTransport PROVE RulesInv'
<1> USE DEF RulesInv
<1>1. /\ query.phase = "walk" /\ ~DR!LegacyMode(rules) /\ query.index = Len(rules)
      /\ rules' = rules /\ query' = [query EXCEPT !.phase = "exchange", !.via = 0]
  BY DEF DR!DefaultTransport
<1>2. ModernInv
  BY <1>1
<1>3. /\ query' \in Query
      /\ query'.caller = query.caller /\ query'.address = query.address
      /\ query'.index = query.index /\ query'.failed = query.failed /\ query'.via = 0
      /\ query'.options = query.options
      /\ query'.check = query.check /\ query'.evaluated = query.evaluated
      /\ query'.phase = "exchange" /\ query'.result = query.result
  BY Zenon, <1>1 DEF Query
<1>4. \A r : DR!Final(r)' <=> DR!Final(r)
  BY <1>3, SameStops
<1>5. ModernInv'
  BY <1>1, <1>2, <1>3, <1>4 DEF ModernInv, ResultsNamed
<1> QED
  BY Zenon, <1>1, <1>3, <1>5

LEMMA ModernAnswerKeeps ==
  ASSUME ResultsNamed, RulesInv, NEW ok \in BOOLEAN, DR!ModernAnswer(ok)
  PROVE  RulesInv'
<1> USE DEF RulesInv
<1>1. /\ query.phase = "exchange" /\ ~DR!LegacyMode(rules) /\ rules' = rules
      /\ query' = [query EXCEPT !.phase = "done", !.result = IF ok THEN "answer" ELSE "error"]
  BY DEF DR!ModernAnswer
<1>2. ModernInv
  BY <1>1
<1>3. /\ query' \in Query
      /\ query'.caller = query.caller /\ query'.address = query.address
      /\ query'.index = query.index /\ query'.failed = query.failed /\ query'.via = query.via
      /\ query'.options = query.options
      /\ query'.check = query.check /\ query'.evaluated = query.evaluated
      /\ query'.phase = "done" /\ query'.result # "evaluated"
  BY Zenon, <1>1 DEF Query
<1>4. \A r : DR!Final(r)' <=> DR!Final(r)
  BY <1>3, SameStops
<1>5. ModernInv'
  BY <1>1, <1>2, <1>3, <1>4 DEF ModernInv, DR!Indices
<1> QED
  BY Zenon, <1>1, <1>3, <1>5

\* The invariant says that the first rule that decides decides.
LEMMA RulesDecide == ASSUME ResultsNamed, RulesInv PROVE DR!FirstDecides
<1> USE DEF RulesInv
<1>1. CASE DR!LegacyMode(rules)
  <2> SUFFICES ASSUME query.phase = "done" PROVE DR!FirstDecides
    BY DEF DR!FirstDecides
  <2>1. LegacyInv /\ StoppedFirst /\ query.index \in Nat /\ query.via \in Nat
    BY <1>1 DEF LegacyInv, Query
  <2>2. \A i \in DR!Indices : DR!Decides(i) => DR!Stops(rules[i]) /\ i \notin query.failed
    <3> SUFFICES ASSUME NEW i \in DR!Indices, DR!Decides(i)
                 PROVE  DR!Stops(rules[i]) /\ i \notin query.failed
      OBVIOUS
    <3> QED
      BY Zenon, <2>1 DEF DR!Decides, DR!Final, DR!Stops, DR!Looked, LegacyInv
  <2>3. query.via # 0 => DR!Decides(query.via)
    <3> SUFFICES ASSUME query.via # 0 PROVE DR!Decides(query.via)
      OBVIOUS
    <3>1. query.via \in DR!Indices /\ DR!Stops(rules[query.via]) /\ query.via \notin query.failed
      BY <2>1 DEF StoppedFirst, LegacyInv
    <3>2. rules[query.via].action \in {"route", "options", "reject", "predefined"}
      BY <1>1, <3>1, LegacyRules
    <3> QED
      BY Zenon, <3>1, <3>2 DEF DR!Decides, DR!Final, DR!Stops, DR!Looked
  <2>4. \A i \in DR!Indices : DR!Decides(i) => query.via # 0 /\ query.via <= i
    <3> SUFFICES ASSUME NEW i \in DR!Indices, DR!Decides(i) PROVE query.via # 0 /\ query.via <= i
      OBVIOUS
    <3>1. ~(i \in 1..query.index)
      BY <2>1, <2>2 DEF LegacyInv
    <3>2. i > query.index
      BY <2>1, <3>1, ListedRule DEF DR!Indices
    <3> QED
      BY Zenon, <2>1, <2>2, <3>2 DEF StoppedFirst
  <2>5. query.via # 0 /\ query.caller = "lookup" => rules[query.via].server # "fakeip"
    <3> SUFFICES ASSUME query.via # 0, query.caller = "lookup"
                 PROVE  rules[query.via].server # "fakeip"
      OBVIOUS
    <3>1. /\ query.via \in DR!Indices /\ DR!Stops(rules[query.via])
          /\ rules[query.via] \in DR!Rule
          /\ rules[query.via].action \in {"route", "options", "reject", "predefined"}
      BY <1>1, <2>1, LegacyRules, ListedRule DEF StoppedFirst
    <3> QED
      BY Zenon, <3>1 DEF DR!Stops, DR!Usable, DR!AllowFakeIP, DR!Rule
  <2>6. query.result = "answer" /\ query.check => rules[query.via].accepts
    BY <2>1 DEF LegacyInv
  <2> QED
    BY Zenon, <2>3, <2>4, <2>5, <2>6 DEF DR!FirstDecides
<1>2. CASE ~DR!LegacyMode(rules)
  <2> SUFFICES ASSUME query.phase = "done" PROVE DR!FirstDecides
    BY DEF DR!FirstDecides
  <2>1. ModernInv /\ query.index \in Nat /\ query.via \in Nat
    BY <1>2 DEF Query
  <2>2. query.via # 0 => /\ query.via = query.index + 1 /\ query.via \in DR!Indices
                         /\ rules[query.via].matches /\ DR!Final(rules[query.via])
                         /\ rules[query.via].limit = FALSE /\ rules[query.via] \in DR!Rule
    BY Zenon, <1>2, <2>1, ModernRules, ListedRule DEF ModernInv
  <2>3. query.via # 0 => DR!Decides(query.via)
    BY <2>2 DEF DR!Decides
  <2>4. \A i \in DR!Indices :
           rules[i].response = "no" /\ DR!Decides(i) => query.via # 0 /\ query.via <= i
    <3> SUFFICES ASSUME NEW i \in DR!Indices, rules[i].response = "no", DR!Decides(i)
                 PROVE  query.via # 0 /\ query.via <= i
      OBVIOUS
    <3>1. ~(i \in 1..query.index)
      BY <2>1 DEF ModernInv, DR!Decides
    <3> QED
      BY <2>1, <3>1, ListedRule DEF ModernInv, DR!Indices
  <2>5. query.via # 0 /\ query.caller = "lookup" => rules[query.via].server # "fakeip"
    BY <2>2 DEF DR!Final, DR!Usable, DR!AllowFakeIP, DR!Rule
  <2> QED
    BY Zenon, <2>1, <2>3, <2>4, <2>5 DEF DR!FirstDecides, ModernInv
<1> QED
  BY Zenon, <1>1, <1>2


LEMMA RulesKeepOptions == ASSUME ResultsNamed, RulesInv PROVE DR!OptionsInForce
<1> USE DEF RulesInv
<1> SUFFICES ASSUME query.phase = "exchange" PROVE DR!OptionsInForce
  BY DEF DR!OptionsInForce
<1> DEFINE sent == query.options \ {query.via}
           due == {k \in DR!Indices : /\ rules[k].action = "options" /\ rules[k].matches
                                      /\ rules[k].response = "no"
                                      /\ rules[k].limit => query.address
                                      /\ query.via # 0 => k < query.via
                                      /\ \A f \in query.failed : k > f}
<1>1. CASE DR!LegacyMode(rules)
  <2>1. LegacyInv /\ query.index \in Nat /\ Len(rules) \in Nat
    BY <1>1, ListedRule DEF Query
  <2>2. \A k \in DR!Indices : k > query.index <=> \A f \in query.failed : k > f
    BY <2>1 DEF LegacyInv, DR!Indices
  <2>3. sent = DR!Collected(query.via)
    BY <2>1 DEF LegacyInv
  <2>4. DR!Collected(query.via) = due
    BY <1>1, <2>2, LegacyRules DEF DR!Collected, DR!Looked
  <2>5. sent \subseteq DR!Indices
    BY <2>3 DEF DR!Collected
  <2>6. {k \in sent : rules[k].response # "no"} = {}
    BY <1>1, <2>5, LegacyRules
  <2> QED
    BY Zenon, <2>3, <2>4, <2>6 DEF DR!OptionsInForce
<1>2. CASE ~DR!LegacyMode(rules)
  <2>1. ModernInv /\ query.index \in Nat /\ Len(rules) \in Nat /\ query.via \in Nat
    BY <1>2, ListedRule DEF Query
  <2>2. \A k \in DR!Indices : (query.via # 0 => k < query.via) <=> k \in 1..query.index
    BY <2>1 DEF ModernInv, DR!Indices
  <2>3. 1..query.index \subseteq DR!Indices
    BY <2>1 DEF ModernInv, DR!Indices
  <2>4. query.via \notin 1..query.index
    BY <2>1 DEF ModernInv
  <2>5. due \subseteq sent
    BY <2>1, <2>2, <2>4 DEF ModernInv
  <2>6. \A k \in sent : rules[k].response = "no" => k \in due
    <3> SUFFICES ASSUME NEW k \in sent, rules[k].response = "no" PROVE k \in due
      OBVIOUS
    <3>1. k \in 1..query.index /\ rules[k].action = "options" /\ rules[k].matches
      BY <2>1 DEF ModernInv
    <3>2. k \in DR!Indices /\ rules[k].limit = FALSE /\ query.failed = {}
      BY Zenon, <1>2, <2>1, <2>3, <3>1, ModernRules DEF ModernInv
    <3> QED
      BY Zenon, <2>2, <3>1, <3>2
  <2> HIDE DEF sent, due
  <2>7. sent = due \cup {k \in sent : rules[k].response # "no"}
    BY <2>5, <2>6
  <2> QED
    BY Zenon, <2>7 DEF DR!OptionsInForce, sent, due
<1> QED
  BY Zenon, <1>1, <1>2

LEMMA RulesRespondLatest == ASSUME ResultsNamed, RulesInv PROVE DR!RespondsLatest
<1> USE DEF RulesInv
<1>1. CASE DR!LegacyMode(rules)
  BY <1>1 DEF LegacyInv, DR!RespondsLatest
<1>2. CASE ~DR!LegacyMode(rules)
  <2> SUFFICES ASSUME query.result = "evaluated" PROVE DR!RespondsLatest
    BY DEF DR!RespondsLatest
  <2>1. /\ query.via = query.index + 1 /\ query.index \in Nat /\ query.evaluated # None
        /\ ModernInv
    BY <1>2 DEF ModernInv, Query
  <2>2. query.via - 1 = query.index
    BY <2>1
  <2> QED
    BY Zenon, <2>1, <2>2 DEF ModernInv, DR!RespondsLatest
<1> QED
  BY Zenon, <1>1, <1>2

\* For any list of DNS rules that buildRules accepts, whatever the answers and
\* failures of the servers and the cache: the first rule that decides a query
\* decides it, with an answer its filter passed unless the answer was cached,
\* with the options of the rules that matched on the way, and a respond rule
\* answers with the latest evaluated response (matchDNS, exchangeWithRules and
\* the loops of Exchange and Lookup).
THEOREM FirstDecidesHolds == ASSUME ResultsNamed PROVE DR!Spec => []FirstDecides
<1>1. rules \in Seq(DR!Rule) /\ DR!Asked => RulesInv
  BY AskedFine
<1>2. RulesInv /\ [DR!WalkStep]_(DR!qvars) => RulesInv'
  <2> SUFFICES ASSUME RulesInv, [DR!WalkStep]_(DR!qvars) PROVE RulesInv'
    OBVIOUS
  <2>1. CASE UNCHANGED DR!qvars
    <3>1. rules' = rules /\ query' = query
      BY <2>1 DEF DR!qvars
    <3>2. DR!Indices' = DR!Indices
      BY <3>1 DEF DR!Indices
    <3>3. \A r : (DR!Stops(r)' <=> DR!Stops(r)) /\ (DR!Final(r)' <=> DR!Final(r))
                 /\ (DR!Looked(r)' <=> DR!Looked(r))
      BY <3>1, SameStops
    <3>4. DR!Collected(query.via)' = DR!Collected(query.via)
      BY <3>1, <3>2, <3>3 DEF DR!Collected
    <3>5. StoppedFirst' <=> StoppedFirst
      BY <3>1, <3>2, <3>3 DEF StoppedFirst
    <3>6. LegacyInv' <=> LegacyInv
      BY <3>1, <3>3, <3>4, <3>5 DEF LegacyInv
    <3>7. ModernInv' <=> ModernInv
      BY <3>1, <3>2, <3>3 DEF ModernInv
    <3> QED
      BY Zenon, <3>1, <3>6, <3>7 DEF RulesInv
  <2> QED
    BY Zenon, <2>1, MatchDNSKeeps, LegacyAnswerKeeps, ExchangeWithRulesKeeps, EvaluatedKeeps,
       DefaultTransportKeeps, ModernAnswerKeeps DEF DR!WalkStep
<1>3. RulesInv => FirstDecides
  BY RulesDecide, RulesKeepOptions, RulesRespondLatest DEF FirstDecides
<1> QED
  BY <1>1, <1>2, <1>3, PTL DEF DR!Spec
=============================================================================
