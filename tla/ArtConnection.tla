----------------------------- MODULE ArtConnection -----------------------------
(***************************************************************************)
(* One websocket to the art channel of a TV (internal/samsung).              *)
(* A reader goroutine takes the TV's messages off the socket and hands each *)
(* to the listener registered under its request ID or else its event name;  *)
(* the adapter registers, sends and waits. When the socket dies the reader  *)
(* marks the connection closed and then fails every listener.               *)
(*                                                                         *)
(* Request IDs are random and never repeat: a message carries the ID of the *)
(* request in hand, an ID of anything else, or none.                        *)
(***************************************************************************)
EXTENDS Naturals, Sequences, FiniteSets

CONSTANTS Ids,            \* content IDs, numbered
          PendingBuffer,  \* messages a listener holds
          MaxWire         \* bound: messages on the way from the TV

ASSUME IdsAreNumbers     == Ids \subseteq Nat \ {0}
ASSUME BufferIsPositive  == PendingBuffer \in Nat \ {0}
ASSUME MaxWireIsPositive == MaxWire \in Nat \ {0}

Keys     == {"reply", "image_added", "image_deleted"}
Settings == {"before", "wanted", "other"}

\* What a reply can tell: Art Mode, the inventory, a setting, a content ID.
Views    == [art : BOOLEAN, shown : SUBSET Ids, setting : Settings, content : Ids \cup {0}]
Messages == [id : {"mine", "other", "none"},
             event : {"answer", "image_added", "image_deleted"}, verdict : {"ok", "error", "full"},
             view : Views]
Listeners == [registered : BOOLEAN, shut : BOOLEAN, buf : Seq(Messages)]

VARIABLES
  sock,    \* connection.conn: none, up, or down: gone and not yet noticed
  closed,  \* connection.closed
  reader,  \* the goroutine of recvLoop
  listen,  \* connection.pending, and the channels its listeners hold
  wire     \* messages of the TV the reader has not read

connVars == <<sock, closed, reader, listen, wire>>

Silent == [registered |-> FALSE, shut |-> FALSE, buf |-> <<>>]

ConnTypeOK ==
  /\ sock \in {"none", "up", "down"}
  /\ closed \in BOOLEAN
  /\ reader \in {"off", "reading", "failing", "done"}
  /\ listen \in [Keys -> Listeners]
  /\ \A k \in Keys : Len(listen[k].buf) <= PendingBuffer
  /\ wire \in Seq(Messages) /\ Len(wire) <= MaxWire

ConnInit == /\ sock = "none" /\ closed = TRUE /\ reader = "off"
            /\ listen = [k \in Keys |-> Silent] /\ wire = <<>>

IsAlive == sock # "none" /\ ~closed

-----------------------------------------------------------------------------
\* Listeners.

\* mutant: a listener registers on a closed connection
RegistersAnyway(k) == ~listen[k].registered

CanRegister(k) == ~closed /\ ~listen[k].registered

Registered(l, ks) ==
  [k \in Keys |-> IF k \in ks THEN [Silent EXCEPT !.registered = TRUE] ELSE l[k]]

Unregistered(l, ks) == [k \in Keys |-> IF k \in ks THEN Silent ELSE l[k]]

\* failPending: every registered channel is closed and leaves the table. Its
\* holder still reads what the channel buffered.
FailPending(l) ==
  [k \in Keys |-> IF l[k].registered
                  THEN [l[k] EXCEPT !.registered = FALSE, !.shut = TRUE] ELSE l[k]]

\* routeD2DEvent: the request ID first, then the event name. A full listener
\* drops the message.
KeysOf(m) == IF m.id = "mine" THEN <<"reply", m.event>> ELSE <<m.event>>

\* mutant: the reader does not look at the room left
RouteUnbounded(l, m) ==
  LET ks == {k \in Keys : l[k].registered /\ \E i \in DOMAIN KeysOf(m) : KeysOf(m)[i] = k}
  IN  [k \in Keys |-> IF k \in ks THEN [l[k] EXCEPT !.buf = Append(@, m)] ELSE l[k]]

Route(l, m) ==
  LET hits == {i \in DOMAIN KeysOf(m) : KeysOf(m)[i] \in Keys /\ l[KeysOf(m)[i]].registered}
      key  == KeysOf(m)[CHOOSE i \in hits : \A j \in hits : i <= j]
  IN  IF hits = {} \/ Len(l[key].buf) >= PendingBuffer THEN l
      ELSE [l EXCEPT ![key].buf = Append(@, m)]

\* A new request ID: nothing said before answers it.
Aged(s) == [i \in DOMAIN s |-> [s[i] EXCEPT !.id = IF @ = "mine" THEN "other" ELSE @]]

-----------------------------------------------------------------------------
\* The reader (recvLoop), one step per statement that others can see.

ReaderReads ==
  /\ reader = "reading" /\ sock # "none" /\ wire # <<>>
  /\ listen' = Route(listen, Head(wire))
  /\ wire' = Tail(wire)
  /\ UNCHANGED <<sock, closed, reader>>

\* The read fails: the socket died, or the adapter closed it.
ReaderFails ==
  /\ reader = "reading"
  /\ \/ sock = "down" /\ wire = <<>>
     \/ sock = "none"
  /\ reader' = "failing" /\ closed' = TRUE
  /\ UNCHANGED <<sock, listen, wire>>

ReaderFailsPending ==
  /\ reader = "failing"
  /\ listen' = FailPending(listen) /\ reader' = "done"
  /\ UNCHANGED <<sock, closed, wire>>

ReaderStep == ReaderReads \/ ReaderFails \/ ReaderFailsPending

\* The network drops the socket; what was on the way may be lost.
SocketDrops ==
  /\ sock = "up"
  /\ sock' = "down" /\ wire' \in {wire, <<>>}
  /\ UNCHANGED <<closed, reader, listen>>

-----------------------------------------------------------------------------
\* Opening and closing. A connection is opened once: the adapter makes a new
\* one, with a table of its own, when the last is not alive.

Opened ==
  /\ sock' = "up" /\ closed' = FALSE /\ reader' = "reading"
  /\ listen' = [k \in Keys |-> Silent] /\ wire' = <<>>

\* CloseContext up to the wait for the reader.
Closing ==
  /\ sock' = "none" /\ closed' = TRUE /\ wire' = <<>>
  /\ UNCHANGED <<reader, listen>>

\* CloseContext after the wait, which the reader or the grace period ends.
Closed ==
  /\ listen' = FailPending(listen) /\ reader' = "off"
  /\ UNCHANGED <<sock, closed, wire>>
=============================================================================
