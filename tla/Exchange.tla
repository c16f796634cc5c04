------------------------------ MODULE Exchange ------------------------------
(***************************************************************************)
(* baitap6: four pairs of programs that exchange one request and one reply *)
(* over IPv4 or Unix sockets, as a stream or as datagrams; family and kind *)
(* say which pair runs.  The client is run once; the server can be started *)
(* and interrupted (Ctrl+C) at any moment, and started again.  Nobody      *)
(* looks at the result of send, sendto, read or recvfrom.                  *)
(*                                                                         *)
(* UDP may lose a datagram, a Unix datagram socket does not.  Nobody ends  *)
(* a received text with a NUL: the stream programs' buffers are zeroed,    *)
(* the datagram programs' are not, and what they print is undefined.       *)
(***************************************************************************)
EXTENDS Integers

CONSTANT MaxStarts   \* bound: times the server is started

ASSUME ExchangeAssumption == MaxStarts \in Nat

VARIABLES
  family, kind,         \* "inet" or "unix"; "stream" or "dgram"
  spc,                  \* server: "idle", "accept", "read", "send", "close", "failed"
  cpc,                  \* client: "idle", "send", "recv", "done"
  addr,                 \* the server's port or path: "none", "bound", "stale"
  timewait,             \* the kernel still holds the port for an old connection
  conn,                 \* "none", "queued", "open", "ended" (by the server's end)
  request, reply,       \* "none", "sent", "taken", "lost"
  shown,                \* what the client has printed: "nothing", "reply", "garbled"
  starts

exchangeVars == <<family, kind, spc, cpc, addr, timewait, conn, request, reply,
                  shown, starts>>

ExchangeInit ==
  /\ family \in {"inet", "unix"} /\ kind \in {"stream", "dgram"}
  /\ spc = "idle" /\ cpc = "idle" /\ addr = "none" /\ conn = "none"
  /\ request = "none" /\ reply = "none" /\ shown = "nothing"
  /\ timewait = FALSE /\ starts = 0

\* A datagram arrives, or not if the network is IPv4; a stream loses nothing.
Sent == IF family = "inet" /\ kind = "dgram" THEN {"sent", "lost"} ELSE {"sent"}

-----------------------------------------------------------------------------
(* The server. *)

CanBind_BugNoUnlink == addr = "none" /\ ~timewait   \* without the first unlink

\* bind() succeeds: the Unix servers remove a path that was left behind; the
\* IPv4 ones do not set SO_REUSEADDR.
CanBind == ~timewait

\* socket, unlink, bind and listen.
ServerStart ==
  /\ spc = "idle" /\ starts < MaxStarts
  /\ starts' = starts + 1
  /\ IF CanBind
     THEN addr' = "bound" /\ spc' = IF kind = "stream" THEN "accept" ELSE "read"
     ELSE spc' = "failed" /\ UNCHANGED addr
  /\ UNCHANGED <<family, kind, cpc, timewait, conn, request, reply, shown>>

ServerUnchanged == UNCHANGED <<family, kind, cpc, shown, starts>>

Accept ==
  /\ spc = "accept" /\ conn = "queued"
  /\ spc' = "read" /\ conn' = "open"
  /\ UNCHANGED <<addr, timewait, request, reply>>
  /\ ServerUnchanged

Arrived_BugWaitAll ==   \* MSG_WAITALL, as the datagram servers have it
  IF kind = "stream" THEN cpc = "done" ELSE request = "sent"

\* There is something to read: the request, or a stream's end of file.
Arrived == request = "sent" \/ (kind = "stream" /\ cpc = "done")

\* read or recvfrom.
ServerReads ==
  /\ spc = "read" /\ Arrived
  /\ spc' = "send"
  /\ request' = IF request = "sent" THEN "taken" ELSE request
  /\ UNCHANGED <<addr, timewait, conn, reply>>
  /\ ServerUnchanged

\* send or sendto.  On a Unix stream whose client is gone SIGPIPE kills the
\* server, which leaves its path behind.
ServerSends ==
  /\ spc = "send"
  /\ \/ cpc # "done" /\ reply' \in Sent /\ spc' = "close" /\ UNCHANGED addr
     \/ /\ cpc = "done"
        /\ UNCHANGED reply
        /\ IF family = "unix" /\ kind = "stream"
           THEN spc' = "idle" /\ addr' = "stale"
           ELSE spc' = "close" /\ UNCHANGED addr
  /\ UNCHANGED <<timewait, conn, request>>
  /\ ServerUnchanged

\* The sockets are closed and a path is removed.  Who closes a TCP connection
\* first leaves the port in TIME_WAIT.
ServerCloses ==
  /\ spc = "close"
  /\ spc' = "idle" /\ addr' = "none"
  /\ conn' = IF conn = "open" THEN "ended" ELSE conn
  /\ timewait' = (family = "inet" /\ kind = "stream" /\ cpc # "done")
  /\ UNCHANGED <<request, reply>>
  /\ ServerUnchanged

\* Ctrl+C: what the server had not read is gone with it.
Interrupt ==
  /\ spc \notin {"idle", "failed"}
  /\ spc' = "idle"
  /\ addr' = IF family = "unix" THEN "stale" ELSE "none"
  /\ conn' = IF conn \in {"queued", "open"} THEN "ended" ELSE conn
  /\ timewait' = (family = "inet" /\ conn = "open" /\ cpc # "done"
                    /\ request # "sent")   \* unread data: a reset instead
  /\ request' = IF request = "sent" THEN "lost" ELSE request
  /\ reply' = IF reply = "none" /\ request = "taken" THEN "lost" ELSE reply
  /\ ServerUnchanged

TimeWaitOver ==
  /\ timewait
  /\ timewait' = FALSE
  /\ spc' = IF spc = "failed" THEN "idle" ELSE spc   \* and the user tries again
  /\ UNCHANGED <<addr, conn, request, reply>>
  /\ ServerUnchanged

ServerStep == Accept \/ ServerReads \/ ServerSends \/ ServerCloses

-----------------------------------------------------------------------------
(* The client. *)

ClientUnchanged == UNCHANGED <<family, kind, spc, addr, timewait, reply, starts>>

\* socket, and for a stream connect, which fails if nobody listens.
ClientStart ==
  /\ cpc = "idle"
  /\ IF kind = "dgram" THEN cpc' = "send" /\ UNCHANGED conn
     ELSE IF addr = "bound" THEN cpc' = "send" /\ conn' = "queued"
     ELSE cpc' = "done" /\ UNCHANGED conn
  /\ UNCHANGED <<request, shown>>
  /\ ClientUnchanged

\* send or sendto: a stream that has ended, a port or path without a server
\* are errors nobody notices.
ClientSends ==
  /\ cpc = "send"
  /\ cpc' = "recv"
  /\ IF (kind = "dgram" /\ addr = "bound") \/ conn \in {"queued", "open"}
     THEN request' \in Sent
     ELSE request' = "lost"
  /\ UNCHANGED <<conn, shown>>
  /\ ClientUnchanged

Printed == IF kind = "stream" THEN {"reply"} ELSE {"reply", "garbled"}

\* read or recvfrom returns: the reply, or the end of a stream; then close.
ClientReads ==
  /\ cpc = "recv"
  /\ \/ reply = "sent" /\ shown' \in Printed
     \/ conn = "ended" /\ reply # "sent" /\ UNCHANGED shown
  /\ cpc' = "done"
  /\ UNCHANGED <<conn, request>>
  /\ ClientUnchanged

\* Ctrl+C.
ClientInterrupt ==
  /\ cpc \in {"send", "recv"}
  /\ cpc' = "done"
  /\ UNCHANGED <<conn, request, shown>>
  /\ ClientUnchanged

ClientStep == ClientSends \/ ClientReads

ExchangeNext ==
  \/ ServerStart \/ ServerStep \/ Interrupt \/ TimeWaitOver
  \/ ClientStart \/ ClientStep \/ ClientInterrupt

\* Programs that can run do; nothing is assumed of the user, who starts and
\* interrupts them.
ExchangeFairness == WF_exchangeVars(ServerStep) /\ WF_exchangeVars(ClientStep)

ExchangeSpec == ExchangeInit /\ [][ExchangeNext]_exchangeVars /\ ExchangeFairness

-----------------------------------------------------------------------------
(* Properties. *)

\* A server that was interrupted, or killed by SIGPIPE, does not keep the next
\* one from starting: only an IPv4 stream in TIME_WAIT does.
StartsAgain == spc = "failed" => family = "inet" /\ kind = "stream"

\* A stream client always comes to an end, whatever becomes of its server; a
\* datagram client waits for ever only for a request or reply that was lost.
ClientEndsUnlessLost ==
  (cpc \in {"send", "recv"})
    ~> (cpc = "done" \/ (kind = "dgram" /\ "lost" \in {request, reply}))
=============================================================================
