----------------------------- MODULE LiveSocket -----------------------------
(***************************************************************************)
(* The live connection of one browser: the WebSocket client of the         *)
(* dashboard (frontend/src/websocket) and what the hub of the backend      *)
(* (backend/internal/websocket) keeps of it.                               *)
(*                                                                         *)
(* The layout of the dashboard connects when it is mounted and disconnects *)
(* when it is unmounted (logout).  A socket that closes otherwise is       *)
(* replaced after 5 s.  connect() and disconnect() take the onclose        *)
(* handler from a socket before they drop it and a closed socket never     *)
(* opens, so only the current socket is followed.  The hub hands a message *)
(* to every client it has registered and forgets a client whose buffer is  *)
(* full or that stopped answering; nothing is sent again.                  *)
(*                                                                         *)
(* Left out: the token in the URL, latency and rate figures, rooms.        *)
(***************************************************************************)
EXTENDS Naturals, Sequences

CONSTANTS
  Message,   \* what the hub broadcasts
  MaxWire,   \* the buffer of a client: 256 messages in the code
  MaxFaults  \* bound: faults of the network and of the hub

ASSUME SocketAssumption == MaxWire \in Nat \ {0} /\ MaxFaults \in Nat

VARIABLES
  mounted,   \* the layout is on the screen
  sock,      \* this.socket: none (null) or its readyState
  timer,     \* this.reconnectTimeout is set
  pings,     \* ping intervals that are running
  pingSet,   \* this.pingInterval is set
  joined,    \* the hub has this client registered
  wire,      \* messages for this client, in its buffer and on the way
  faults     \* faults so far

connection == <<mounted, sock, timer, pings, pingSet, faults>>
socketVars == <<connection, joined, wire>>

SocketInit ==
  /\ mounted = FALSE /\ sock = "none" /\ timer = FALSE
  /\ pings = 0 /\ pingSet = FALSE
  /\ joined = FALSE /\ wire = << >>
  /\ faults = 0

-----------------------------------------------------------------------------
Fault == faults < MaxFaults /\ faults' = faults + 1

(* setInterval keeps the old interval running when its handle is lost.     *)
StartPingLoop == pings' = pings + 1 /\ pingSet' = TRUE

StopPingLoop ==
  /\ pings' = IF pingSet THEN pings - 1 ELSE pings
  /\ pingSet' = FALSE

Connect == sock' = IF sock \in {"open", "connecting"} THEN sock ELSE "connecting"

Mount ==
  /\ ~mounted
  /\ mounted' = TRUE
  /\ Connect
  /\ UNCHANGED <<timer, pings, pingSet, joined, wire, faults>>

\* Seeded fault: the retry that is pending is not cancelled.
UnmountKeepsTimer ==
  /\ mounted
  /\ mounted' = FALSE
  /\ sock' = "none" /\ joined' = FALSE /\ wire' = << >>
  /\ StopPingLoop
  /\ UNCHANGED <<timer, faults>>

(* disconnect(), when the layout is unmounted. *)
Unmount ==
  /\ mounted
  /\ mounted' = FALSE
  /\ sock' = "none" /\ joined' = FALSE /\ wire' = << >>
  /\ StopPingLoop
  /\ timer' = FALSE
  /\ UNCHANGED faults

(* The hub registers the client, then the browser calls onopen. *)
Opens ==
  /\ sock = "connecting"
  /\ sock' = "open" /\ joined' = TRUE
  /\ StartPingLoop
  /\ UNCHANGED <<mounted, timer, wire, faults>>

\* Seeded fault: a socket that never opened is not replaced.
ClosesUnopened ==
  /\ sock \in {"connecting", "open"}
  /\ \/ sock = "open" /\ ~joined /\ wire = << >> /\ UNCHANGED faults
     \/ Fault
  /\ sock' = "closed" /\ joined' = FALSE /\ wire' = << >>
  /\ StopPingLoop
  /\ timer' = IF sock = "open" THEN TRUE ELSE timer
  /\ UNCHANGED mounted

(* onclose, then reconnect(): the backend or the network is gone (also     *)
(* before it ever opened), or the hub closed the connection and what it    *)
(* had buffered has been read.                                             *)
Closes ==
  /\ sock \in {"connecting", "open"}
  /\ \/ sock = "open" /\ ~joined /\ wire = << >> /\ UNCHANGED faults
     \/ Fault
  /\ sock' = "closed" /\ joined' = FALSE /\ wire' = << >>
  /\ StopPingLoop
  /\ timer' = TRUE
  /\ UNCHANGED mounted

Retry ==
  /\ timer
  /\ timer' = FALSE
  /\ Connect
  /\ UNCHANGED <<mounted, pings, pingSet, joined, wire, faults>>

(* The client missed its pong, or a write to it failed. *)
HubForgets ==
  /\ joined /\ Fault
  /\ joined' = FALSE
  /\ UNCHANGED <<mounted, sock, timer, pings, pingSet, wire>>

-----------------------------------------------------------------------------
(* Hub.Broadcast and Hub.Run: the client gets m, or it is too slow and is  *)
(* closed, or it is not registered, or m met a full channel.               *)
Delivered(m) ==
  /\ joined /\ Len(wire) < MaxWire
  /\ wire' = Append(wire, m)
  /\ UNCHANGED <<connection, joined>>

Missed ==
  \/ ~joined /\ UNCHANGED socketVars
  \/ joined /\ Len(wire) = MaxWire /\ joined' = FALSE /\ UNCHANGED <<connection, wire>>
  \/ joined /\ Fault /\ UNCHANGED <<mounted, sock, timer, pings, pingSet, joined, wire>>

(* onmessage *)
Receives(m) ==
  /\ sock = "open" /\ wire # << >> /\ m = Head(wire)
  /\ wire' = Tail(wire)
  /\ UNCHANGED <<connection, joined>>

-----------------------------------------------------------------------------
ConnectionStep == Mount \/ Unmount \/ Opens \/ Closes \/ Retry \/ HubForgets

SocketNext ==
  \/ ConnectionStep \/ Missed
  \/ \E m \in Message : Delivered(m) \/ Receives(m)

SocketSpec == SocketInit /\ [][SocketNext]_socketVars

(* Timers run out, and a connection attempt or a lost connection is        *)
(* noticed in the end.                                                     *)
SocketFairness == WF_socketVars(Opens) /\ WF_socketVars(Closes) /\ WF_socketVars(Retry)

-----------------------------------------------------------------------------
SocketTypeOK ==
  /\ mounted \in BOOLEAN /\ timer \in BOOLEAN /\ pingSet \in BOOLEAN
  /\ sock \in {"none", "connecting", "open", "closed"}
  /\ pings \in Nat
  /\ joined \in BOOLEAN
  /\ wire \in Seq(Message) /\ Len(wire) <= MaxWire
  /\ faults \in 0 .. MaxFaults

(* However mounts, closes and retries interleave: pings run exactly while  *)
(* the socket is open, so no interval leaks; a socket that closed has its  *)
(* retry pending, so the client is never stranded; no retry is pending     *)
(* while a socket is alive; and after logout nothing is left running.      *)
SocketSafe ==
  /\ pings = IF sock = "open" THEN 1 ELSE 0
  /\ timer <=> sock = "closed"
  /\ mounted <=> sock # "none"
  /\ joined => sock = "open"

(* A dashboard that stays on the screen ends connected once the network    *)
(* and the backend are well.                                               *)
Reconnects == <>[]mounted => <>[](sock = "open" /\ joined)

=============================================================================
