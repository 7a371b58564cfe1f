--------------------------- MODULE DashboardProofs ---------------------------
(* The connection is never stranded and leaks no timer, alone and inside   *)
(* the dashboard, whatever the user, the calls and the alerts do; and the  *)
(* list loses an alert only in a race; badge and calls keep their types:   *)
(* for any number of alerts and of calls under way.                        *)
EXTENDS Dashboard, SequenceTheorems, FiniteSetTheorems, TLAPS

-----------------------------------------------------------------------------
(* The connection alone. *)

(* At every moment one of the two ways to make progress is there: an open  *)
(* or opening socket, or a pending retry, and the intervals agree with it. *)
LEMMA ConnectionKeeps ==
  ASSUME SocketTypeOK, SocketSafe, pingSet <=> sock = "open", ConnectionStep
  PROVE  SocketSafe' /\ (pingSet' <=> sock' = "open")
<1> USE DEF SocketTypeOK, SocketSafe
<1>1. CASE Mount
  BY <1>1 DEF Mount, Connect
<1>2. CASE Unmount
  BY <1>2 DEF Unmount, StopPingLoop
<1>3. CASE Opens
  BY <1>3 DEF Opens, StartPingLoop
<1>4. CASE Closes
  BY <1>4 DEF Closes, StopPingLoop
<1>5. CASE Retry
  BY <1>5 DEF Retry, Connect
<1>6. CASE HubForgets
  BY <1>6 DEF HubForgets
<1>. QED
  BY <1>1, <1>2, <1>3, <1>4, <1>5, <1>6 DEF ConnectionStep

(* The steps of the connection keep its types. *)
LEMMA ConnectionType ==
  ASSUME SocketTypeOK, SocketSafe, pingSet <=> sock = "open", ConnectionStep
  PROVE  SocketTypeOK'
<1> USE SocketAssumption DEF SocketTypeOK
<1>1. << >> \in Seq(Message) /\ Len(<< >>) <= MaxWire
  BY EmptySeq
<1>2. Fault => faults' \in 0 .. MaxFaults
  BY DEF Fault
<1>0. ASSUME StopPingLoop PROVE pings' \in Nat /\ pingSet' \in BOOLEAN
  <2>1. CASE pingSet
    <3>1. sock = "open"
      BY <2>1
    <3>2. pings = 1
      BY <3>1 DEF SocketSafe
    <3>3. pings' = pings - 1
      BY <1>0, <2>1 DEF StopPingLoop
    <3>4. pings' \in Nat
      BY <3>2, <3>3
    <3>. QED
      BY <1>0, <3>4 DEF StopPingLoop
  <2>2. CASE ~pingSet
    BY <1>0, <2>2 DEF StopPingLoop
  <2>. QED
    BY <2>1, <2>2
<1>3. CASE Mount
  BY <1>3 DEF Mount, Connect
<1>4. CASE Unmount
  <2>1. wire' = << >> /\ sock' = "none" /\ faults' = faults
    BY <1>4 DEF Unmount
  <2>. QED
    BY <1>0, <1>1, <1>4, <2>1 DEF Unmount
<1>5. CASE Opens
  BY <1>5 DEF Opens, StartPingLoop
<1>6. CASE Closes
  <2>1. wire' = << >> /\ sock' = "closed" /\ faults' \in 0 .. MaxFaults
    BY <1>2, <1>6 DEF Closes
  <2>. QED
    BY <1>0, <1>1, <1>6, <2>1 DEF Closes
<1>7. CASE Retry
  BY <1>7 DEF Retry, Connect
<1>8. CASE HubForgets
  BY <1>2, <1>8 DEF HubForgets
<1>. QED
  BY <1>3, <1>4, <1>5, <1>6, <1>7, <1>8 DEF ConnectionStep

(* Messages touch the buffer and the registration only. *)
LEMMA MessagesKeep ==
  ASSUME SocketTypeOK, SocketSafe, pingSet <=> sock = "open",
         Missed \/ \E m \in Message : Delivered(m) \/ Receives(m)
  PROVE  SocketTypeOK' /\ SocketSafe' /\ (pingSet' <=> sock' = "open")
<1> USE SocketAssumption DEF SocketTypeOK, SocketSafe
<1>1. CASE Missed
  <2>1. faults' \in 0 .. MaxFaults
    BY <1>1 DEF Missed, Fault, socketVars, connection
  <2>2. wire' = wire /\ UNCHANGED <<mounted, sock, timer, pings, pingSet>> /\ (joined' = joined \/ joined' = FALSE)
    BY <1>1 DEF Missed, Fault, socketVars, connection
  <2>. QED
    BY <2>1, <2>2
<1>2. ASSUME NEW m \in Message, Delivered(m)
      PROVE  SocketTypeOK' /\ SocketSafe' /\ (pingSet' <=> sock' = "open")
  <2>1. wire' \in Seq(Message) /\ Len(wire') = Len(wire) + 1 /\ Len(wire) \in Nat
    BY <1>2, AppendProperties, LenProperties DEF Delivered
  <2>. QED
    BY <1>2, <2>1 DEF Delivered, connection
<1>3. ASSUME NEW m \in Message, Receives(m)
      PROVE  SocketTypeOK' /\ SocketSafe' /\ (pingSet' <=> sock' = "open")
  <2>1. wire' \in Seq(Message) /\ Len(wire') = Len(wire) - 1 /\ Len(wire) \in Nat
    BY <1>3, HeadTailProperties, LenProperties DEF Receives
  <2>. QED
    BY <1>3, <2>1 DEF Receives, connection
<1>. QED
  BY <1>1, <1>2, <1>3

(* What every step of the connection keeps. *)
SocketInv == SocketTypeOK /\ SocketSafe /\ (pingSet <=> sock = "open")

(* It holds before the first mount. *)
LEMMA SocketInvInit == SocketInit => SocketInv
<1>1. << >> \in Seq(Message) /\ Len(<< >>) = 0
  BY EmptySeq
<1> SUFFICES ASSUME SocketInit PROVE SocketInv
  OBVIOUS
<1>2. SocketTypeOK
  <2>1. /\ wire \in Seq(Message) /\ Len(wire) <= MaxWire
        /\ faults \in 0 .. MaxFaults /\ pings \in Nat
    BY <1>1, SocketAssumption DEF SocketInit
  <2>. QED
    BY <2>1 DEF SocketInit, SocketTypeOK
<1>3. pings = IF sock = "open" THEN 1 ELSE 0
  BY DEF SocketInit
<1>4. sock = "none" /\ ~timer /\ ~mounted /\ ~joined
  BY DEF SocketInit
<1>5. pingSet <=> sock = "open"
  BY DEF SocketInit
<1>. QED
  BY <1>2, <1>3, <1>4, <1>5 DEF SocketInv, SocketSafe

(* It is inductive. *)
LEMMA SocketInvStep == SocketInv /\ [SocketNext]_socketVars => SocketInv'
<1> SUFFICES ASSUME SocketInv, [SocketNext]_socketVars PROVE SocketInv'
  OBVIOUS
<1>1. CASE ConnectionStep
  BY <1>1, ConnectionKeeps, ConnectionType DEF SocketInv
<1>2. CASE Missed \/ \E m \in Message : Delivered(m) \/ Receives(m)
  BY <1>2, MessagesKeep DEF SocketInv
<1>3. CASE UNCHANGED socketVars
  BY <1>3 DEF socketVars, connection, SocketInv, SocketTypeOK, SocketSafe
<1>. QED
  BY <1>1, <1>2, <1>3 DEF SocketNext

(* No interval leaks, no retry is forgotten and nothing survives a logout, *)
(* in every behaviour of the connection alone.                             *)
THEOREM NeverStranded == SocketSpec => []SocketSafe
<1>1. SocketInv => SocketSafe
  BY DEF SocketInv
<1>. QED
  BY <1>1, SocketInvInit, SocketInvStep, PTL DEF SocketSpec

-----------------------------------------------------------------------------
(* The connection in the dashboard. *)

(* A call that is refused is a fault, or the layout is gone.               *)
OnlyFaults ==
  /\ UNCHANGED <<mounted, sock, timer, pings, pingSet, joined, wire>>
  /\ faults' = faults \/ Fault

(* To the connection a step of the dashboard is one of its own, a message, *)
(* or a fault elsewhere.                                                   *)
LEMMA DashboardStep ==
  ASSUME [Next]_vars
  PROVE  \/ ConnectionStep
         \/ Missed \/ \E m \in Message : Delivered(m) \/ Receives(m)
         \/ OnlyFaults
<1> USE DashboardAssumption
<1> DEFINE Heard == Missed \/ \E m \in Message : Delivered(m) \/ Receives(m)
<1>1. ASSUME NEW a \in Alerts, Raise(a) \/ Touch(a) \/ AutoResolve(a) PROVE Heard
  <2>1. \A ev \in {"created", "updated", "resolved"} : <<ev, a>> \in Message
    OBVIOUS
  <2>2. \E ev \in {"created", "updated", "resolved"} : Publish(ev, a)
    BY <1>1 DEF Raise, Touch, AutoResolve
  <2>. QED
    BY <2>1, <2>2 DEF Publish
<1>2. ASSUME NEW a \in Alerts, ElsewhereClosed(a) PROVE OnlyFaults
  BY <1>2 DEF ElsewhereClosed, socketVars, connection, OnlyFaults
<1>3. ASSUME NEW s \in Slots, Serve(s) PROVE OnlyFaults
  <2>1. UNCHANGED <<mounted, sock, timer, pings, pingSet, joined, wire>>
    BY <1>3 DEF Serve, ServeList, ServeStats, ServePost, Serves
  <2>2. faults' = faults \/ Fault
    BY <1>3 DEF Serve, ServeList, ServeStats, ServePost, Refused
  <2>. QED
    BY <2>1, <2>2 DEF OnlyFaults
<1>4. ASSUME NEW s \in Slots, Reply(s) PROVE OnlyFaults
  BY <1>4 DEF Reply, socketVars, connection, OnlyFaults
<1>5. CASE Receive
  <2>1. PICK m \in Message : OnMessage(m[1], m[2])
    BY <1>5 DEF Receive
  <2>2. <<m[1], m[2]>> \in Message
    OBVIOUS
  <2>. QED
    BY <2>1, <2>2 DEF OnMessage
<1>6. CASE PollStats \/ PollList \/ Click
  BY <1>6 DEF PollStats, PollList, Click, Start, socketVars, connection, OnlyFaults
<1>7. CASE Navigate
  BY <1>7 DEF Navigate, socketVars, connection, OnlyFaults
<1>8. CASE Connection
  BY <1>8 DEF Connection
<1>9. CASE UNCHANGED vars
  BY <1>9 DEF vars, socketVars, connection, OnlyFaults
<1>. QED
  BY <1>1, <1>2, <1>3, <1>4, <1>5, <1>6, <1>7, <1>8, <1>9 DEF Next

(* A fault elsewhere leaves the connection as it is. *)
LEMMA FaultsKeep ==
  ASSUME SocketInv, OnlyFaults
  PROVE  SocketInv'
<1>1. faults' \in 0 .. MaxFaults
  BY SocketAssumption DEF SocketInv, SocketTypeOK, OnlyFaults, Fault
<1>2. SocketTypeOK'
  BY <1>1 DEF SocketInv, SocketTypeOK, OnlyFaults
<1>3. SocketSafe' /\ (pingSet' <=> sock' = "open")
  BY DEF SocketInv, SocketSafe, OnlyFaults
<1>. QED
  BY <1>2, <1>3 DEF SocketInv

(* So every step of the dashboard keeps the connection in order.           *)
LEMMA ConnectionInside == SocketInv /\ [Next]_vars => SocketInv'
<1> SUFFICES ASSUME SocketInv, [Next]_vars PROVE SocketInv'
  OBVIOUS
<1>1. CASE ConnectionStep
  BY <1>1, ConnectionKeeps, ConnectionType DEF SocketInv
<1>2. CASE Missed \/ \E m \in Message : Delivered(m) \/ Receives(m)
  BY <1>2, MessagesKeep DEF SocketInv
<1>3. CASE OnlyFaults
  BY <1>3, FaultsKeep
<1>. QED
  BY <1>1, <1>2, <1>3, DashboardStep

(* In every behaviour of the dashboard the connection makes progress or    *)
(* can: no interval leaks, no retry is forgotten, nothing survives logout. *)
THEOREM DashboardConnection == Spec => []SocketSafe
<1>1. Init => SocketInv
  BY SocketInvInit DEF Init
<1>2. SocketInv => SocketSafe
  BY DEF SocketInv
<1>. QED
  BY <1>1, <1>2, ConnectionInside, PTL DEF Spec

-----------------------------------------------------------------------------
(* The alerts that the list has to show as active: nothing is on its way   *)
(* to the browser that would show them, and no race has touched them.      *)
Waiting == Created(wire)
Due     == (Active \ raced) \ Waiting

(* A row is born, is active, and is closed for good. *)
Born   == {a \in Alerts : row[a] # "unborn"}
Closed == {a \in Alerts : row[a] \notin {"unborn", "active"}}

(* What a count may be, whether there are finitely many alerts or not.     *)
Figures == Int \cup {Cardinality(A) : A \in SUBSET Alerts}

CallSet ==
  [op : {"idle", "list", "stats"} \cup Posts, ids : SUBSET Alerts,
   rows : SUBSET [Alerts -> ListStatus], answer : SUBSET Figures]

StoreTypes ==
  /\ row \in [Alerts -> RowStatus] /\ list \in [Alerts -> ListStatus]
  /\ calls \in [Slots -> CallSet]
  /\ wire \in Seq(Message)

ShowsOnly(f, born) == \A a \in Alerts : f[a] # "absent" => a \in born

(* The reply to a call, applied at any later moment, hides none of those:  *)
(* a list has them or is full of others, "resolve all" found none, a POST  *)
(* closed its rows.                                                        *)
Harmless(c, due, born, closed) ==
  /\ c.ids \subseteq born
  /\ \A f, g \in c.rows : f = g
  /\ \A f \in c.rows : ShowsOnly(f, born)
  /\ c.op = "list" => \A f \in c.rows :
       f = NoRows \/ \A a \in due : f[a] = "active" \/ a \in CutOff(f)
  /\ c.op = "resolveAll" => \A n \in c.answer : n = Failed \/ due = {}
  /\ c.op \in Posts \ {"resolveAll", "purge"} =>
       \A n \in c.answer : n = Failed \/ c.ids \subseteq closed

Meant(w, born, closed) ==
  \A i \in DOMAIN w : w[i][2] \in born /\ (w[i][1] = "resolved" => w[i][2] \in closed)

StoreInv ==
  /\ StoreTypes
  /\ \A a \in Due : list[a] = "active"
  /\ ShowsOnly(list, Born)
  /\ Meant(wire, Born, Closed)
  /\ \A s \in Slots : Harmless(calls[s], Due, Born, Closed)

(* Fewer alerts to show, more rows born and closed: a call stays harmless. *)
LEMMA HarmlessStays ==
  ASSUME NEW c, NEW due, NEW born, NEW closed, Harmless(c, due, born, closed),
         NEW due2, NEW born2, NEW closed2,
         due2 \subseteq due, born \subseteq born2, closed \subseteq closed2
  PROVE  Harmless(c, due2, born2, closed2)
<1>1. \A f : ShowsOnly(f, born) => ShowsOnly(f, born2)
  BY DEF ShowsOnly
<1>2. due = {} => due2 = {}
  OBVIOUS
<1>. QED
  BY <1>1, <1>2 DEF Harmless

(* A call that has not been served, and none. *)
LEMMA NewCall ==
  ASSUME NEW op \in {"idle", "list", "stats"} \cup Posts, NEW ids \in SUBSET Alerts,
         NEW due, NEW born, NEW closed
  PROVE  /\ Call(op, ids) \in CallSet /\ Idle \in CallSet
         /\ ids \subseteq born => Harmless(Call(op, ids), due, born, closed)
         /\ Harmless(Idle, due, born, closed)
BY DEF Call, Idle, CallSet, Harmless, Posts

(* Only one call is changed when one is issued. *)
LEMMA CallIssued ==
  ASSUME StoreTypes, NEW op \in {"idle", "list", "stats"} \cup Posts,
         NEW ids \in SUBSET Alerts, Issue(op, ids)
  PROVE  /\ calls' \in [Slots -> CallSet]
         /\ \A s \in Slots : calls'[s] = calls[s] \/ calls'[s] = Call(op, ids)
<1>1. PICK m : calls' = [calls EXCEPT ![m] = Call(op, ids)]
  BY DEF Issue
<1>2. Call(op, ids) \in CallSet
  BY NewCall
<1>. QED
  BY <1>1, <1>2 DEF StoreTypes

(* What every step has to show. *)
LEMMA StoreKept ==
  ASSUME StoreInv, StoreTypes',
         Born \subseteq Born', Closed \subseteq Closed',
         \A a \in Due' : list'[a] = "active",
         ShowsOnly(list', Born'),
         Meant(wire', Born', Closed'),
         \A s \in Slots :
           \/ calls'[s] = calls[s] /\ Due' \subseteq Due
           \/ Harmless(calls'[s], Due', Born', Closed')
  PROVE  StoreInv'
<1>1. \A s \in Slots : Harmless(calls'[s], Due', Born', Closed')
  BY HarmlessStays DEF StoreInv
<1>. QED
  BY <1>1 DEF StoreInv

-----------------------------------------------------------------------------
(* A message that is sent is on its way, or the row is marked as raced.    *)
LEMMA Published ==
  ASSUME StoreTypes, NEW ev \in {"created", "updated", "resolved"}, NEW a \in Alerts,
         Publish(ev, a)
  PROVE  /\ wire' \in Seq(Message)
         /\ Waiting \cup raced \subseteq Waiting' \cup raced'
         /\ ev = "created" => a \in Waiting' \cup raced'
         /\ \A i \in DOMAIN wire' :
              wire'[i] = <<ev, a>> \/ \E j \in DOMAIN wire : wire'[i] = wire[j]
<1>0. wire \in Seq(Message) /\ DOMAIN wire = 1 .. Len(wire) /\ Len(wire) \in Nat
  BY LenProperties DEF StoreTypes
<1>1. CASE Delivered(<<ev, a>>) /\ UNCHANGED raced
  <2> DEFINE m == <<ev, a>>
  <2>1. m \in Message /\ m[1] = ev /\ m[2] = a
    BY DashboardAssumption
  <2>2. wire' = Append(wire, m)
    BY <1>1 DEF Delivered
  <2>. HIDE DEF m
  <2>3. /\ wire' \in Seq(Message) /\ DOMAIN wire' = 1 .. Len(wire) + 1
        /\ \A i \in 1 .. Len(wire) : wire'[i] = wire[i]
        /\ wire'[Len(wire) + 1] = m
    BY <1>0, <2>1, <2>2
  <2>4. \A i \in DOMAIN wire : i \in DOMAIN wire' /\ wire'[i] = wire[i]
    BY <1>0, <2>3
  <2>5. Waiting \subseteq Waiting'
    BY <2>4 DEF Waiting, Created
  <2>6. Len(wire) + 1 \in DOMAIN wire'
    BY <1>0, <2>3
  <2>7. ev = "created" => a \in Waiting'
    BY <2>1, <2>3, <2>6 DEF Waiting, Created
  <2>8. \A i \in DOMAIN wire' : i \in DOMAIN wire \/ i = Len(wire) + 1
    BY <1>0, <2>3
  <2>9. \A i \in DOMAIN wire' : wire'[i] = m \/ \E j \in DOMAIN wire : wire'[i] = wire[j]
    BY <2>3, <2>4, <2>8
  <2>. QED
    BY <1>1, <2>3, <2>5, <2>7, <2>9 DEF m
<1>2. CASE Missed /\ raced' = IF ev = "created" THEN raced \cup {a} ELSE raced
  <2>1. wire' = wire
    BY <1>2 DEF Missed, socketVars
  <2>2. Waiting' = Waiting
    BY <2>1 DEF Waiting
  <2>. QED
    BY <1>0, <1>2, <2>1, <2>2
<1>. QED
  BY <1>1, <1>2 DEF Publish

(* The rows change one at a time, with their message. *)
LEMMA RowStep ==
  ASSUME StoreInv, NEW a \in Alerts,
         Raise(a) \/ Touch(a) \/ AutoResolve(a) \/ ElsewhereClosed(a)
  PROVE  StoreInv'
<1>0. StoreTypes
  BY DEF StoreInv
<1>1. UNCHANGED <<list, calls>>
  BY DEF Raise, Touch, AutoResolve, ElsewhereClosed, storeVars
<1>2. PICK st \in RowStatus :
        /\ row' = [row EXCEPT ![a] = st] /\ st # "unborn"
        /\ st = "active" => row[a] = "active" \/ a \in Waiting' \cup raced'
        /\ row[a] \notin {"unborn", "active"} => st # "active"
        /\ wire' \in Seq(Message)
        /\ Waiting \cup raced \subseteq Waiting' \cup raced'
        /\ \A i \in DOMAIN wire' :
             \/ \E j \in DOMAIN wire : wire'[i] = wire[j]
             \/ wire'[i][2] = a /\ (wire'[i][1] = "resolved" => st # "active")
  <2>1. CASE Raise(a)
    <3>1. row' = [row EXCEPT ![a] = "active"] /\ row[a] = "unborn" /\ Publish("created", a)
      BY <2>1 DEF Raise
    <3>2. /\ wire' \in Seq(Message)
          /\ Waiting \cup raced \subseteq Waiting' \cup raced'
          /\ a \in Waiting' \cup raced'
          /\ \A i \in DOMAIN wire' :
               wire'[i] = <<"created", a>> \/ \E j \in DOMAIN wire : wire'[i] = wire[j]
      BY <1>0, <3>1, Published
    <3>. QED
      BY <3>1, <3>2 DEF RowStatus
  <2>2. CASE Touch(a)
    <3>1. row' = row /\ row[a] = "active" /\ Publish("updated", a)
      BY <2>2 DEF Touch
    <3>2. /\ wire' \in Seq(Message)
          /\ Waiting \cup raced \subseteq Waiting' \cup raced'
          /\ \A i \in DOMAIN wire' :
               wire'[i] = <<"updated", a>> \/ \E j \in DOMAIN wire : wire'[i] = wire[j]
      BY <1>0, <3>1, Published
    <3>3. row' = [row EXCEPT ![a] = "active"] /\ row[a] = "active"
      BY <1>0, <3>1 DEF StoreTypes
    <3>. QED
      BY <3>2, <3>3 DEF RowStatus
  <2>3. CASE AutoResolve(a)
    <3>1. row' = [row EXCEPT ![a] = "resolved"] /\ Publish("resolved", a)
      BY <2>3 DEF AutoResolve
    <3>2. /\ wire' \in Seq(Message)
          /\ Waiting \cup raced \subseteq Waiting' \cup raced'
          /\ \A i \in DOMAIN wire' :
               wire'[i] = <<"resolved", a>> \/ \E j \in DOMAIN wire : wire'[i] = wire[j]
      BY <1>0, <3>1, Published
    <3>. QED
      BY <3>1, <3>2 DEF RowStatus
  <2>4. CASE ElsewhereClosed(a)
    <3>1. PICK st \in {"held", "resolved"} : row' = [row EXCEPT ![a] = st]
      BY <2>4 DEF ElsewhereClosed
    <3>2. wire' = wire /\ raced' = raced
      BY <2>4 DEF ElsewhereClosed, socketVars
    <3>3. Waiting' = Waiting
      BY <3>2 DEF Waiting
    <3>. QED
      BY <1>0, <3>1, <3>2, <3>3 DEF RowStatus, StoreTypes
  <2>. QED
    BY <2>1, <2>2, <2>3, <2>4
<1>3. \A x \in Alerts : row'[x] = IF x = a THEN st ELSE row[x]
  BY <1>0, <1>2 DEF StoreTypes
<1>4. StoreTypes'
  BY <1>0, <1>1, <1>2 DEF StoreTypes
<1>5. Born \subseteq Born' /\ Closed \subseteq Closed' /\ a \in Born'
  BY <1>2, <1>3 DEF Born, Closed
<1>6. Due' \subseteq Due
  BY <1>2, <1>3 DEF Due, Active
<1>7. Meant(wire', Born', Closed')
  <2>1. st # "active" => a \in Closed'
    BY <1>2, <1>3 DEF Closed
  <2>2. Meant(wire, Born, Closed)
    BY DEF StoreInv
  <2>. QED
    BY <1>2, <1>5, <2>1, <2>2 DEF Meant
<1>8. (\A x \in Due' : list'[x] = "active") /\ ShowsOnly(list', Born')
  BY <1>1, <1>5, <1>6 DEF StoreInv, ShowsOnly
<1>. QED
  BY <1>1, <1>4, <1>5, <1>6, <1>7, <1>8, StoreKept

(* A message is received: the alert is put into the list, or POSTed.       *)
LEMMA MessageStep ==
  ASSUME StoreInv, Receive
  PROVE  StoreInv'
<1>0. StoreTypes /\ DOMAIN wire = 1 .. Len(wire) /\ Len(wire) \in Nat
  BY LenProperties DEF StoreInv, StoreTypes
<1>1. PICK ev \in {"created", "updated", "resolved"}, a \in Alerts :
        OnMessage(ev, a) /\ <<ev, a>> \in Message
  <2>1. PICK m \in Message : OnMessage(m[1], m[2])
    BY DEF Receive
  <2>2. m[1] \in {"created", "updated", "resolved"} /\ m[2] \in Alerts /\ <<m[1], m[2]>> \in Message
    BY DashboardAssumption
  <2>. QED
    BY <2>1, <2>2
<1>2. row' = row /\ Born' = Born /\ Closed' = Closed /\ Active' = Active
  BY <1>1 DEF OnMessage, Born, Closed, Active
<1>3. wire # << >> /\ Head(wire) = <<ev, a>> /\ wire' = Tail(wire)
  BY <1>1 DEF OnMessage, Receives
<1>4. 1 \in DOMAIN wire /\ wire[1][1] = ev /\ wire[1][2] = a
  BY <1>0, <1>3, EmptySeq DEF StoreTypes
<1>5. /\ wire' \in Seq(Message) /\ Len(wire') = Len(wire) - 1
      /\ DOMAIN wire' = 1 .. Len(wire) - 1
      /\ \A i \in 1 .. Len(wire) - 1 : wire'[i] = wire[i + 1]
  BY <1>0, <1>3, HeadTailProperties, LenProperties DEF StoreTypes
<1>6. /\ \A i \in DOMAIN wire' : i + 1 \in DOMAIN wire /\ wire'[i] = wire[i + 1]
      /\ \A i \in DOMAIN wire : i = 1 \/ (i - 1 \in DOMAIN wire' /\ wire[i] = wire'[i - 1])
  BY <1>0, <1>5
<1>7. Waiting \subseteq Waiting' \cup {a} /\ (ev = "resolved" => Waiting \subseteq Waiting')
  BY <1>4, <1>6 DEF Waiting, Created
<1>8. a \in Born /\ (ev = "resolved" => a \in Closed) /\ Meant(wire', Born', Closed')
  BY <1>2, <1>4, <1>6 DEF StoreInv, Meant
<1>9. /\ raced' = IF Busy({"list", "resolveAll"}) THEN raced \cup {a} ELSE raced \ {a}
      /\ IF ev = "resolved"
         THEN Issue("resolve", {a}) /\ UNCHANGED list
         ELSE Issue("stats", {}) /\ list' = [list EXCEPT ![a] = "active"]
  BY <1>1 DEF OnMessage, AddAlert
<1>10. PICK op \in {"resolve", "stats"}, ids \in SUBSET {a} : Issue(op, ids)
  BY <1>9
<1>11. /\ calls' \in [Slots -> CallSet]
       /\ \A s \in Slots : calls'[s] = calls[s] \/ Harmless(calls'[s], Due', Born', Closed')
  <2>1. op \in {"idle", "list", "stats"} \cup Posts /\ ids \in SUBSET Alerts
    BY DEF Posts
  <2>2. /\ calls' \in [Slots -> CallSet]
        /\ \A s \in Slots : calls'[s] = calls[s] \/ calls'[s] = Call(op, ids)
    BY <1>0, <1>10, <2>1, CallIssued
  <2>3. Harmless(Call(op, ids), Due', Born', Closed')
    BY <1>2, <1>8, <2>1, NewCall
  <2>. QED
    BY <2>2, <2>3
<1>12. /\ list' \in [Alerts -> ListStatus] /\ ShowsOnly(list', Born')
       /\ \A x \in Alerts : list'[x] = list[x] \/ (x = a /\ list'[x] = "active")
  BY <1>0, <1>2, <1>8, <1>9 DEF StoreTypes, StoreInv, ShowsOnly, ListStatus
<1>13. StoreTypes'
  BY <1>0, <1>2, <1>5, <1>11, <1>12 DEF StoreTypes
<1>14. CASE ev = "resolved" \/ Busy({"list", "resolveAll"})
  <2>1. Due' \subseteq Due
    <3>1. CASE ev = "resolved"
      <4>1. a \notin Active
        BY <1>8, <3>1 DEF Closed, Active
      <4>. QED
        BY <1>2, <1>7, <1>9, <3>1, <4>1 DEF Due
    <3>2. CASE Busy({"list", "resolveAll"})
      BY <1>2, <1>7, <1>9, <3>2 DEF Due
    <3>. QED
      BY <1>14, <3>1, <3>2
  <2>2. \A x \in Due' : x \in Alerts
    BY DEF Due, Active
  <2>3. \A x \in Due' : list'[x] = "active"
    BY <1>12, <2>1, <2>2 DEF StoreInv
  <2>. QED
    BY <1>2, <1>8, <1>11, <1>12, <1>13, <2>1, <2>3, StoreKept
<1>15. CASE ev # "resolved" /\ ~Busy({"list", "resolveAll"})
  <2>1. Due' \subseteq Due \cup {a}
    BY <1>2, <1>7, <1>9, <1>15 DEF Due
  <2>2. \A x \in Due' : list'[x] = "active"
    <3>1. list'[a] = "active"
      BY <1>0, <1>9, <1>15 DEF StoreTypes
    <3>2. \A x \in Due' : x \in Alerts
      BY DEF Due, Active
    <3>. QED
      BY <1>12, <2>1, <3>1, <3>2 DEF StoreInv
  <2>3. ASSUME NEW s \in Slots PROVE Harmless(calls[s], Due', Born, Closed)
    <3>1. calls[s].op \notin {"list", "resolveAll"}
      BY <1>15 DEF Busy
    <3>2. Harmless(calls[s], Due, Born, Closed)
      BY DEF StoreInv
    <3>. QED
      BY <3>1, <3>2 DEF Harmless
  <2>4. \A s \in Slots : Harmless(calls'[s], Due', Born', Closed')
    BY <1>2, <1>11, <2>3
  <2>. QED
    BY <1>2, <1>8, <1>12, <1>13, <2>2, <2>4, StoreKept
<1>. QED
  BY <1>14, <1>15

(* A first page has every active row, or is full of active rows and counts *)
(* the others as cut off.                                                  *)
LEMMA PageShowsActive ==
  ASSUME NEW A, OnFirstPage(A), NEW a \in Active
  PROVE  Only(A)[a] = "active" \/ a \in CutOff(Only(A))
<1> DEFINE f == Only(A)
<1>1. /\ a \in Alerts /\ Active \subseteq Present /\ Present \subseteq Alerts
      /\ A \subseteq Alerts
  BY DEF OnFirstPage, Present, Active, Table, InTable
<1>2. CASE a \in A
  BY <1>1, <1>2 DEF Only, Table, InTable, Active
<1>3. CASE a \notin A
  <2>1. A \subseteq Active
    BY <1>3 DEF OnFirstPage
  <2>2. {x \in Alerts : f[x] = "active"} = A
    BY <1>1, <2>1 DEF Only, Table, InTable, Active
  <2>3. Cardinality(A) < Cardinality(Present) /\ Cardinality(Present) \in Nat
    <3>1. IsFiniteSet(Present)
      BY <1>1, DashboardAssumption, FS_Subset
    <3>2. A \subseteq Present /\ a \in Present \ A
      BY <1>1, <1>3 DEF OnFirstPage
    <3>3. Cardinality(A) <= Cardinality(Present) /\ IsFiniteSet(A)
          /\ (Cardinality(A) = Cardinality(Present) => A = Present)
      BY <3>1, <3>2, FS_Subset
    <3>4. Cardinality(A) \in Nat /\ Cardinality(Present) \in Nat
      BY <3>1, <3>3, FS_CardinalityType
    <3>5. A # Present
      BY <3>2
    <3>. QED
      BY <3>3, <3>4, <3>5
  <2>4. Cardinality(A) \in {PageSize, Cardinality(Present)}
    <3> DEFINE n == Cardinality(Present)
               S == {PageSize, n}
    <3>1. n \in Nat /\ PageSize \in Nat
      BY <1>1, DashboardAssumption, FS_Subset, FS_CardinalityType
    <3>2. \E x \in S : \A y \in S : x <= y
      BY <3>1
    <3>3. (CHOOSE x \in S : \A y \in S : x <= y) \in S
      <4> HIDE DEF S
      <4>. QED
        BY <3>2
    <3>. QED
      BY <3>3 DEF OnFirstPage, Min
  <2>5. Cardinality(A) = PageSize /\ PageSize \in Nat
    BY <2>3, <2>4, DashboardAssumption
  <2>6. f[a] = "absent"
    BY <1>1, <1>3 DEF Only
  <2>. QED
    BY <1>1, <2>2, <2>5, <2>6 DEF CutOff
<1>. QED
  BY <1>2, <1>3

(* A call is served. *)
LEMMA ServeStep ==
  ASSUME StoreInv, NEW s \in Slots, Serve(s)
  PROVE  StoreInv'
<1> DEFINE c == calls[s]
<1>0. StoreTypes /\ c \in CallSet /\ Harmless(c, Due, Born, Closed)
  BY DEF StoreInv, StoreTypes
<1>1. UNCHANGED <<wire, list, raced>> /\ Waiting' = Waiting
  BY DEF Serve, ServeList, ServeStats, ServePost, Serves, Waiting
<1>2. CASE ServeList(s)
  <2>1. PICK f \in FirstPages \cup {NoRows} : calls' = [calls EXCEPT ![s].rows = {f}]
    BY <1>2 DEF ServeList, Serves
  <2>2. /\ row' = row /\ Born' = Born /\ Closed' = Closed /\ Due' = Due
    BY <1>1, <1>2 DEF ServeList, Born, Closed, Due, Active
  <2>3. f \in [Alerts -> ListStatus] /\ ShowsOnly(f, Born)
    BY <1>0 DEF FirstPages, Only, Table, NoRows, InTable, StoreTypes, RowStatus, ListStatus,
                ShowsOnly, Born
  <2>4. [c EXCEPT !.rows = {f}] \in CallSet
    BY <1>0, <2>3 DEF CallSet
  <2>5. Harmless([c EXCEPT !.rows = {f}], Due, Born, Closed)
    <3>1. f = NoRows \/ \A a \in Due : f[a] = "active" \/ a \in CutOff(f)
      BY PageShowsActive DEF FirstPages, Due
    <3>2. c.op = "list"
      BY <1>2 DEF ServeList
    <3>. QED
      BY <1>0, <2>3, <3>1, <3>2 DEF Harmless, CallSet, Posts
  <2>6. /\ calls' \in [Slots -> CallSet]
        /\ \A x \in Slots : calls'[x] = calls[x] \/ calls'[x] = [c EXCEPT !.rows = {f}]
    BY <1>0, <2>1, <2>4 DEF StoreTypes
  <2>7. StoreTypes'
    BY <1>0, <1>1, <2>2, <2>6 DEF StoreTypes
  <2>. QED
    BY <1>1, <2>2, <2>5, <2>6, <2>7, StoreKept DEF StoreInv
<1>3. CASE ServeStats(s)
  <2>1. PICK n \in Figures : calls' = [calls EXCEPT ![s].answer = {n}]
    <3>1. Active \in SUBSET Alerts
      BY DEF Active
    <3>2. Cardinality(Active) \in Figures /\ Failed \in Figures
      BY <3>1 DEF Figures, Failed
    <3>. QED
      BY <1>3, <3>2 DEF ServeStats, Serves
  <2>2. /\ row' = row /\ Born' = Born /\ Closed' = Closed /\ Due' = Due
    BY <1>1, <1>3 DEF ServeStats, Born, Closed, Due, Active
  <2>3. [c EXCEPT !.answer = {n}] \in CallSet
    BY <1>0, <2>1 DEF CallSet
  <2>4. Harmless([c EXCEPT !.answer = {n}], Due, Born, Closed)
    <3>1. c.op = "stats"
      BY <1>3 DEF ServeStats
    <3>. QED
      BY <1>0, <3>1 DEF Harmless, CallSet, Posts
  <2>5. /\ calls' \in [Slots -> CallSet]
        /\ \A x \in Slots : calls'[x] = calls[x] \/ calls'[x] = [c EXCEPT !.answer = {n}]
    BY <1>0, <2>1, <2>3 DEF StoreTypes
  <2>6. StoreTypes'
    BY <1>0, <1>1, <2>2, <2>5 DEF StoreTypes
  <2>. QED
    BY <1>1, <2>2, <2>4, <2>5, <2>6, StoreKept DEF StoreInv
<1>4. CASE ServePost(s)
  <2> DEFINE hit == Targets(c)
  <2>1. PICK n \in Figures :
          /\ calls' = [calls EXCEPT ![s].answer = {n}]
          /\ \/ n = Failed /\ row' = row
             \/ row' = [a \in Alerts |-> IF a \in hit THEN NewStatus(c.op) ELSE row[a]]
    BY <1>4 DEF ServePost, Serves, Failed, Figures
  <2>2. c.op \in Posts /\ NewStatus(c.op) \in {"held", "resolved", "purged"}
    BY <1>4 DEF ServePost, NewStatus
  <2>3. /\ row' \in [Alerts -> RowStatus]
        /\ \A a \in Alerts : row'[a] = row[a] \/ row'[a] \in {"held", "resolved", "purged"}
    BY <1>0, <2>1, <2>2 DEF StoreTypes, RowStatus
  <2>4. Born \subseteq Born' /\ Closed \subseteq Closed' /\ Due' \subseteq Due
    BY <1>1, <2>3 DEF Born, Closed, Due, Active
  <2>5. [c EXCEPT !.answer = {n}] \in CallSet
    BY <1>0, <2>1 DEF CallSet
  <2>6. Harmless([c EXCEPT !.answer = {n}], Due', Born', Closed')
    <3>1. c.op = "resolveAll" => n = Failed \/ Due' = {}
      <4>1. c.op = "resolveAll" /\ n # Failed => \A a \in Alerts : row'[a] # "active"
        BY <2>1, <2>2 DEF Targets
      <4>. QED
        BY <4>1 DEF Due, Active
    <3>2. c.op \in Posts \ {"resolveAll", "purge"} => n = Failed \/ c.ids \subseteq Closed'
      <4> SUFFICES ASSUME c.op \in Posts \ {"resolveAll", "purge"}, n # Failed, NEW a \in c.ids
                   PROVE  a \in Closed'
        OBVIOUS
      <4>1. a \in Alerts /\ row[a] # "unborn"
        BY <1>0 DEF Harmless, Born, CallSet
      <4>2. a \in hit \/ row[a] = "purged"
        <5>1. row[a] \in RowStatus
          BY <1>0, <4>1 DEF StoreTypes
        <5>2. row[a] = "purged" \/ InTable(row[a]) # "absent"
          BY <4>1, <5>1 DEF InTable, RowStatus
        <5>. QED
          BY <4>1, <5>2 DEF Targets
      <4>3. row'[a] \in {"held", "resolved", "purged"}
        BY <2>1, <2>2, <4>1, <4>2
      <4>. QED
        BY <4>1, <4>3 DEF Closed
    <3>3. Harmless(c, Due', Born', Closed')
      BY <1>0, <2>4, HarmlessStays
    <3>. QED
      BY <1>0, <2>2, <3>1, <3>2, <3>3 DEF Harmless, CallSet, Posts
  <2>7. /\ calls' \in [Slots -> CallSet]
        /\ \A x \in Slots : calls'[x] = calls[x] \/ calls'[x] = [c EXCEPT !.answer = {n}]
    BY <1>0, <2>1, <2>5 DEF StoreTypes
  <2>8. StoreTypes'
    BY <1>0, <1>1, <2>3, <2>7 DEF StoreTypes
  <2>9. (\A a \in Due' : list'[a] = "active") /\ ShowsOnly(list', Born') /\ Meant(wire', Born', Closed')
    BY <1>1, <2>4 DEF StoreInv, ShowsOnly, Meant
  <2>. QED
    BY <2>4, <2>6, <2>7, <2>8, <2>9, StoreKept
<1>. QED
  BY <1>2, <1>3, <1>4 DEF Serve

(* A reply is taken: a list, a count, or the end of a POST.                *)
LEMMA ReplyStep ==
  ASSUME StoreInv, NEW s \in Slots, Reply(s)
  PROVE  StoreInv'
<1> DEFINE c == calls[s]
<1>0. StoreTypes /\ c \in CallSet /\ Harmless(c, Due, Born, Closed)
  BY DEF StoreInv, StoreTypes
<1>1. /\ row' = row /\ wire' = wire
      /\ Born' = Born /\ Closed' = Closed /\ Active' = Active /\ Waiting' = Waiting
  BY DEF Reply, socketVars, Born, Closed, Active, Waiting
<1>2. Meant(wire', Born', Closed')
  BY <1>1 DEF StoreInv
<1>3. PICK next \in {Idle, Call("stats", {})} : calls' = [calls EXCEPT ![s] = next]
  BY DEF Reply, ListReply, StatsReply, PostReply, Finish
<1>4. /\ calls' \in [Slots -> CallSet]
      /\ \A x \in Slots : calls'[x] = calls[x] \/ Harmless(calls'[x], Due', Born', Closed')
  <2>1. next \in CallSet /\ Harmless(next, Due', Born', Closed')
    BY <1>3, NewCall DEF Posts
  <2>. QED
    BY <1>0, <1>3, <2>1 DEF StoreTypes
<1>5. \A a \in Due : a \in Alerts /\ row[a] = "active" /\ list[a] = "active"
  BY DEF Due, Active, StoreInv
<1>6. /\ Due' \subseteq Due
      /\ list' \in [Alerts -> ListStatus]
      /\ \A a \in Due' : list'[a] = "active"
      /\ ShowsOnly(list', Born)
  <2>1. CASE ListReply(s)
    <3>1. PICK f \in c.rows :
            list' = f /\ raced' = IF f = NoRows THEN Active ELSE raced \cup CutOff(f)
      BY <2>1 DEF ListReply, TakeRows
    <3>2. f \in [Alerts -> ListStatus] /\ ShowsOnly(f, Born)
      BY <1>0, <3>1 DEF CallSet, Harmless
    <3>4. CASE f = NoRows
      <4>1. Due' = {}
        BY <1>1, <3>1, <3>4 DEF Due
      <4>. QED
        BY <3>1, <3>2, <4>1
    <3>5. CASE f # NoRows
      <4>1. \A a \in Due : f[a] = "active" \/ a \in CutOff(f)
        BY <1>0, <2>1, <3>1, <3>5 DEF ListReply, Harmless
      <4>2. Due' = Due \ CutOff(f)
        BY <1>1, <3>1, <3>5 DEF Due
      <4>. QED
        BY <3>1, <3>2, <4>1, <4>2
    <3>. QED
      BY <3>4, <3>5
  <2>2. CASE StatsReply(s)
    <3>1. list' = list /\ raced' = raced
      BY <2>2 DEF StatsReply
    <3>2. Due' = Due
      BY <1>1, <3>1 DEF Due
    <3>. QED
      BY <1>0, <3>1, <3>2 DEF StoreTypes, StoreInv
  <2>3. CASE PostReply(s)
    <3>1. c.op \in Posts /\ Answered(s) /\ raced' = raced
      BY <2>3 DEF PostReply
    <3>2. Due' = Due
      BY <1>1, <3>1 DEF Due
    <3>3. CASE UNCHANGED list
      BY <1>0, <3>2, <3>3 DEF StoreTypes, StoreInv
    <3>4. CASE /\ Answer(s) # Failed
               /\ list' = [a \in Alerts |-> IF a \in Shown(c) THEN InTable(NewStatus(c.op)) ELSE list[a]]
      <4>1. InTable(NewStatus(c.op)) \in ListStatus
        BY <3>1 DEF InTable, NewStatus, ListStatus
      <4>2. list' \in [Alerts -> ListStatus]
        BY <1>0, <3>4, <4>1 DEF StoreTypes
      <4>3. \A a \in Shown(c) : a \in Born
        <5>1. \A a \in Shown(c) : a \in Alerts /\ list[a] # "absent"
          BY <1>0 DEF Shown, CallSet
        <5>. QED
          BY <5>1 DEF StoreInv, ShowsOnly
      <4>4. ShowsOnly(list', Born)
        BY <3>4, <4>3 DEF StoreInv, ShowsOnly
      <4>5. Answer(s) \in c.answer
        BY <3>1 DEF Answered, Answer
      <4>6. ASSUME NEW a \in Due PROVE a \notin Shown(c)
        <5>1. CASE c.op = "resolveAll"
          BY <1>0, <3>4, <4>5, <4>6, <5>1 DEF Harmless
        <5>2. CASE c.op = "purge"
          BY <1>5, <4>6, <5>2 DEF Shown
        <5>3. CASE c.op \notin {"resolveAll", "purge"}
          <6>1. c.ids \subseteq Closed
            BY <1>0, <3>1, <3>4, <4>5, <5>3 DEF Harmless
          <6>2. a \notin Closed
            BY <1>5, <4>6 DEF Closed
          <6>. QED
            BY <5>3, <6>1, <6>2 DEF Shown
        <5>. QED
          BY <5>1, <5>2, <5>3
      <4>7. \A a \in Due : list'[a] = "active"
        BY <1>5, <3>4, <4>6
      <4>. QED
        BY <3>2, <4>2, <4>4, <4>7
    <3>. QED
      BY <2>3, <3>3, <3>4 DEF PostReply
  <2>. QED
    BY <2>1, <2>2, <2>3 DEF Reply
<1>7. StoreTypes'
  BY <1>0, <1>1, <1>4, <1>6 DEF StoreTypes
<1>. QED
  BY <1>1, <1>2, <1>4, <1>6, <1>7, StoreKept

(* A timer fires, or the user clicks. *)
LEMMA StartStep ==
  ASSUME StoreInv, PollStats \/ PollList \/ Click
  PROVE  StoreInv'
<1>0. StoreTypes
  BY DEF StoreInv
<1>1. PICK op \in {"list", "stats"} \cup Posts, ids \in SUBSET Born : Start(op, ids)
  <2>1. CASE PollStats \/ PollList
    <3>1. {} \in SUBSET Born
      OBVIOUS
    <3>. QED
      BY <2>1, <3>1 DEF PollStats, PollList
  <2>2. CASE Click
    <3>1. \A A \in SUBSET {a \in Alerts : list[a] # "absent"} : A \in SUBSET Born
      BY DEF StoreInv, ShowsOnly
    <3>2. CASE \E a \in Alerts, op \in Single : list[a] \in {"active", "held"} /\ Start(op, {a})
      <4>1. PICK a \in Alerts, op \in Single : list[a] \in {"active", "held"} /\ Start(op, {a})
        BY <3>2
      <4>2. {a} \in SUBSET Born
        BY <3>1, <4>1
      <4>3. op \in Posts
        BY DEF Single, Posts
      <4>. QED
        BY <4>1, <4>2, <4>3
    <3>3. CASE \E A \in SUBSET {a \in Alerts : list[a] # "absent"}, op \in {"bulkResolve", "bulkHold"} :
                 A # {} /\ Start(op, A)
      <4>1. PICK A \in SUBSET {a \in Alerts : list[a] # "absent"}, op \in {"bulkResolve", "bulkHold"} :
              A # {} /\ Start(op, A)
        BY <3>3
      <4>2. op \in Posts
        BY DEF Posts
      <4>. QED
        BY <3>1, <4>1, <4>2
    <3>4. CASE Start("resolveAll", {}) \/ Start("purge", {})
      <4>1. {} \in SUBSET Born /\ "resolveAll" \in Posts /\ "purge" \in Posts
        BY DEF Posts
      <4>. QED
        BY <3>4, <4>1
    <3>. QED
      BY <2>2, <3>2, <3>3, <3>4 DEF Click
  <2>. QED
    BY <2>1, <2>2
<1>2. /\ UNCHANGED <<row, list, raced, wire>> /\ Issue(op, ids)
      /\ Born' = Born /\ Closed' = Closed /\ Due' = Due
  BY <1>1 DEF Start, socketVars, Born, Closed, Due, Active, Waiting
<1>3. ids \in SUBSET Alerts /\ op \in {"idle", "list", "stats"} \cup Posts
  BY <1>1 DEF Born
<1>4. /\ calls' \in [Slots -> CallSet]
      /\ \A s \in Slots : calls'[s] = calls[s] \/ calls'[s] = Call(op, ids)
  BY <1>0, <1>2, <1>3, CallIssued
<1>5. Harmless(Call(op, ids), Due', Born', Closed')
  BY <1>1, <1>2, <1>3, NewCall
<1>6. StoreTypes'
  BY <1>0, <1>2, <1>4 DEF StoreTypes
<1>. QED
  BY <1>2, <1>4, <1>5, <1>6, StoreKept DEF StoreInv

(* The connection, with what it drops, and the pages. *)
LEMMA OtherStep ==
  ASSUME StoreInv, Connection \/ Navigate \/ UNCHANGED vars
  PROVE  StoreInv'
<1>0. StoreTypes
  BY DEF StoreInv
<1>1. UNCHANGED <<row, list, calls>> /\ Born' = Born /\ Closed' = Closed /\ Active' = Active
  BY DEF Connection, Navigate, vars, storeVars, Born, Closed, Active
<1>2. wire' = wire \/ wire' = << >>
  BY DEF Connection, ConnectionStep, Mount, Unmount, Opens, Closes, Retry, HubForgets,
         Navigate, vars, socketVars
<1>3. wire' \in Seq(Message) /\ Meant(wire', Born', Closed')
  <2>1. CASE wire' = wire
    BY <1>0, <1>1, <2>1 DEF StoreTypes, StoreInv
  <2>2. CASE wire' = << >>
    BY <2>2 DEF Meant
  <2>. QED
    BY <1>2, <2>1, <2>2
<1>4. Due' \subseteq Due
  <2>1. CASE wire' = wire /\ raced' = raced
    BY <1>1, <2>1 DEF Due, Waiting
  <2>2. CASE raced' = raced \cup Created(wire)
    BY <1>1, <2>2 DEF Due, Waiting
  <2>. QED
    BY <2>1, <2>2 DEF Connection, Navigate, vars, socketVars
<1>5. StoreTypes'
  BY <1>0, <1>1, <1>3 DEF StoreTypes
<1>. QED
  BY <1>1, <1>3, <1>4, <1>5, StoreKept DEF StoreInv

(* The first list is under way and all active rows count as raced. *)
LEMMA StoreStart == Init => StoreInv
<1> SUFFICES ASSUME Init PROVE StoreInv
  OBVIOUS
<1>1. wire = << >> /\ list = NoRows /\ Due = {}
  BY DEF Init, SocketInit, Due
<1>2. row \in [Alerts -> RowStatus] /\ NoRows \in [Alerts -> ListStatus]
  BY DEF Init, RowStatus, NoRows, ListStatus
<1>3. Call("list", {}) \in CallSet /\ Idle \in CallSet
  BY NewCall
<1>4. calls \in [Slots -> CallSet]
  BY <1>3 DEF Init
<1>5. StoreTypes
  <2>1. wire \in Seq(Message)
    BY <1>1
  <2>. QED
    BY <1>1, <1>2, <1>4, <2>1 DEF StoreTypes
<1>6. \A s \in Slots : Harmless(calls[s], Due, Born, Closed)
  <2>1. Harmless(Call("list", {}), Due, Born, Closed) /\ Harmless(Idle, Due, Born, Closed)
    BY NewCall
  <2>. QED
    BY <2>1 DEF Init
<1>7. ShowsOnly(list, Born) /\ Meant(wire, Born, Closed)
  BY <1>1 DEF ShowsOnly, NoRows, Meant
<1>. QED
  BY <1>1, <1>5, <1>6, <1>7 DEF StoreInv

(* Every step keeps what is shown in order. *)
LEMMA StoreStep == StoreInv /\ [Next]_vars => StoreInv'
<1> SUFFICES ASSUME StoreInv, [Next]_vars PROVE StoreInv'
  OBVIOUS
<1>1. ASSUME NEW a \in Alerts, Raise(a) \/ Touch(a) \/ AutoResolve(a) \/ ElsewhereClosed(a)
      PROVE  StoreInv'
  BY <1>1, RowStep
<1>2. ASSUME NEW s \in Slots, Serve(s) \/ Reply(s) PROVE StoreInv'
  BY <1>2, ServeStep, ReplyStep
<1>3. CASE Receive
  BY <1>3, MessageStep
<1>4. CASE PollStats \/ PollList \/ Click
  BY <1>4, StartStep
<1>5. CASE Navigate \/ Connection \/ UNCHANGED vars
  BY <1>5, OtherStep
<1>. QED
  BY <1>1, <1>2, <1>3, <1>4, <1>5 DEF Next

(* Whatever the user does and in whatever order messages, replies and      *)
(* polls come, an active alert whose last message was received is shown    *)
(* active, unless a whole fetch or a "resolve all" was under way then or a *)
(* fetched page was full of other active alerts.  For any number of alerts *)
(* and any limit of the page, of calls under way and of faults.            *)
THEOREM OnlyRacesHideAlerts == Spec => []OnlyRacesHide
<1>1. StoreInv => OnlyRacesHide
  BY DEF StoreInv, OnlyRacesHide, Due, Waiting, Created
<1>. QED
  BY <1>1, StoreStep, StoreStart, PTL DEF Spec

-----------------------------------------------------------------------------
(* The types of the rest: the badge is fetched, counted up and down and    *)
(* polled, and never leaves its range.                                     *)

(* A count that the backend serves counts some of the alerts. *)
LEMMA CountsFit == Cardinality(Active) \in 0 .. MaxBadge
<1>1. IsFiniteSet(Alerts) /\ Active \subseteq Alerts
  BY DashboardAssumption DEF Active
<1>2. IsFiniteSet(Active) /\ Cardinality(Active) <= Cardinality(Alerts)
  BY <1>1, FS_Subset
<1>3. Cardinality(Active) \in Nat /\ Cardinality(Alerts) \in Nat
  BY <1>1, <1>2, FS_CardinalityType
<1>. QED
  BY <1>2, <1>3, DashboardAssumption

(* Counting stops at the bound and at 0. *)
LEMMA BadgeFits ==
  ASSUME NEW n \in 0 .. MaxBadge
  PROVE  Up(n) \in 0 .. MaxBadge /\ Down(n) \in 0 .. MaxBadge
<1> USE DashboardAssumption
<1>1. Up(n) = IF n + 1 <= MaxBadge THEN n + 1 ELSE MaxBadge
  <2> DEFINE S == {MaxBadge, n + 1}
             m == IF n + 1 <= MaxBadge THEN n + 1 ELSE MaxBadge
  <2>1. m \in S /\ \A y \in S : m <= y
    OBVIOUS
  <2>2. \A x \in S : (\A y \in S : x <= y) => x = m
    OBVIOUS
  <2>3. (CHOOSE x \in S : \A y \in S : x <= y) = m
    <3> HIDE DEF S, m
    <3>. QED
      BY <2>1, <2>2
  <2>. QED
    BY <2>3 DEF Up, Min
<1>2. Down(n) = IF n - 1 >= 0 THEN n - 1 ELSE 0
  <2> DEFINE S == {0, n - 1}
             m == IF n - 1 >= 0 THEN n - 1 ELSE 0
  <2>1. m \in S /\ \A y \in S : m >= y
    OBVIOUS
  <2>2. \A x \in S : (\A y \in S : x >= y) => x = m
    OBVIOUS
  <2>3. (CHOOSE x \in S : \A y \in S : x >= y) = m
    <3> HIDE DEF S, m
    <3>. QED
      BY <2>1, <2>2
  <2>. QED
    BY <2>3 DEF Down, Max
<1>. QED
  BY <1>1, <1>2

(* What the invariants above leave open of the types. *)
Figured ==
  /\ badge \in 0 .. MaxBadge
  /\ \A s \in Slots : calls[s].answer \subseteq Failed .. MaxBadge
  /\ raced \subseteq Alerts
  /\ page \in BOOLEAN
  /\ moves \in 0 .. MaxMoves

DashboardInv == SocketInv /\ StoreInv /\ Figured

(* An issued call has no answer yet. *)
LEMMA IssuedFits ==
  ASSUME DashboardInv, NEW op \in {"idle", "list", "stats"} \cup Posts,
         NEW ids \in SUBSET Alerts, Issue(op, ids)
  PROVE  \A s \in Slots : calls'[s].answer \subseteq Failed .. MaxBadge
<1>1. \A s \in Slots : calls'[s] = calls[s] \/ calls'[s] = Call(op, ids)
  BY CallIssued DEF DashboardInv, StoreInv
<1>2. Call(op, ids).answer = {}
  BY DEF Call
<1>. QED
  BY <1>1, <1>2 DEF DashboardInv, Figured

(* A bounded move. *)
LEMMA MovesFit == Figured /\ (Move \/ UNCHANGED moves) => moves' \in 0 .. MaxMoves
BY DashboardAssumption DEF Figured, Move

(* The rows change. *)
LEMMA FiguredRows ==
  ASSUME DashboardInv, NEW a \in Alerts,
         Raise(a) \/ Touch(a) \/ AutoResolve(a) \/ ElsewhereClosed(a)
  PROVE  Figured'
<1>1. UNCHANGED <<page, list, badge, calls>>
  BY DEF Raise, Touch, AutoResolve, ElsewhereClosed, storeVars
<1>2. raced' \subseteq Alerts
  BY DEF Raise, Touch, AutoResolve, ElsewhereClosed, Publish, DashboardInv, Figured
<1>3. Move \/ UNCHANGED moves
  BY DEF Raise, Touch, AutoResolve, ElsewhereClosed
<1>. QED
  BY <1>1, <1>2, <1>3, MovesFit DEF DashboardInv, Figured

(* One call gets its rows or its answer. *)
LEMMA FiguredServed ==
  ASSUME DashboardInv, NEW s \in Slots, NEW field \in {"rows", "answer"}, NEW v,
         Serves(s, field, v), field = "answer" => v \in Failed .. MaxBadge
  PROVE  Figured'
<1>1. UNCHANGED <<page, badge, raced, moves>>
  BY DEF Serves
<1>2. calls \in [Slots -> CallSet] /\ calls' = [calls EXCEPT ![s][field] = {v}]
  BY DEF DashboardInv, StoreInv, StoreTypes, Serves
<1>3. ASSUME NEW t \in Slots PROVE calls'[t].answer \subseteq Failed .. MaxBadge
  <2>1. t # s => calls'[t] = calls[t]
    BY <1>2
  <2>2. calls'[s].answer = IF field = "answer" THEN {v} ELSE calls[s].answer
    BY <1>2 DEF CallSet
  <2>. QED
    BY <2>1, <2>2 DEF DashboardInv, Figured
<1>. QED
  BY <1>1, <1>3 DEF DashboardInv, Figured

(* A call is served: with the rows, a count, or a failure. *)
LEMMA FiguredServe ==
  ASSUME DashboardInv, NEW s \in Slots, Serve(s)
  PROVE  Figured'
<1>1. 0 \in Failed .. MaxBadge /\ Failed \in Failed .. MaxBadge
      /\ Cardinality(Active) \in Failed .. MaxBadge
  BY CountsFit, DashboardAssumption DEF Failed
<1>2. CASE ServeList(s)
  BY <1>2, FiguredServed DEF ServeList
<1>3. CASE ServeStats(s)
  BY <1>1, <1>3, FiguredServed DEF ServeStats
<1>4. CASE ServePost(s)
  BY <1>1, <1>4, FiguredServed DEF ServePost
<1>. QED
  BY <1>2, <1>3, <1>4 DEF Serve

(* A reply changes the badge by its figure, by one, or to 0. *)
LEMMA FiguredReply ==
  ASSUME DashboardInv, NEW s \in Slots, Reply(s)
  PROVE  Figured'
<1>1. UNCHANGED <<page, moves>>
  BY DEF Reply
<1>2. calls \in [Slots -> CallSet]
  BY DEF DashboardInv, StoreInv, StoreTypes
<1>3. raced' \subseteq Alerts
  BY DEF Reply, ListReply, CutOff, StatsReply, PostReply, DashboardInv, Figured, Active
<1>4. ASSUME NEW t \in Slots PROVE calls'[t].answer \subseteq Failed .. MaxBadge
  <2>1. PICK c : c.answer = {} /\ calls' = [calls EXCEPT ![s] = c]
    <3>1. Idle.answer = {} /\ Call("stats", {}).answer = {}
      BY DEF Idle, Call
    <3>. QED
      BY <3>1 DEF Reply, ListReply, StatsReply, PostReply, Finish
  <2>2. calls'[t] = calls[t] \/ calls'[t] = c
    BY <1>2, <2>1
  <2>. QED
    BY <2>1, <2>2 DEF DashboardInv, Figured
<1>5. Answered(s) => Answer(s) \in Failed .. MaxBadge
  <2>1. Answered(s) => Answer(s) \in calls[s].answer
    BY DEF Answered, Answer
  <2>. QED
    BY <2>1 DEF DashboardInv, Figured
<1>6. badge \in 0 .. MaxBadge
  BY DEF DashboardInv, Figured
<1>7. badge' \in 0 .. MaxBadge
  <2>1. CASE ListReply(s)
    BY <1>6, <2>1 DEF ListReply
  <2>2. CASE StatsReply(s)
    <3>1. Answer(s) \in Failed .. MaxBadge /\ badge' = IF Answer(s) = Failed THEN badge ELSE Answer(s)
      BY <1>5, <2>2 DEF StatsReply, TakeCount
    <3>. QED
      BY <1>6, <3>1, DashboardAssumption DEF Failed
  <2>3. CASE PostReply(s)
    <3>1. badge' = badge \/ badge' = Down(badge) \/ badge' = 0
      BY <2>3 DEF PostReply
    <3>. QED
      BY <1>6, <3>1, BadgeFits, DashboardAssumption
  <2>. QED
    BY <2>1, <2>2, <2>3 DEF Reply
<1>. QED
  BY <1>1, <1>3, <1>4, <1>7 DEF Figured, DashboardInv

(* A message counts the badge up and issues a call. *)
LEMMA FiguredMessage ==
  ASSUME DashboardInv, Receive
  PROVE  Figured'
<1>1. PICK m \in Message : OnMessage(m[1], m[2])
  BY DEF Receive
<1>2. m[2] \in Alerts
  BY DashboardAssumption
<1>3. \E op \in {"idle", "list", "stats"} \cup Posts, ids \in SUBSET Alerts : Issue(op, ids)
  BY <1>1, <1>2 DEF OnMessage, Posts
<1>4. badge' = badge \/ badge' = Up(badge)
  BY <1>1 DEF OnMessage
<1>5. badge' \in 0 .. MaxBadge
  BY <1>4, BadgeFits DEF DashboardInv, Figured
<1>6. raced' \subseteq Alerts
  BY <1>1, <1>2 DEF OnMessage, DashboardInv, Figured
<1>7. UNCHANGED <<page, moves>>
  BY <1>1 DEF OnMessage
<1>8. \A s \in Slots : calls'[s].answer \subseteq Failed .. MaxBadge
  BY <1>3, IssuedFits
<1>. QED
  BY <1>5, <1>6, <1>7, <1>8 DEF DashboardInv, Figured

(* The timers and the user issue calls. *)
LEMMA FiguredStart ==
  ASSUME DashboardInv, PollStats \/ PollList \/ Click
  PROVE  Figured'
<1>1. PICK op \in {"idle", "list", "stats"} \cup Posts, ids \in SUBSET Alerts : Start(op, ids)
  BY DEF PollStats, PollList, Click, Single, Posts
<1>2. Issue(op, ids) /\ UNCHANGED <<page, badge, raced>>
  BY <1>1 DEF Start
<1>3. Move \/ UNCHANGED moves
  BY DEF PollStats, PollList, Click
<1>4. \A s \in Slots : calls'[s].answer \subseteq Failed .. MaxBadge
  BY <1>2, IssuedFits
<1>. QED
  BY <1>2, <1>3, <1>4, MovesFit DEF DashboardInv, Figured

(* The connection drops the messages that are on their way. *)
LEMMA FiguredOther ==
  ASSUME DashboardInv, Connection \/ Navigate \/ UNCHANGED vars
  PROVE  Figured'
<1>1. UNCHANGED <<badge, calls>>
  BY DEF Connection, Navigate, vars, storeVars
<1>2. Created(wire) \subseteq Alerts
  <2>1. wire \in Seq(Message)
    BY DEF DashboardInv, StoreInv, StoreTypes
  <2>2. \A i \in DOMAIN wire : wire[i][2] \in Alerts
    BY <2>1, ElementOfSeq, DashboardAssumption, LenProperties
  <2>. QED
    BY <2>2 DEF Created
<1>3. raced' \subseteq Alerts
  BY <1>2 DEF Connection, Navigate, vars, DashboardInv, Figured
<1>4. Move \/ UNCHANGED moves
  BY DEF Connection, Navigate, vars
<1>5. page \in BOOLEAN
  BY DEF DashboardInv, Figured
<1>6. page' \in BOOLEAN
  <2>1. CASE Connection
    <3>1. page' = (page /\ mounted')
      BY <2>1, Zenon DEF Connection
    <3>. QED
      BY <3>1, Zenon
  <2>2. CASE Navigate
    <3>1. page' = ~page
      BY <2>2, Zenon DEF Navigate
    <3>. QED
      BY <3>1, Zenon
  <2>3. CASE UNCHANGED vars
    BY <1>5, <2>3 DEF vars, storeVars
  <2>. QED
    BY <2>1, <2>2, <2>3
<1>. QED
  BY <1>1, <1>3, <1>4, <1>6, MovesFit DEF DashboardInv, Figured

(* At the start. *)
LEMMA FiguredStartUp == Init => Figured
<1> SUFFICES ASSUME Init PROVE Figured
  OBVIOUS
<1>1. badge = 0 /\ moves = 0 /\ raced = Active /\ page = FALSE
  BY DEF Init
<1>2. 0 \in 0 .. MaxBadge /\ 0 \in 0 .. MaxMoves
  BY DashboardAssumption
<1>3. \A s \in Slots : calls[s].answer = {}
  BY DEF Init, Call, Idle
<1>. QED
  BY <1>1, <1>2, <1>3 DEF Figured, Active

(* The three invariants together give every type. *)
LEMMA DashboardTypes == DashboardInv => TypeOK
<1> SUFFICES ASSUME DashboardInv PROVE TypeOK
  OBVIOUS
<1>1. calls \in [Slots -> CallSet]
  BY DEF DashboardInv, StoreInv, StoreTypes
<1>2. ASSUME NEW s \in Slots PROVE calls[s] \in CallType
  <2>1. calls[s] \in CallSet /\ calls[s].answer \subseteq Failed .. MaxBadge
    BY <1>1 DEF DashboardInv, Figured
  <2>. QED
    BY <2>1 DEF CallSet, CallType
<1>3. calls \in [Slots -> CallType]
  BY <1>1, <1>2
<1>. QED
  BY <1>3 DEF TypeOK, DashboardInv, SocketInv, StoreInv, StoreTypes, Figured

(* The variables of the dashboard keep their types: the badge never counts *)
(* below 0 and never shows a failed count, and no reply has more than the  *)
(* backend served.  For any number of alerts, calls and faults.            *)
THEOREM DashboardTypeCorrect == Spec => []TypeOK
<1>1. Init => DashboardInv
  BY SocketInvInit, StoreStart, FiguredStartUp DEF Init, DashboardInv
<1>2. DashboardInv /\ [Next]_vars => DashboardInv'
  <2> SUFFICES ASSUME DashboardInv, [Next]_vars PROVE DashboardInv'
    OBVIOUS
  <2>1. SocketInv' /\ StoreInv'
    BY ConnectionInside, StoreStep DEF DashboardInv
  <2>2. Figured'
    <3>1. ASSUME NEW a \in Alerts, Raise(a) \/ Touch(a) \/ AutoResolve(a) \/ ElsewhereClosed(a)
          PROVE  Figured'
      BY <3>1, FiguredRows
    <3>2. ASSUME NEW s \in Slots, Serve(s) \/ Reply(s) PROVE Figured'
      BY <3>2, FiguredServe, FiguredReply
    <3>3. CASE Receive
      BY <3>3, FiguredMessage
    <3>4. CASE PollStats \/ PollList \/ Click
      BY <3>4, FiguredStart
    <3>5. CASE Navigate \/ Connection \/ UNCHANGED vars
      BY <3>5, FiguredOther
    <3>. QED
      BY <3>1, <3>2, <3>3, <3>4, <3>5 DEF Next
  <2>. QED
    BY <2>1, <2>2 DEF DashboardInv
<1>. QED
  BY <1>1, <1>2, DashboardTypes, PTL DEF Spec

=============================================================================
