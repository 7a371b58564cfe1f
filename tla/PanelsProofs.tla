---------------------------- MODULE PanelsProofs ----------------------------
(* Whose data a page shows, and that it is not older than what the page    *)
(* was told was done: for all pages, any number of things, of loads and    *)
(* handlers under way, of selections, writes and failures.                 *)
EXTENDS Panels, SequenceTheorems, FiniteSetTheorems, TLAPS

LoadSet == [of : Things, got : SUBSET Int, late : BOOLEAN, masked : BOOLEAN]

CallSet ==
  [kind : page.writes \cup {NoCall}, of : Things \cup {"nothing"},
   stage : {"none", "sent", "served", "refused"}, ver : Int,
   live : BOOLEAN, crossed : BOOLEAN]

PanelTypes ==
  /\ sel \in Things /\ val \in [Things -> Nat]
  /\ loads \in Seq(LoadSet) /\ calls \in [Writers -> CallSet]
  /\ \A w \in Writers : calls[w].stage # "none" => calls[w].of \in Things
  /\ masked \in BOOLEAN

(* A load for another thing than ls is to show is known to be overtaken, or *)
(* the page is free and a load for the right thing was issued after it.     *)
Followed(ls, t) ==
  \A i \in DOMAIN ls :
    \/ ls[i].of = t \/ ls[i].late
    \/ page.own = "free" /\ \E j \in DOMAIN ls : i < j /\ ls[j].of = t

(* A page mounted anew, or one that never changes, loads and writes what   *)
(* it shows only.                                                          *)
Single ==
  page.own \in {"remounted", "fixed"} =>
    /\ \A i \in DOMAIN loads : loads[i].of = sel
    /\ \A w \in Writers : calls[w].live => calls[w].of = sel

PanelInv == PanelTypes /\ Followed(loads, sel) /\ Single /\ OwnDataOnly

-----------------------------------------------------------------------------
(* The loads after one more is issued. *)
LEMMA Issued ==
  ASSUME NEW ls \in Seq(LoadSet), NEW l \in LoadSet
  PROVE  /\ Append(ls, l) \in Seq(LoadSet) /\ Append(ls, l) # <<>>
         /\ DOMAIN Append(ls, l) = 1 .. Len(ls) + 1
         /\ \A i \in DOMAIN ls : i < Len(ls) + 1 /\ Append(ls, l)[i] = ls[i]
         /\ Append(ls, l)[Len(ls) + 1] = l
OBVIOUS

(* A load after it was overtaken. *)
Marked(m, l) == m.of = l.of /\ m.got = l.got /\ m.masked = l.masked /\ m.late

(* Overtaking changes the flag alone. *)
LEMMA OvertakenLoads ==
  ASSUME NEW ls \in Seq(LoadSet)
  PROVE  /\ Overtaken(ls) \in Seq(LoadSet)
         /\ DOMAIN Overtaken(ls) = DOMAIN ls /\ Len(Overtaken(ls)) = Len(ls)
         /\ \A i \in DOMAIN ls : Marked(Overtaken(ls)[i], ls[i])
<1>1. \A i \in 1 .. Len(ls) : ls[i] \in LoadSet
  BY ElementOfSeq
<1>2. \A i \in 1 .. Len(ls) : [ls[i] EXCEPT !.late = TRUE] \in LoadSet
  BY <1>1 DEF LoadSet
<1>3. DOMAIN ls = 1 .. Len(ls) /\ Len(ls) \in Nat
  BY LenProperties
<1>4. Overtaken(ls) \in [1 .. Len(ls) -> LoadSet]
  BY <1>2, <1>3 DEF Overtaken
<1>5. Overtaken(ls) \in Seq(LoadSet) /\ Len(Overtaken(ls)) = Len(ls)
  BY <1>3, <1>4, IsASeq, LenProperties
<1>6. \A i \in 1 .. Len(ls) : Overtaken(ls)[i] = [ls[i] EXCEPT !.late = TRUE]
  BY <1>3 DEF Overtaken
<1>7. \A i \in 1 .. Len(ls) : Marked(Overtaken(ls)[i], ls[i])
  BY <1>1, <1>6 DEF LoadSet, Marked
<1>. QED
  BY <1>3, <1>4, <1>5, <1>7

(* What is left after the load i was answered. *)
Rest(ls, i) == Overtaken(SubSeq(ls, 1, i - 1)) \o SubSeq(ls, i + 1, Len(ls))

(* Those before it are marked, those after it are one place earlier. *)
LEMMA Remaining ==
  ASSUME NEW ls \in Seq(LoadSet), NEW i \in DOMAIN ls
  PROVE  /\ Rest(ls, i) \in Seq(LoadSet)
         /\ DOMAIN Rest(ls, i) = 1 .. Len(ls) - 1
         /\ \A k \in DOMAIN Rest(ls, i) : k < i => Marked(Rest(ls, i)[k], ls[k])
         /\ \A k \in DOMAIN Rest(ls, i) : k >= i => Rest(ls, i)[k] = ls[k + 1]
<1> DEFINE before == SubSeq(ls, 1, i - 1)
           after  == SubSeq(ls, i + 1, Len(ls))
           rest   == Rest(ls, i)
<1>0. DOMAIN ls = 1 .. Len(ls) /\ Len(ls) \in Nat /\ i \in 1 .. Len(ls)
  BY LenProperties
<1>1. /\ before \in Seq(LoadSet) /\ Len(before) = i - 1
      /\ \A k \in 1 .. i - 1 : before[k] = ls[k]
  <2>1. \A k \in 1 .. i - 1 : ls[k] \in LoadSet
    BY <1>0, ElementOfSeq
  <2>2. /\ before \in Seq(LoadSet)
        /\ Len(before) = IF 1 <= i - 1 THEN i - 1 - 1 + 1 ELSE 0
        /\ \A k \in 1 .. i - 1 - 1 + 1 : before[k] = ls[1 + k - 1]
    BY <1>0, <2>1, SubSeqProperties
  <2>. HIDE DEF before
  <2>3. Len(before) = i - 1
    BY <1>0, <2>2
  <2>4. \A k \in 1 .. i - 1 : k \in 1 .. i - 1 - 1 + 1 /\ 1 + k - 1 = k
    BY <1>0
  <2>. QED
    BY <2>2, <2>3, <2>4
<1>2. /\ after \in Seq(LoadSet) /\ Len(after) = Len(ls) - i
      /\ \A k \in 1 .. Len(ls) - i : after[k] = ls[k + i]
  <2>1. \A k \in i + 1 .. Len(ls) : ls[k] \in LoadSet
    BY <1>0, ElementOfSeq
  <2>2. /\ after \in Seq(LoadSet)
        /\ Len(after) = IF i + 1 <= Len(ls) THEN Len(ls) - (i + 1) + 1 ELSE 0
        /\ \A k \in 1 .. Len(ls) - (i + 1) + 1 : after[k] = ls[i + 1 + k - 1]
    BY <1>0, <2>1, SubSeqProperties
  <2>. HIDE DEF after
  <2>3. Len(after) = Len(ls) - i
    BY <1>0, <2>2
  <2>4. \A k \in 1 .. Len(ls) - i : k \in 1 .. Len(ls) - (i + 1) + 1 /\ i + 1 + k - 1 = k + i
    BY <1>0
  <2>. QED
    BY <2>2, <2>3, <2>4
<1>3. /\ Overtaken(before) \in Seq(LoadSet) /\ Len(Overtaken(before)) = i - 1
      /\ \A k \in 1 .. i - 1 : Marked(Overtaken(before)[k], ls[k])
  <2>. HIDE DEF before
  <2>1. DOMAIN before = 1 .. i - 1
    BY <1>1, LenProperties
  <2>. QED
    BY <1>1, <2>1, OvertakenLoads
<1>4. rest = Overtaken(before) \o after
  BY DEF Rest
<1>. HIDE DEF before, after, rest
<1>5. /\ rest \in Seq(LoadSet) /\ Len(rest) = i - 1 + (Len(ls) - i)
      /\ \A k \in 1 .. i - 1 + (Len(ls) - i) :
           rest[k] = IF k <= i - 1 THEN Overtaken(before)[k] ELSE after[k - (i - 1)]
  <2> DEFINE early == Overtaken(before)
  <2>1. early \in Seq(LoadSet) /\ Len(early) = i - 1 /\ rest = early \o after
    BY <1>3, <1>4
  <2>. HIDE DEF early
  <2>2. /\ early \o after \in Seq(LoadSet)
        /\ Len(early \o after) = Len(early) + Len(after)
        /\ \A k \in 1 .. Len(early) + Len(after) :
             (early \o after)[k] = IF k <= Len(early) THEN early[k] ELSE after[k - Len(early)]
    BY <1>2, <2>1, ConcatProperties
  <2>3. /\ rest \in Seq(LoadSet) /\ Len(rest) = i - 1 + (Len(ls) - i)
        /\ \A k \in 1 .. i - 1 + (Len(ls) - i) :
             rest[k] = IF k <= i - 1 THEN early[k] ELSE after[k - (i - 1)]
    BY <1>2, <2>1, <2>2, Zenon
  <2>. QED
    BY <2>3 DEF early
<1>6. Len(rest) = Len(ls) - 1 /\ DOMAIN rest = 1 .. Len(ls) - 1
  BY <1>0, <1>5, LenProperties
<1>7. ASSUME NEW k \in 1 .. Len(ls) - 1, k < i PROVE Marked(rest[k], ls[k])
  <2>1. k \in 1 .. i - 1 /\ k <= i - 1 /\ k \in 1 .. i - 1 + (Len(ls) - i)
    BY <1>0, <1>7
  <2>. QED
    BY <1>3, <1>5, <2>1
<1>8. ASSUME NEW k \in 1 .. Len(ls) - 1, k >= i PROVE rest[k] = ls[k + 1]
  <2>1. /\ ~(k <= i - 1) /\ k \in 1 .. i - 1 + (Len(ls) - i)
        /\ k - (i - 1) \in 1 .. Len(ls) - i /\ k - (i - 1) + i = k + 1
    BY <1>0, <1>8
  <2>. QED
    BY <1>2, <1>5, <2>1
<1>. QED
  BY <1>5, <1>6, <1>7, <1>8 DEF rest

-----------------------------------------------------------------------------
(* Loads are followed when one is issued for the right thing, or marked.   *)
LEMMA FollowedIssue ==
  ASSUME NEW ls \in Seq(LoadSet), NEW l \in LoadSet, NEW t \in Things,
         Followed(ls, t), l.of = t \/ l.late
  PROVE  Followed(Append(ls, l), t)
<1>1. DOMAIN ls = 1 .. Len(ls) /\ Len(ls) \in Nat
  BY LenProperties
<1>. QED
  BY <1>1, Issued DEF Followed

(* All are marked. *)
LEMMA FollowedOvertaken ==
  ASSUME NEW ls \in Seq(LoadSet), NEW t \in Things
  PROVE  Followed(Overtaken(ls), t)
BY OvertakenLoads DEF Followed, Marked

-----------------------------------------------------------------------------
(* The same call, but for what happened to it. *)
Same(d, c) == d.kind = c.kind /\ d.of = c.of /\ d.live = c.live /\ d.crossed = c.crossed

(* The call that the backend has served or refused. *)
LEMMA ServedCall ==
  ASSUME PanelInv, NEW w \in Writers, ServeWrite(w)
  PROVE  /\ calls' \in [Writers -> CallSet] /\ calls[w].of \in Things
         /\ calls[w].stage = "sent" /\ Same(calls'[w], calls[w])
         /\ \A u \in Writers : u # w => calls'[u] = calls[u]
         /\ \/ calls'[w].stage = "refused" /\ calls'[w].ver = calls[w].ver
            \/ /\ calls'[w].stage = "served" /\ calls'[w].ver = val'[calls[w].of]
               /\ val'[calls[w].of] = val[calls[w].of] + 1
         /\ val' = val \/ val' = [val EXCEPT ![calls[w].of] = @ + 1]
<1>1. /\ calls \in [Writers -> CallSet] /\ calls[w] \in CallSet
      /\ val \in [Things -> Nat] /\ calls[w].stage = "sent" /\ calls[w].of \in Things
  BY DEF ServeWrite, PanelInv, PanelTypes
<1>2. val' = val \/ val' = [val EXCEPT ![calls[w].of] = @ + 1]
  BY DEF ServeWrite
<1>3. CASE Refused(w)
  <2>1. calls' = [calls EXCEPT ![w] = [calls[w] EXCEPT !.stage = "refused"]]
    BY <1>1, <1>3 DEF Refused
  <2>2. [calls[w] EXCEPT !.stage = "refused"] \in CallSet
    BY <1>1 DEF CallSet
  <2>3. /\ Same([calls[w] EXCEPT !.stage = "refused"], calls[w])
        /\ [calls[w] EXCEPT !.stage = "refused"].stage = "refused"
        /\ [calls[w] EXCEPT !.stage = "refused"].ver = calls[w].ver
    BY <1>1 DEF CallSet, Same
  <2>. QED
    BY <1>1, <1>2, <2>1, <2>2, <2>3
<1>4. CASE Served(w) /\ val' = [val EXCEPT ![calls[w].of] = @ + 1]
  <2> DEFINE v == val[calls[w].of] + 1
             d == [calls[w] EXCEPT !.stage = "served", !.ver = v]
  <2>0. v \in Int /\ v = val'[calls[w].of]
    BY <1>1, <1>4
  <2>1. calls' = [calls EXCEPT ![w] = d]
    BY <1>1, <1>4 DEF Served
  <2>2. d \in CallSet
    BY <1>1, <2>0 DEF CallSet
  <2>3. Same(d, calls[w]) /\ d.stage = "served" /\ d.ver = v
    BY <1>1 DEF CallSet, Same
  <2>. HIDE DEF d
  <2>4. calls' \in [Writers -> CallSet] /\ calls'[w] = d /\ \A u \in Writers : u # w => calls'[u] = calls[u]
    BY <1>1, <2>1, <2>2
  <2>. QED
    BY <1>1, <1>2, <2>0, <2>3, <2>4
<1>. QED
  BY <1>3, <1>4 DEF ServeWrite

(* The calls that are left when the handler w has ended. *)
LEMMA LeftCalls ==
  ASSUME PanelInv, NEW w \in Writers, EndWrite(w)
  PROVE  /\ calls' \in [Writers -> CallSet] /\ calls'[w] = NoWrite
         /\ \A u \in Writers : u # w =>
              /\ calls'[u].kind = calls[u].kind /\ calls'[u].of = calls[u].of
              /\ calls'[u].stage = calls[u].stage /\ calls'[u].ver = calls[u].ver
              /\ calls'[u].live = calls[u].live
              /\ calls'[u].crossed <=> (calls[u].crossed \/ calls[u].of = calls[w].of)
              /\ calls[u] = NoWrite => calls'[u] = NoWrite
         /\ calls[w] \in CallSet /\ calls[w].of \in Things
         /\ calls[w].stage \in {"served", "refused"}
<1>1. /\ calls \in [Writers -> CallSet] /\ calls[w] \in CallSet
      /\ calls[w].stage \in {"served", "refused"} /\ calls[w].of \in Things
  BY DEF EndWrite, PanelInv, PanelTypes
<1>2. calls' = Crossed(w)
  BY DEF EndWrite
<1>3. NoWrite \in CallSet
  BY DEF NoWrite, CallSet
<1> DEFINE d(u) == [calls[u] EXCEPT !.crossed = @ \/ calls[u].of = calls[w].of]
<1>4. ASSUME NEW u \in Writers
      PROVE  /\ d(u) \in CallSet
             /\ d(u).kind = calls[u].kind /\ d(u).of = calls[u].of
             /\ d(u).stage = calls[u].stage /\ d(u).ver = calls[u].ver
             /\ d(u).live = calls[u].live
             /\ d(u).crossed <=> (calls[u].crossed \/ calls[u].of = calls[w].of)
  <2>1. calls[u] \in CallSet
    BY <1>1
  <2>2. PICK b \in BOOLEAN : b <=> (calls[u].crossed \/ calls[u].of = calls[w].of)
    OBVIOUS
  <2>3. calls[u].crossed \in BOOLEAN
    BY <2>1 DEF CallSet
  <2>4. d(u) = [calls[u] EXCEPT !.crossed = (calls[u].crossed \/ calls[u].of = calls[w].of)]
    BY <2>1 DEF CallSet
  <2>5. (calls[u].crossed \/ calls[u].of = calls[w].of) = b
    BY <2>2, <2>3, Zenon
  <2>6. d(u) = [calls[u] EXCEPT !.crossed = b]
    BY <2>4, <2>5
  <2>. HIDE DEF d
  <2>. QED
    BY <2>1, <2>2, <2>6 DEF CallSet
<1>5. ASSUME NEW u \in Writers, calls[u] = NoWrite PROVE d(u) = NoWrite
  <2>1. calls[u].of # calls[w].of /\ calls[u].crossed = FALSE
    BY <1>1, <1>5, PanelsAssumption DEF NoWrite
  <2>2. (calls[u].crossed \/ calls[u].of = calls[w].of) = FALSE
    BY <2>1, Zenon
  <2>3. [NoWrite EXCEPT !.crossed = FALSE] = NoWrite
    <3>1. NoWrite.crossed = FALSE
      BY DEF NoWrite
    <3>. QED
      BY <1>3, <3>1 DEF CallSet
  <2>4. d(u) = [NoWrite EXCEPT !.crossed = (calls[u].crossed \/ calls[u].of = calls[w].of)]
    BY <1>5 DEF NoWrite
  <2>. QED
    BY <2>2, <2>3, <2>4
<1>6. calls' = [v \in Writers |-> IF v = w THEN NoWrite ELSE d(v)]
  BY <1>2 DEF Crossed
<1>. HIDE DEF d
<1>. QED
  BY <1>1, <1>3, <1>4, <1>5, <1>6

(* The calls after a click. *)
LEMMA ClickedCalls ==
  ASSUME PanelInv, NEW w \in Writers, NEW kind \in page.writes, Click(w, kind)
  PROVE  /\ calls' \in [Writers -> CallSet] /\ calls[w] = NoWrite
         /\ calls'[w] = IF kind.call THEN NewCall(kind) ELSE NoWrite
         /\ \A u \in Writers : u # w => calls'[u] = calls[u]
         /\ NewCall(kind) \in CallSet
<1>1. calls \in [Writers -> CallSet] /\ calls[w] = NoWrite /\ sel \in Things
  BY DEF Click, Idle, PanelInv, PanelTypes
<1>2. NewCall(kind) \in CallSet
  BY <1>1 DEF NewCall, CallSet
<1>3. calls' = IF kind.call THEN [calls EXCEPT ![w] = NewCall(kind)] ELSE calls
  BY DEF Click
<1>. QED
  BY <1>1, <1>2, <1>3

(* The calls after another thing was selected: a page mounted anew does    *)
(* not go on after them.                                                   *)
LEMMA SelectedCalls ==
  ASSUME PanelInv, NEW t \in Things, Select(t)
  PROVE  /\ calls' \in [Writers -> CallSet]
         /\ \A u \in Writers :
              /\ calls'[u].kind = calls[u].kind /\ calls'[u].of = calls[u].of
              /\ calls'[u].stage = calls[u].stage /\ calls'[u].ver = calls[u].ver
              /\ calls'[u].crossed = calls[u].crossed
              /\ page.own = "remounted" => ~calls'[u].live
              /\ calls[u] = NoWrite => calls'[u] = NoWrite
<1>1. calls \in [Writers -> CallSet]
  BY DEF PanelInv, PanelTypes
<1>2. calls' = IF page.own = "remounted"
               THEN [w \in Writers |-> [calls[w] EXCEPT !.live = FALSE]] ELSE calls
  BY DEF Select, ChangeOfThing
<1>3. [NoWrite EXCEPT !.live = FALSE] = NoWrite
  <2>1. NoWrite \in CallSet /\ NoWrite.live = FALSE
    BY DEF NoWrite, CallSet
  <2>. QED
    BY <2>1 DEF CallSet
<1>4. \A u \in Writers : [calls[u] EXCEPT !.live = FALSE] \in CallSet
  BY <1>1 DEF CallSet
<1>. QED
  BY <1>1, <1>2, <1>3, <1>4 DEF CallSet

-----------------------------------------------------------------------------
(* A poll, a refresh, an answer of the backend, a change elsewhere. *)
LEMMA QuietStep ==
  ASSUME PanelInv,
         \/ Poll \/ Refresh \/ UNCHANGED panelVars
         \/ \E i \in DOMAIN loads : Serve(i)
         \/ \E t \in Things : ChangedElsewhere(t)
         \/ \E w \in Writers : ServeWrite(w)
  PROVE  PanelInv'
<1> USE DEF PanelInv, PanelTypes, Single, OwnDataOnly, Real, history
<1>1. ASSUME Poll \/ Refresh PROVE PanelInv'
  <2> DEFINE l == Load(sel, FALSE, masked)
  <2>1. l \in LoadSet /\ l.of = sel
    BY DEF Load, LoadSet
  <2>2. loads' = Append(loads, l)
    BY <1>1 DEF Poll, Refresh, Issue
  <2>3. UNCHANGED <<page, sel, val, shown, calls, masked, history, moves, faults>>
    BY <1>1 DEF Poll, Refresh
  <2> HIDE DEF l
  <2>4. loads' \in Seq(LoadSet) /\ loads' # <<>>
    BY <2>1, <2>2, Issued
  <2>5. Followed(loads', sel)
    BY <2>1, <2>2, FollowedIssue
  <2>6. Followed(loads, sel)'
    BY <2>3, <2>5 DEF Followed
  <2>7. Single'
    <3>1. \A i \in DOMAIN loads' : (i \in DOMAIN loads /\ loads'[i] = loads[i]) \/ loads'[i] = l
      BY <2>1, <2>2, Issued, LenProperties
    <3>. QED
      BY <2>1, <2>3, <3>1
  <2>. QED
    BY <2>3, <2>4, <2>6, <2>7 DEF CallSet
<1>2. ASSUME NEW i \in DOMAIN loads, Serve(i) PROVE PanelInv'
  <2>1. loads[i] \in LoadSet /\ DOMAIN loads = 1 .. Len(loads) /\ Len(loads) \in Nat
    BY ElementOfSeq, LenProperties
  <2>2. PICK g \in SUBSET Int : loads' = [loads EXCEPT ![i].got = g]
    BY <1>2, <2>1 DEF Serve, LoadSet, Failed
  <2>3. loads' \in Seq(LoadSet) /\ DOMAIN loads' = DOMAIN loads
    <3>1. [loads[i] EXCEPT !.got = g] \in LoadSet
      BY <2>1 DEF LoadSet
    <3>2. loads' = [loads EXCEPT ![i] = [loads[i] EXCEPT !.got = g]]
      BY <2>2
    <3>3. i \in 1 .. Len(loads)
      BY <2>1
    <3>. QED
      BY <2>1, <3>1, <3>2, <3>3, ExceptSeq
  <2>4. \A k \in DOMAIN loads : loads'[k].of = loads[k].of /\ loads'[k].late = loads[k].late
    <3>1. \A k \in DOMAIN loads : loads[k] \in LoadSet
      BY ElementOfSeq, LenProperties
    <3>. QED
      BY <2>1, <2>2, <3>1 DEF LoadSet
  <2>5. UNCHANGED <<page, sel, val, shown, calls, masked, history, moves>>
    BY <1>2 DEF Serve
  <2>6. Followed(loads, sel)'
    BY <2>3, <2>4, <2>5 DEF Followed
  <2>7. loads # <<>> /\ loads' # <<>>
    BY <2>1, <2>3
  <2>. QED
    BY <2>3, <2>4, <2>5, <2>6, <2>7 DEF CallSet
<1>3. ASSUME NEW t \in Things, ChangedElsewhere(t) PROVE PanelInv'
  BY <1>3 DEF ChangedElsewhere, Followed, CallSet
<1>4. ASSUME NEW w \in Writers, ServeWrite(w) PROVE PanelInv'
  <2>1. UNCHANGED <<page, sel, shown, loads, masked, history, moves>>
    BY <1>4 DEF ServeWrite
  <2>2. /\ calls' \in [Writers -> CallSet] /\ calls[w].of \in Things
        /\ Same(calls'[w], calls[w]) /\ \A u \in Writers : u # w => calls'[u] = calls[u]
        /\ val' = val \/ val' = [val EXCEPT ![calls[w].of] = @ + 1]
    BY <1>4, ServedCall
  <2>3. val' \in [Things -> Nat]
    BY <2>2
  <2>4. CallSet' = CallSet
    BY <2>1 DEF CallSet
  <2>5. \A u \in Writers : calls'[u].of = calls[u].of /\ calls'[u].live = calls[u].live
    BY <2>2 DEF Same
  <2>6. \A u \in Writers : calls'[u].stage # "none" => calls'[u].of \in Things
    BY <2>2, <2>5
  <2>7. PanelTypes'
    BY <2>1, <2>2, <2>3, <2>4, <2>6 DEF PanelTypes
  <2>8. Followed(loads, sel)' /\ Single' /\ OwnDataOnly'
    BY <2>1, <2>5 DEF Followed
  <2>. QED
    BY <2>7, <2>8
<1>5. ASSUME UNCHANGED panelVars PROVE PanelInv'
  BY <1>5 DEF panelVars, Followed, CallSet
<1>. QED
  BY <1>1, <1>2, <1>3, <1>4, <1>5

(* The answer to a load is shown, or the load has failed. *)
LEMMA ReplyStep ==
  ASSUME PanelInv, NEW i \in DOMAIN loads, Reply(i)
  PROVE  PanelInv'
<1> DEFINE l == loads[i]
<1>1. DOMAIN loads = 1 .. Len(loads) /\ Len(loads) \in Nat /\ i \in 1 .. Len(loads)
  BY LenProperties DEF PanelInv, PanelTypes
<1>2. l \in LoadSet /\ l.of \in Things /\ l.late \in BOOLEAN
  <2>1. loads[i] \in LoadSet
    BY <1>1, ElementOfSeq DEF PanelInv, PanelTypes
  <2>. QED
    BY <2>1 DEF LoadSet
<1>3. UNCHANGED <<page, sel, val, calls, masked>>
  BY DEF Reply
<1>4. /\ loads' \in Seq(LoadSet)
      /\ DOMAIN loads' = 1 .. Len(loads) - 1
      /\ \A k \in DOMAIN loads' : k < i => loads'[k].of = loads[k].of /\ loads'[k].late
      /\ \A k \in DOMAIN loads' : k >= i => loads'[k] = loads[k + 1]
  <2>1. loads \in Seq(LoadSet)
    BY DEF PanelInv, PanelTypes
  <2>2. loads' = Rest(loads, i)
    BY DEF Reply, Rest
  <2>. QED
    BY <2>1, <2>2, Remaining DEF Marked
<1>5. PanelTypes'
  BY <1>3, <1>4 DEF PanelInv, PanelTypes, CallSet
<1>6. Followed(loads', sel)
  <2> SUFFICES ASSUME NEW k \in DOMAIN loads'
               PROVE  \/ loads'[k].of = sel \/ loads'[k].late
                      \/ page.own = "free" /\ \E j \in DOMAIN loads' : k < j /\ loads'[j].of = sel
    BY DEF Followed
  <2>1. CASE k < i
    BY <1>4, <2>1
  <2>2. CASE k >= i
    <3>1. k + 1 \in DOMAIN loads /\ loads'[k] = loads[k + 1]
      BY <1>1, <1>4, <2>2
    <3>2. \/ loads[k + 1].of = sel \/ loads[k + 1].late
          \/ page.own = "free" /\ \E j \in DOMAIN loads : k + 1 < j /\ loads[j].of = sel
      BY <3>1 DEF PanelInv, Followed
    <3>3. ASSUME NEW j \in DOMAIN loads, k + 1 < j, loads[j].of = sel
          PROVE  \E m \in DOMAIN loads' : k < m /\ loads'[m].of = sel
      <4>1. j - 1 \in DOMAIN loads' /\ k < j - 1 /\ j - 1 >= i /\ (j - 1) + 1 = j
        BY <1>1, <1>4, <2>2, <3>3
      <4>2. loads'[j - 1] = loads[j]
        BY <1>4, <4>1
      <4>. QED
        BY <3>3, <4>1, <4>2
    <3>. QED
      BY <3>1, <3>2, <3>3
  <2>. QED
    BY <1>1, <1>4, <2>1, <2>2
<1>7. Single'
  <2>1. \A k \in DOMAIN loads' : \E m \in DOMAIN loads : loads'[k].of = loads[m].of
    <3> SUFFICES ASSUME NEW k \in DOMAIN loads'
                 PROVE  \E m \in DOMAIN loads : loads'[k].of = loads[m].of
      OBVIOUS
    <3>1. k \in DOMAIN loads /\ k + 1 \in DOMAIN loads
      BY <1>1, <1>4
    <3>. QED
      BY <1>1, <1>4, <3>1
  <2>. QED
    BY <1>3, <2>1 DEF PanelInv, Single
<1>8. OwnDataOnly'
  <2>1. PICK v \in l.got : IF v = Failed THEN Reject ELSE Apply(l, v)
    BY DEF Reply
  <2>2. CASE Reject
    BY <1>3, <2>2, PanelsAssumption
    DEF Reject, StandIn, Data, PanelInv, PanelTypes, OwnDataOnly, Real
  <2>3. CASE Apply(l, v)
    <3>1. shown'.of = l.of /\ (l.late => strayed')
      BY <2>3 DEF Apply, Data, Overwrites
    <3>2. ASSUME l.of # sel
          PROVE  /\ page.own # "remounted"
                 /\ strayed' \/ (page.own = "free" /\ loads' # <<>>)
      <4>1. page.own # "remounted"
        BY <3>2 DEF PanelInv, Single
      <4>2. CASE l.late
        BY <3>1, <4>1, <4>2
      <4>3. CASE ~l.late
        <5>1. PICK j \in DOMAIN loads : page.own = "free" /\ i < j
          BY <3>2, <4>3 DEF PanelInv, Followed
        <5>2. 1 \in DOMAIN loads'
          BY <1>1, <1>4, <5>1
        <5>3. loads' # <<>>
          BY <5>2
        <5>. QED
          BY <4>1, <5>1, <5>3
      <4>. QED
        BY <4>2, <4>3
    <3>. QED
      BY <1>3, <3>1, <3>2 DEF OwnDataOnly
  <2>. QED
    BY <2>1, <2>2, <2>3
<1>. QED
  BY <1>3, <1>5, <1>6, <1>7, <1>8 DEF PanelInv, Followed

(* The user selects another thing. *)
LEMMA SelectStep ==
  ASSUME PanelInv, NEW t \in Things, Select(t)
  PROVE  PanelInv'
<1> DEFINE fresh  == Load(t, FALSE, FALSE)
           behind == Load(t, FALSE, masked)
<1>1. /\ sel' = t /\ t \in Things /\ page.own # "fixed"
      /\ UNCHANGED <<page, val, masked>> /\ strayed' = (page.own = "lazy")
  BY DEF Select
<1>2. fresh \in LoadSet /\ fresh.of = t /\ behind \in LoadSet /\ behind.of = t
  BY DEF Load, LoadSet, PanelInv, PanelTypes
<1>3. PanelTypes' /\ Single' /\ Followed(loads', sel')
  <2>1. /\ calls' \in [Writers -> CallSet] /\ CallSet' = CallSet
        /\ \A u \in Writers :
             /\ calls'[u].of = calls[u].of /\ calls'[u].stage = calls[u].stage
             /\ page.own = "remounted" => ~calls'[u].live
    BY <1>1, SelectedCalls DEF CallSet
  <2>0. ASSUME page.own = "remounted" => \A i \in DOMAIN loads' : loads'[i].of = t
        PROVE  Single'
    <3>1. page' = page /\ sel' = t /\ page.own # "fixed"
      BY <1>1
    <3>2. page.own = "remounted" => \A u \in Writers : ~calls'[u].live
      BY <2>1
    <3>. QED
      BY <2>0, <3>1, <3>2 DEF Single
  <2> DEFINE Types == /\ sel' \in Things /\ val' \in [Things -> Nat] /\ masked' \in BOOLEAN
                      /\ calls' \in [Writers -> CallSet']
                      /\ \A u \in Writers : calls'[u].stage # "none" => calls'[u].of \in Things
  <2>6. Types
    <3>1. sel' \in Things /\ val' \in [Things -> Nat] /\ masked' \in BOOLEAN
      BY <1>1 DEF PanelInv, PanelTypes
    <3>2. \A u \in Writers : calls[u].stage # "none" => calls[u].of \in Things
      BY DEF PanelInv, PanelTypes
    <3>3. \A u \in Writers : calls'[u].stage # "none" => calls'[u].of \in Things
      BY <2>1, <3>2
    <3>. QED
      BY <2>1, <3>1, <3>3
  <2>7. loads' \in Seq(LoadSet) => PanelTypes'
    BY <2>6 DEF PanelTypes, LoadSet
  <2>. HIDE DEF Types
  <2>2. /\ loads \in Seq(LoadSet)
        /\ DOMAIN loads = 1 .. Len(loads) /\ Len(loads) \in Nat
    BY LenProperties DEF PanelInv, PanelTypes
  <2>3. CASE page.own = "free"
    <3>1. loads' = Append(loads, behind)
      BY <2>3 DEF Select, ChangeOfThing, Issue
    <3>. HIDE DEF behind
    <3>2. /\ loads' \in Seq(LoadSet)
          /\ DOMAIN loads' = 1 .. Len(loads) + 1
          /\ loads'[Len(loads) + 1].of = t
      BY <1>2, <2>2, <3>1, Issued
    <3>3. Followed(loads', sel')
      BY <1>1, <2>2, <2>3, <3>2 DEF Followed
    <3>. QED
      BY <2>0, <2>3, <2>7, <3>2, <3>3
  <2>4. CASE page.own = "lazy"
    <3>1. loads' = Overtaken(loads)
      BY <2>4 DEF Select, ChangeOfThing
    <3>2. loads' \in Seq(LoadSet) /\ Followed(loads', sel')
      BY <1>1, <2>2, <3>1, OvertakenLoads, FollowedOvertaken
    <3>. QED
      BY <2>0, <2>4, <2>7, <3>2
  <2>5. CASE page.own \notin {"free", "lazy"}
    <3>1. loads' = <<fresh>>
      BY <2>5 DEF Select, ChangeOfThing
    <3>. HIDE DEF fresh
    <3>2. loads' \in Seq(LoadSet) /\ \A k \in DOMAIN loads' : loads'[k].of = t
      BY <1>2, <3>1
    <3>3. Followed(loads', sel')
      BY <1>1, <3>2 DEF Followed
    <3>. QED
      BY <2>0, <2>7, <3>2, <3>3
  <2>. QED
    BY <2>3, <2>4, <2>5
<1>4. OwnDataOnly'
  <2>1. CASE page.own = "free"
    <3>1. loads' = Append(loads, behind)
      BY <2>1 DEF Select, ChangeOfThing, Issue
    <3>. HIDE DEF behind
    <3>2. loads' # <<>>
      BY <1>2, <3>1, Issued DEF PanelInv, PanelTypes
    <3>. QED
      BY <1>1, <2>1, <3>2 DEF OwnDataOnly
  <2>2. CASE page.own = "lazy"
    BY <1>1, <2>2 DEF OwnDataOnly
  <2>3. CASE page.own \notin {"free", "lazy"}
    <3>1. /\ shown' = IF page.own = "kept" THEN shown ELSE Nothing
          /\ loads' = <<fresh>>
      BY <2>3 DEF Select, ChangeOfThing
    <3>2. loads' # <<>>
      BY <3>1
    <3>. QED
      BY <1>1, <3>1, <3>2, PanelsAssumption DEF OwnDataOnly, Real, Nothing, Data
  <2>. QED
    BY <2>1, <2>2, <2>3
<1>. QED
  BY <1>1, <1>3, <1>4 DEF PanelInv, Followed

(* The user asks for a change of what is shown. *)
LEMMA ClickStep ==
  ASSUME PanelInv, NEW w \in Writers, NEW kind \in page.writes, Click(w, kind)
  PROVE  PanelInv'
<1>1. UNCHANGED <<page, sel, val, masked, failed, strayed>>
  BY DEF Click
<1>2. /\ calls' \in [Writers -> CallSet]
      /\ \A u \in Writers : calls'[u] = calls[u] \/ calls'[u] = NewCall(kind)
  BY ClickedCalls
<1>3. /\ loads' \in Seq(LoadSet) /\ Followed(loads', sel)
      /\ DOMAIN loads' = DOMAIN loads /\ \A k \in DOMAIN loads : loads'[k].of = loads[k].of
      /\ loads # <<>> => loads' # <<>>
  <2>1. CASE loads' = Overtaken(loads)
    <3>1. Len(loads') = Len(loads) /\ loads \in Seq(LoadSet) /\ loads' \in Seq(LoadSet)
      BY <2>1, OvertakenLoads DEF PanelInv, PanelTypes
    <3>2. loads # <<>> => loads' # <<>>
      BY <3>1, EmptySeq
    <3>. QED
      BY <2>1, <3>1, <3>2, OvertakenLoads, FollowedOvertaken DEF PanelInv, PanelTypes, Marked
  <2>2. CASE loads' = loads
    BY <2>2 DEF PanelInv, PanelTypes
  <2>. QED
    BY <2>1, <2>2 DEF Click
<1>4. PanelTypes' /\ Single'
  <2>1. CallSet' = CallSet
    BY <1>1 DEF CallSet
  <2>2. sel \in Things
    BY DEF PanelInv, PanelTypes
  <2>3. PanelTypes'
    BY <1>1, <1>2, <1>3, <2>1, <2>2 DEF PanelInv, PanelTypes, NewCall
  <2>4. Single'
    BY <1>1, <1>2, <1>3 DEF PanelInv, Single, NewCall
  <2>. QED
    BY <2>3, <2>4
<1>5. OwnDataOnly'
  <2>1. shown' = shown \/ shown'.of = sel
    BY DEF Click, Patched, Data
  <2>. QED
    BY <1>1, <1>3, <2>1 DEF PanelInv, OwnDataOnly, Real
<1>. QED
  BY <1>1, <1>3, <1>4, <1>5 DEF PanelInv, Followed

(* The handler goes on after its call: it patches, and loads again. *)
LEMMA EndWriteStep ==
  ASSUME PanelInv, NEW w \in Writers, EndWrite(w)
  PROVE  PanelInv'
<1> DEFINE c    == calls[w]
           l    == Load(c.of, c.of # sel, masked')
           rest == IF HasPatched(c) THEN Overtaken(loads) ELSE loads
<1>1. /\ UNCHANGED <<page, sel, val, failed>>
      /\ masked' \in BOOLEAN
  BY DEF EndWrite
<1>2. c.of \in Things /\ loads \in Seq(LoadSet)
  BY LeftCalls DEF PanelInv, PanelTypes
<1>3. l \in LoadSet /\ l.of = c.of /\ (l.of = sel \/ l.late)
  BY <1>1, <1>2 DEF Load, LoadSet
<1>4. /\ rest \in Seq(LoadSet) /\ Followed(rest, sel)
      /\ DOMAIN rest = DOMAIN loads /\ \A k \in DOMAIN loads : rest[k].of = loads[k].of
      /\ loads # <<>> => rest # <<>>
  <2>1. CASE rest = Overtaken(loads)
    <3>1. Len(rest) = Len(loads) /\ rest \in Seq(LoadSet)
      BY <1>2, <2>1, OvertakenLoads
    <3>. HIDE DEF rest
    <3>2. loads # <<>> => rest # <<>>
      BY <1>2, <3>1, EmptySeq
    <3>. QED
      BY <1>2, <2>1, <3>1, <3>2, OvertakenLoads, FollowedOvertaken DEF PanelInv, PanelTypes, Marked
  <2>2. CASE rest = loads
    BY <1>2, <2>2 DEF PanelInv
  <2>. QED
    BY <2>1, <2>2
<1>5. loads' = rest \/ (c.live /\ loads' = Append(rest, l))
  BY DEF EndWrite, Reload, Ends
<1>. HIDE DEF rest, l
<1>6. /\ loads' \in Seq(LoadSet) /\ Followed(loads', sel)
      /\ loads # <<>> => loads' # <<>>
      /\ \A k \in DOMAIN loads' :
           \/ k \in DOMAIN loads /\ loads'[k].of = loads[k].of
           \/ c.live /\ loads'[k].of = c.of
  <2>1. CASE loads' = rest
    BY <1>4, <2>1
  <2>2. CASE c.live /\ loads' = Append(rest, l)
    <3>1. DOMAIN rest = 1 .. Len(rest) /\ Len(rest) \in Nat
      BY <1>4, LenProperties
    <3>2. /\ loads' \in Seq(LoadSet) /\ loads' # <<>>
          /\ DOMAIN loads' = 1 .. Len(rest) + 1
          /\ \A k \in DOMAIN rest : loads'[k] = rest[k]
          /\ loads'[Len(rest) + 1] = l
      BY <1>3, <1>4, <2>2, Issued
    <3>3. \A k \in DOMAIN loads' : k \in DOMAIN rest \/ k = Len(rest) + 1
      BY <3>1, <3>2
    <3>4. sel \in Things
      BY DEF PanelInv, PanelTypes
    <3>5. Followed(loads', sel)
      BY <1>3, <1>4, <2>2, <3>4, FollowedIssue
    <3>. QED
      BY <1>3, <1>4, <2>2, <3>2, <3>3, <3>5
  <2>. QED
    BY <1>5, <2>1, <2>2
<1>7. PanelTypes'
  <2>1. calls' \in [Writers -> CallSet] /\ CallSet' = CallSet
    BY <1>1, LeftCalls DEF CallSet
  <2>2. \A u \in Writers : calls'[u].stage # "none" => calls'[u].of \in Things
    BY LeftCalls DEF NoWrite, PanelInv, PanelTypes
  <2>. QED
    BY <1>1, <1>6, <2>1, <2>2 DEF PanelInv, PanelTypes
<1>8. Single'
  <2>1. \A u \in Writers : calls'[u].live => calls[u].live /\ calls'[u].of = calls[u].of
    BY LeftCalls DEF NoWrite
  <2>. QED
    BY <1>1, <1>6, <2>1 DEF PanelInv, Single
<1>9. OwnDataOnly'
  <2>1. CASE Ends(c, c.kind.patch)
    <3>1. shown' = shown \/ shown'.of = c.of
      BY <2>1 DEF EndWrite, PatchedAtEnd, Patched, Data
    <3>2. c.live /\ (strayed => strayed') /\ (c.of # sel => strayed')
      BY <2>1 DEF EndWrite, Ends, HasPatched
    <3>3. page.own = "remounted" => c.of = sel
      BY <3>2 DEF PanelInv, Single
    <3>. QED
      BY <1>1, <1>6, <3>1, <3>2, <3>3 DEF PanelInv, OwnDataOnly, Real
  <2>2. CASE ~Ends(c, c.kind.patch)
    <3>1. shown'.of = shown.of
      BY <2>2 DEF EndWrite, PatchedAtEnd, Data
    <3>2. strayed => strayed'
      BY DEF EndWrite
    <3>. QED
      BY <1>1, <1>6, <3>1, <3>2 DEF PanelInv, OwnDataOnly, Real
  <2>. QED
    BY <2>1, <2>2
<1>. QED
  BY <1>1, <1>6, <1>7, <1>8, <1>9 DEF PanelInv, Followed

-----------------------------------------------------------------------------
(* The first load is for what is selected. *)
LEMMA PanelStart == PanelInit => PanelInv
<1> SUFFICES ASSUME PanelInit PROVE PanelInv
  OBVIOUS
<1> DEFINE l == Load(sel, FALSE, FALSE)
<1>1. sel \in Things
  BY PanelsAssumption DEF PanelInit
<1>2. l \in LoadSet /\ l.of = sel
  BY <1>1 DEF Load, LoadSet
<1>3. loads = <<l>>
  BY DEF PanelInit
<1>. HIDE DEF l
<1>4. loads \in Seq(LoadSet) /\ \A k \in DOMAIN loads : loads[k].of = sel
  BY <1>2, <1>3
<1>5. PanelTypes
  <2>1. calls \in [Writers -> CallSet] /\ \A w \in Writers : calls[w].stage = "none"
    BY DEF PanelInit, NoWrite, CallSet
  <2>2. val \in [Things -> Nat] /\ masked \in BOOLEAN
    BY DEF PanelInit
  <2>. QED
    BY <1>1, <1>4, <2>1, <2>2 DEF PanelTypes
<1>6. Followed(loads, sel) /\ Single
  BY <1>4 DEF PanelInit, NoWrite, Followed, Single
<1>7. OwnDataOnly
  BY PanelsAssumption DEF PanelInit, OwnDataOnly, Real, Nothing, Data
<1>. QED
  BY <1>5, <1>6, <1>7 DEF PanelInv

(* Every step keeps the invariant. *)
LEMMA OwnStep == PanelInv /\ [PanelStep]_panelVars => PanelInv'
<1> SUFFICES ASSUME PanelInv, [PanelStep]_panelVars PROVE PanelInv'
  OBVIOUS
<1>1. ASSUME NEW i \in DOMAIN loads, Serve(i) \/ Reply(i) PROVE PanelInv'
  BY <1>1, QuietStep, ReplyStep
<1>2. ASSUME NEW t \in Things, Select(t) \/ ChangedElsewhere(t) PROVE PanelInv'
  BY <1>2, QuietStep, SelectStep
<1>3. ASSUME NEW w \in Writers, NEW kind \in page.writes, Click(w, kind) PROVE PanelInv'
  BY <1>3, ClickStep
<1>4. CASE Poll \/ Refresh \/ UNCHANGED panelVars
  BY <1>4, QuietStep
<1>5. ASSUME NEW w \in Writers, ServeWrite(w) \/ EndWrite(w) PROVE PanelInv'
  BY <1>5, QuietStep, EndWriteStep
<1>. QED
  BY <1>1, <1>2, <1>3, <1>4, <1>5 DEF PanelStep

-----------------------------------------------------------------------------
(* Whoever hears that a call was served loads again, patches then, or has  *)
(* patched already; only pages with one thing to show patch at the click.  *)
Tells(k)   == k.call => "served" \in k.reload \/ "served" \in k.patch \/ "click" \in k.patch
Follows(p) == \A k \in p.writes : Tells(k) /\ ("click" \in k.patch => p.own = "fixed")

(* The kinds of calls that most handlers make. *)
LEMMA KindsTell ==
  \A k \in {LoadsAgain, LoadsAnyway, Patches, PatchesAnyway,
            PatchesAndLoads, PatchesAndLoadsAnyway} : Tells(k) /\ "click" \notin k.patch
BY DEF Tells, Kind, LoadsAgain, LoadsAnyway, Patches, PatchesAnyway,
   PatchesAndLoads, PatchesAndLoadsAnyway

(* It is so for all pages: most make such calls only. *)
LEMMA PoliciesTell == \A p \in Pages : Follows(p)
<1>1. \A p \in {DockerTab, KubernetesTab, StorageTab, HistoryTab, OverviewTab, LogsTab,
                LogsTabSearch, LogsTabPaused, LogsTabPausedSearch, QuickHostDrawer,
                LogDetailsDrawer, LiveMetricsPage, AICenter, AIInsights, APMDashboard,
                AnalyticsSuite, TracingSuite, GlobalSearch, SearchResults,
                LogPatternsTab, AuditLogsPage, DigitalTwinDAG, DeployPage,
                ProductionEngineeringDashboard, SuperAdminDashboard, OrganizationSwitcher} :
        p.writes = {}
  BY DEF Page, DockerTab, KubernetesTab, StorageTab, HistoryTab, OverviewTab, LogsTab,
     LogsTabSearch, LogsTabPaused, LogsTabPausedSearch, QuickHostDrawer,
     LogDetailsDrawer, LiveMetricsPage, AICenter, AIInsights, APMDashboard,
     AnalyticsSuite, TracingSuite, GlobalSearch, SearchResults, LogPatternsTab,
     AuditLogsPage, DigitalTwinDAG, DeployPage,
     ProductionEngineeringDashboard, SuperAdminDashboard, OrganizationSwitcher
<1>2. \A p \in {ProcessesTab, SoftwareTab, FilesTab, HostSecurityModal, SRELatencyPage,
                DockerPage, SyntheticMonitoringPage, SyntheticTestDetailsPage, ReportsPage,
                AutomationSuite, IncidentCenter} :
        p.writes = {LoadsAgain}
  BY DEF Page, ProcessesTab, SoftwareTab, FilesTab, HostSecurityModal, SRELatencyPage,
     DockerPage, SyntheticMonitoringPage, SyntheticTestDetailsPage, ReportsPage,
     AutomationSuite, IncidentCenter,
     ProcessesReset, SoftwareTasks, FilesUpload, FilesCreate, FilesRenameDelete, FilesSave,
     SecurityPlaybook, LatencyChecks, ContainerAction, SyntheticRunDelete, SyntheticRun,
     ReportFiles, AutomationRule, AutomationRun, AutomationApproval, IncidentResolve
<1>3. \A p \in {AIOpsDashboard, CloudSuite, SecuritySuitePage, AlertRules,
                PlatformAdminDashboard, DisasterRecoveryDashboard,
                ComplianceGovernanceDashboard, OrganizationManagement, DashboardManager} :
        p.writes = {LoadsAgain}
  BY DEF Page, AIOpsDashboard, CloudSuite, SecuritySuitePage, AlertRules,
     PlatformAdminDashboard, DisasterRecoveryDashboard,
     ComplianceGovernanceDashboard, OrganizationManagement, DashboardManager,
     AIOpsRemediation, CloudConnect, APIKeys, RuleChanges, PlatformBackups,
     RecoveryBackups, ComplianceMFA, OrganizationChanges, DashboardChanges
<1>4. \A p \in {ServicesTab, MachineDetailPage, HostAccessModal, SRECrashPage, SREDiskPage,
                SREOperationsPage, Reports, DashboardBuilder, SavedExtractionRulesCatalog} :
        p.writes \subseteq {LoadsAgain, LoadsAnyway, Patches, PatchesAnyway,
                            PatchesAndLoads, PatchesAndLoadsAnyway}
  BY DEF Page, ServicesTab, MachineDetailPage, HostAccessModal, SRECrashPage, SREDiskPage,
     SREOperationsPage, Reports, DashboardBuilder, SavedExtractionRulesCatalog,
     ServicesMonitored, ServicesRestart, MachineStopResume, AccessPermission,
     CrashResetFlap, CrashRemediate, DiskRemediate, OperationsReset, OperationsRuns,
     ReportsGenerate, ReportsDelete, BuilderWidgets, ExtractionRuleChanges
<1>5. Follows(TerminalPage)
  BY DEF TerminalPage, TerminalExecute, Page, Kind, Follows, Tells
<1>6. Follows(EnterpriseDashboard)
  <2> DEFINE confirmed == [LoadsAgain EXCEPT !.patch = {"served"}, !.mask = TRUE]
             settled   == [LoadsAnyway EXCEPT !.patch = {"served", "refused"}, !.mask = TRUE]
  <2>1. /\ Tells(confirmed) /\ "click" \notin confirmed.patch
        /\ Tells(settled) /\ "click" \notin settled.patch
    BY DEF Tells, LoadsAgain, LoadsAnyway, Kind
  <2>2. EnterpriseDashboard.writes = {confirmed, settled, LoadsAgain, PatchesAnyway}
    BY DEF EnterpriseDashboard, Page, FleetConfirmDelete, FleetDelete, FleetPurge, FleetBlocks
  <2>. QED
    BY <2>1, <2>2, KindsTell DEF Follows
<1>7. Follows(UsersPage)
  <2>1. ~[NoCall EXCEPT !.patch = {"click"}].call
    BY DEF NoCall
  <2>2. /\ UsersPage.writes = {LoadsAgain, [NoCall EXCEPT !.patch = {"click"}]}
        /\ UsersPage.own = "fixed"
    BY DEF UsersPage, Page, UserInvite, UserChanges
  <2>. QED
    BY <2>1, <2>2, KindsTell DEF Follows, Tells
<1>8. Follows(NotificationStore) /\ Follows(AdminSREPolicyControl)
  BY DEF NotificationStore, AdminSREPolicyControl, SaveNotifications, SavePolicy,
     Page, Kind, Follows, Tells
<1>. QED
  <2> SUFFICES ASSUME NEW p \in Pages PROVE Follows(p)
    OBVIOUS
  <2> DEFINE Common == {LoadsAgain, LoadsAnyway, Patches, PatchesAnyway,
                        PatchesAndLoads, PatchesAndLoadsAnyway}
  <2>1. CASE p.writes \subseteq Common
    BY <2>1, KindsTell DEF Follows
  <2>2. p.writes \subseteq Common \/ Follows(p)
    BY <1>1, <1>2, <1>3, <1>4, <1>5, <1>6, <1>7, <1>8 DEF Pages
  <2>. QED
    BY <2>1, <2>2

-----------------------------------------------------------------------------
(* What the page was told of: more about the state.                        *)

Sents(t)   == {w \in Writers : calls[w].stage = "sent" /\ calls[w].of = t}
Pending(t) == Cardinality(Sents(t))

(* A version counts what was done to its thing; the calls under way are    *)
(* counted among the moves before the backend does them.                   *)
Versions ==
  /\ page \in Pages /\ moves \in 0 .. MaxMoves /\ faults \in 0 .. MaxFaults
  /\ \A t \in Things : val[t] + Pending(t) <= moves
  /\ acked \in 0 .. val[sel]
  /\ failed \in BOOLEAN /\ strayed \in BOOLEAN /\ denied \in BOOLEAN

(* An answer is a failure, or a version that was there.                    *)
Got(l, last) == l.got = {} \/ l.got = {Failed} \/ \E v \in 0 .. last : l.got = {v}

Answers ==
  \A i \in DOMAIN loads :
    Got(loads[i], val[loads[i].of]) /\ (loads[i].masked => masked)

(* A call is one of those the page makes; a page with one thing to show    *)
(* stays to hear of it; what is done is newer than what it was told of,    *)
(* unless it was told of a call that crossed this one.                     *)
Known(c) ==
  /\ IF c.stage = "none" THEN c = NoWrite ELSE c.kind \in page.writes /\ c.kind.call
  /\ page.own = "fixed" /\ c.stage # "none" => c.of = sel /\ c.live
  /\ c.ver \in 0 .. MaxMoves
  /\ c.stage = "served" =>
       c.ver <= val[c.of] /\ (c.of = sel /\ ~c.crossed => c.ver >= acked)

UnderWay == \A w \in Writers : Known(calls[w])

(* A load that will not show less than the page was told of: the backend   *)
(* had it when it answered, or has not answered.                           *)
Sure(l, t, told) == l.of = t /\ \A v \in l.got : v # Failed => v >= told

(* An answer that shows less is known to be overtaken, or a sure one is    *)
(* still to come.                                                          *)
Covered(ls, t, told) ==
  \A i \in DOMAIN ls :
    \/ ls[i].late \/ Sure(ls[i], t, told)
    \/ \E j \in DOMAIN ls : i < j /\ Sure(ls[j], t, told)

(* It has patched at the click, and does not know yet. *)
Awaiting(c) == c.stage # "none" /\ "click" \in c.kind.patch
Awaits      == \E w \in Writers : Awaiting(calls[w])

Confirmed ==
  /\ shown.of = sel
  /\ \A w \in Writers : Awaiting(calls[w]) /\ ~calls[w].crossed => shown.ver = Wished
  /\ shown.ver >= acked \/ (shown.ver = Wished /\ (denied \/ masked \/ Awaits))

Told == loads = <<>> => failed \/ strayed \/ Confirmed

PanelSound ==
  /\ PanelInv /\ Versions /\ Answers /\ Len(loads) <= MaxLoads /\ shown \in DataType
  /\ UnderWay /\ Covered(loads, sel, acked) /\ Told

-----------------------------------------------------------------------------
(* A new load covers all before it. *)
LEMMA CoveredByNew ==
  ASSUME NEW ls \in Seq(LoadSet), NEW l \in LoadSet, NEW t, NEW told, l.of = t, l.got = {}
  PROVE  Covered(Append(ls, l), t, told)
<1>1. DOMAIN ls = 1 .. Len(ls) /\ Len(ls) \in Nat
  BY LenProperties
<1>. QED
  BY <1>1, Issued DEF Covered, Sure

(* A load of another thing that is issued late covers none and needs none. *)
LEMMA CoveredBeforeLate ==
  ASSUME NEW ls \in Seq(LoadSet), NEW l \in LoadSet, NEW t, NEW told,
         Covered(ls, t, told), l.late
  PROVE  Covered(Append(ls, l), t, told)
<1>1. DOMAIN ls = 1 .. Len(ls) /\ Len(ls) \in Nat
  BY LenProperties
<1>. QED
  BY <1>1, Issued DEF Covered, Sure

(* All overtaken. *)
LEMMA CoveredOvertaken ==
  ASSUME NEW ls \in Seq(LoadSet), NEW t, NEW told
  PROVE  Covered(Overtaken(ls), t, told)
BY OvertakenLoads DEF Covered, Marked

(* After an answer was shown. *)
LEMMA CoveredRest ==
  ASSUME NEW ls \in Seq(LoadSet), NEW i \in DOMAIN ls, NEW t, NEW told, Covered(ls, t, told)
  PROVE  Covered(Rest(ls, i), t, told)
<1> DEFINE rs == Rest(ls, i)
<1>1. DOMAIN ls = 1 .. Len(ls) /\ Len(ls) \in Nat /\ i \in 1 .. Len(ls)
  BY LenProperties
<1>2. /\ DOMAIN rs = 1 .. Len(ls) - 1
      /\ \A k \in DOMAIN rs : k < i => rs[k].late
      /\ \A k \in DOMAIN rs : k >= i => rs[k] = ls[k + 1]
  BY Remaining DEF Marked
<1>. HIDE DEF rs
<1>3. ASSUME NEW k \in DOMAIN rs, k >= i
      PROVE  \/ rs[k].late \/ Sure(rs[k], t, told)
             \/ \E j \in DOMAIN rs : k < j /\ Sure(rs[j], t, told)
  <2>1. k + 1 \in DOMAIN ls /\ rs[k] = ls[k + 1]
    BY <1>1, <1>2, <1>3
  <2>2. \/ ls[k + 1].late \/ Sure(ls[k + 1], t, told)
        \/ \E j \in DOMAIN ls : k + 1 < j /\ Sure(ls[j], t, told)
    BY <2>1 DEF Covered
  <2>3. ASSUME NEW j \in DOMAIN ls, k + 1 < j, Sure(ls[j], t, told)
        PROVE  \E m \in DOMAIN rs : k < m /\ Sure(rs[m], t, told)
    <3>1. j - 1 \in DOMAIN rs /\ k < j - 1 /\ j - 1 >= i /\ (j - 1) + 1 = j
      BY <1>1, <1>2, <1>3, <2>3
    <3>2. rs[j - 1] = ls[j]
      BY <1>2, <3>1
    <3>. QED
      BY <2>3, <3>1, <3>2
  <2>. QED
    BY <2>1, <2>2, <2>3
<1>4. \A k \in DOMAIN rs : k < i \/ k >= i
  BY <1>1, <1>2
<1>5. Covered(rs, t, told)
  BY <1>2, <1>3, <1>4 DEF Covered
<1>. QED
  BY <1>5 DEF rs

(* The backend answers a load with what it has, or it fails. *)
LEMMA CoveredServed ==
  ASSUME NEW ls \in Seq(LoadSet), NEW ms \in Seq(LoadSet), NEW i \in DOMAIN ls,
         NEW t, NEW told \in Int, Covered(ls, t, told), DOMAIN ms = DOMAIN ls, ls[i].got = {},
         \A k \in DOMAIN ls : ms[k].of = ls[k].of /\ ms[k].late = ls[k].late,
         \A k \in DOMAIN ls : k # i => ms[k].got = ls[k].got,
         ms[i].of = t => \A v \in ms[i].got : v # Failed => v >= told
  PROVE  Covered(ms, t, told)
<1>1. \A k \in DOMAIN ls : Sure(ls[k], t, told) => Sure(ms[k], t, told)
  BY DEF Sure
<1>. QED
  BY <1>1 DEF Covered

-----------------------------------------------------------------------------
(* The loads of a state are in range. *)
LEMMA Loads ==
  ASSUME PanelInv
  PROVE  /\ loads \in Seq(LoadSet) /\ DOMAIN loads = 1 .. Len(loads) /\ Len(loads) \in Nat
         /\ \A i \in DOMAIN loads : loads[i] \in LoadSet /\ loads[i].of \in Things
<1>1. loads \in Seq(LoadSet) /\ DOMAIN loads = 1 .. Len(loads) /\ Len(loads) \in Nat
  BY LenProperties DEF PanelInv, PanelTypes
<1>2. \A i \in DOMAIN loads : loads[i] \in LoadSet
  BY <1>1, ElementOfSeq
<1>. QED
  BY <1>1, <1>2 DEF LoadSet

(* Answers stay right when versions grow and new loads have none.          *)
LEMMA AnswersKept ==
  ASSUME PanelInv, PanelInv', Answers,
         \A t \in Things : val'[t] >= val[t], masked => masked',
         \A k \in DOMAIN loads' :
           \/ \E m \in DOMAIN loads :
                /\ loads'[k].of = loads[m].of /\ loads'[k].got = loads[m].got
                /\ loads'[k].masked = loads[m].masked
           \/ loads'[k].got = {} /\ (loads'[k].masked => masked')
  PROVE  Answers'
<1>1. /\ \A t \in Things : val[t] \in Nat /\ val'[t] \in Nat
      /\ \A m \in DOMAIN loads : loads[m].of \in Things
  BY Loads DEF PanelInv, PanelTypes
<1> SUFFICES ASSUME NEW k \in DOMAIN loads'
             PROVE  Got(loads'[k], val'[loads'[k].of]) /\ (loads'[k].masked => masked')
  BY DEF Answers
<1>2. CASE loads'[k].got = {} /\ (loads'[k].masked => masked')
  BY <1>2 DEF Got
<1>3. ASSUME NEW m \in DOMAIN loads,
             loads'[k].of = loads[m].of, loads'[k].got = loads[m].got,
             loads'[k].masked = loads[m].masked
      PROVE  Got(loads'[k], val'[loads'[k].of]) /\ (loads'[k].masked => masked')
  <2>1. Got(loads[m], val[loads[m].of]) /\ (loads[m].masked => masked)
    BY DEF Answers
  <2>2. val'[loads[m].of] >= val[loads[m].of]
    BY <1>1
  <2>3. \A v \in 0 .. val[loads[m].of] : v \in 0 .. val'[loads[m].of]
    BY <1>1, <2>2
  <2>. QED
    BY <1>3, <2>1, <2>3 DEF Got
<1>. QED
  BY <1>2, <1>3

(* The calls sent are some of the handlers, and no fewer than none. *)
LEMMA Counted ==
  ASSUME NEW t
  PROVE  IsFiniteSet(Sents(t)) /\ Pending(t) \in Nat
<1>1. Sents(t) \subseteq Writers
  BY DEF Sents
<1>. QED
  BY <1>1, FS_Subset, FS_CardinalityType, PanelsAssumption DEF Pending

(* It is so in the next state as well. *)
LEMMA CountedNext ==
  ASSUME NEW t
  PROVE  IsFiniteSet(Sents(t)') /\ Pending(t)' \in Nat
<1>1. Sents(t)' \subseteq Writers
  BY DEF Sents
<1>. QED
  BY <1>1, FS_Subset, FS_CardinalityType, PanelsAssumption DEF Pending

(* A call that awaits is for what the page shows, and is one of its own.   *)
LEMMA AwaitsOwn ==
  ASSUME PanelSound, NEW w \in Writers, Awaiting(calls[w])
  PROVE  page.own = "fixed" /\ calls[w].of = sel /\ calls[w].live
<1>1. calls[w].kind \in page.writes /\ page \in Pages
  BY DEF PanelSound, Versions, UnderWay, Known, Awaiting
<1>2. page.own = "fixed"
  BY <1>1, PoliciesTell DEF Follows, Awaiting
<1>. QED
  BY <1>2 DEF PanelSound, UnderWay, Known, Awaiting

(* A load is issued by the timer or the button. *)
LEMMA SoundIssue ==
  ASSUME PanelSound, PanelInv', Poll \/ Refresh
  PROVE  PanelSound'
<1> DEFINE l == Load(sel, FALSE, masked)
<1>1. /\ UNCHANGED <<page, sel, val, shown, calls, masked, history, moves, faults>>
      /\ loads' = Append(loads, l) /\ Len(loads) < MaxLoads
  BY DEF Poll, Refresh, Issue, Room
<1>2. l \in LoadSet /\ l.of = sel /\ l.got = {} /\ (l.masked => masked)
  BY DEF Load, LoadSet, PanelSound, PanelInv, PanelTypes
<1>. HIDE DEF l
<1>3. PanelInv
  BY DEF PanelSound
<1>4. /\ DOMAIN loads' = 1 .. Len(loads) + 1 /\ loads' # <<>>
      /\ \A i \in DOMAIN loads : i < Len(loads) + 1 /\ loads'[i] = loads[i]
      /\ loads'[Len(loads) + 1] = l /\ Len(loads') = Len(loads) + 1
  BY <1>1, <1>2, <1>3, Loads, Issued
<1>5. Answers'
  <2>1. \A t \in Things : val'[t] >= val[t]
    BY <1>1, <1>3 DEF PanelInv, PanelTypes
  <2>2. \A k \in DOMAIN loads' : (k \in DOMAIN loads /\ loads'[k] = loads[k]) \/ loads'[k] = l
    BY <1>3, <1>4, Loads
  <2>. QED
    BY <1>1, <1>2, <1>3, <2>1, <2>2, AnswersKept DEF PanelSound
<1>6. Covered(loads', sel', acked')
  <2>1. Covered(loads', sel, acked)
    BY <1>1, <1>2, <1>3, Loads, CoveredByNew
  <2>. QED
    BY <1>1, <2>1 DEF history
<1>7. Versions' /\ UnderWay'
  BY <1>1 DEF PanelSound, Versions, Pending, Sents, UnderWay, Known, history
<1>8. Len(loads') <= MaxLoads
  BY <1>1, <1>3, <1>4, Loads, PanelsAssumption
<1>. QED
  BY <1>1, <1>4, <1>5, <1>6, <1>7, <1>8 DEF PanelSound, Told, Covered, Sure

(* The backend answers a load. *)
LEMMA SoundServe ==
  ASSUME PanelSound, PanelInv', NEW i \in DOMAIN loads, Serve(i)
  PROVE  PanelSound'
<1>0. PanelInv
  BY DEF PanelSound
<1>1. UNCHANGED <<page, sel, val, shown, calls, masked, history, moves>> /\ loads[i].got = {}
  BY DEF Serve
<1>2. PICK v \in Int : /\ loads' = [loads EXCEPT ![i].got = {v}]
                       /\ v = Failed \/ v = val[loads[i].of]
  <2>1. val[loads[i].of] \in Int /\ Failed \in Int
    BY <1>0, Loads DEF PanelInv, PanelTypes, Failed
  <2>. QED
    BY <2>1 DEF Serve
<1>3. /\ DOMAIN loads' = DOMAIN loads /\ Len(loads') = Len(loads)
      /\ \A k \in DOMAIN loads :
           /\ loads'[k].of = loads[k].of /\ loads'[k].late = loads[k].late
           /\ loads'[k].masked = loads[k].masked
      /\ \A k \in DOMAIN loads : k # i => loads'[k].got = loads[k].got
      /\ loads'[i].got = {v}
  BY <1>0, <1>2, Loads DEF LoadSet
<1>4. Answers'
  <2>1. val[loads[i].of] \in Nat /\ val[loads[i].of] \in 0 .. val[loads[i].of]
    BY <1>0, Loads DEF PanelInv, PanelTypes
  <2>2. Got(loads'[i], val[loads[i].of])
    BY <1>2, <1>3, <2>1 DEF Got
  <2>3. \A k \in DOMAIN loads : k # i => Got(loads'[k], val[loads[k].of])
    BY <1>3 DEF PanelSound, Answers, Got
  <2>4. \A k \in DOMAIN loads : loads[k].masked => masked
    BY DEF PanelSound, Answers
  <2>. QED
    BY <1>1, <1>3, <2>2, <2>3, <2>4 DEF Answers
<1>5. Covered(loads', sel', acked')
  <2>1. loads' \in Seq(LoadSet) /\ acked \in Int /\ val[sel] >= acked
    BY <1>0 DEF PanelInv, PanelTypes, PanelSound, Versions
  <2>2. loads'[i].of = sel => \A w \in loads'[i].got : w # Failed => w >= acked
    <3>1. loads'[i].of = loads[i].of /\ loads'[i].got = {v}
      BY <1>3
    <3>2. loads'[i].of = sel => v = Failed \/ v >= acked
      BY <1>2, <2>1, <3>1
    <3>. QED
      BY <3>1, <3>2
  <2>3. Covered(loads, sel, acked)
    BY DEF PanelSound
  <2>4. Covered(loads', sel, acked)
    BY <1>0, <1>1, <1>3, <2>1, <2>2, <2>3, Loads, CoveredServed
  <2>. QED
    BY <1>1, <2>4 DEF history
<1>6. Versions'
  <2>1. faults' \in 0 .. MaxFaults
    BY PanelsAssumption DEF Serve, Fault, PanelSound, Versions
  <2>. QED
    BY <1>1, <2>1 DEF PanelSound, Versions, Pending, Sents, history
<1>7. UnderWay'
  BY <1>1 DEF PanelSound, UnderWay, Known, history
<1>8. loads' # <<>>
  BY <1>0, <1>3, Loads
<1>. QED
  BY <1>1, <1>3, <1>4, <1>5, <1>6, <1>7, <1>8 DEF PanelSound, Told, Covered, Sure

(* Another user changes a thing. *)
LEMMA SoundElsewhere ==
  ASSUME PanelSound, PanelInv', NEW t \in Things, ChangedElsewhere(t)
  PROVE  PanelSound'
<1>0. PanelInv
  BY DEF PanelSound
<1>1. /\ UNCHANGED <<page, sel, shown, loads, calls, masked, history, faults>>
      /\ val' = [val EXCEPT ![t] = @ + 1] /\ moves < MaxMoves /\ moves' = moves + 1
  BY DEF ChangedElsewhere, Move
<1>2. \A u \in Things : /\ val[u] \in Nat /\ val'[u] \in Nat
                        /\ val'[u] >= val[u] /\ val'[u] <= val[u] + 1
  BY <1>0, <1>1 DEF PanelInv, PanelTypes
<1>3. Answers'
  <2>1. \A k \in DOMAIN loads' : k \in DOMAIN loads /\ loads'[k] = loads[k]
    BY <1>1
  <2>. QED
    BY <1>0, <1>1, <1>2, <2>1, AnswersKept DEF PanelSound
<1>4. Versions'
  <2>1. moves' \in 0 .. MaxMoves
    BY <1>1, PanelsAssumption DEF PanelSound, Versions
  <2>2. \A u \in Things : val'[u] + Pending(u)' <= moves'
    <3> SUFFICES ASSUME NEW u \in Things PROVE val'[u] + Pending(u)' <= moves'
      OBVIOUS
    <3>1. Pending(u)' = Pending(u) /\ Pending(u) \in Nat /\ val[u] + Pending(u) <= moves
      BY <1>1, Counted DEF Pending, Sents, PanelSound, Versions
    <3>2. moves \in Int
      BY DEF PanelSound, Versions
    <3>. QED
      BY <1>1, <1>2, <3>1, <3>2
  <2>3. acked' \in 0 .. val'[sel']
    <3>1. sel \in Things
      BY <1>0 DEF PanelInv, PanelTypes
    <3>. QED
      BY <1>1, <1>2, <3>1 DEF PanelSound, Versions, history
  <2>. QED
    BY <1>1, <2>1, <2>2, <2>3 DEF PanelSound, Versions, history
<1>5. UnderWay'
  <2> SUFFICES ASSUME NEW w \in Writers PROVE Known(calls[w])'
    BY DEF UnderWay
  <2> DEFINE c == calls[w]
  <2>1. Known(c) /\ (c.stage # "none" => c.of \in Things) /\ c \in CallSet
    BY <1>0 DEF PanelSound, UnderWay, PanelInv, PanelTypes
  <2>2. c.stage = "served" => c.ver <= val'[c.of]
    <3>1. c.stage = "served" => c.of \in Things /\ c.ver <= val[c.of]
      BY <2>1 DEF Known
    <3>2. c.ver \in Int
      BY <2>1 DEF CallSet
    <3>. QED
      BY <1>2, <3>1, <3>2
  <2>. QED
    BY <1>1, <2>1, <2>2 DEF Known, history
<1>. QED
  BY <1>0, <1>1, <1>3, <1>4, <1>5
  DEF PanelSound, Covered, Sure, Told, Confirmed, Awaits, Awaiting, history

(* An answer is shown, or a load has failed. *)
LEMMA SoundReply ==
  ASSUME PanelSound, PanelInv', NEW i \in DOMAIN loads, Reply(i)
  PROVE  PanelSound'
<1> DEFINE l == loads[i]
<1>0. PanelInv
  BY DEF PanelSound
<1>1. /\ UNCHANGED <<page, sel, val, calls, masked, acked, moves, faults>>
      /\ loads' = Rest(loads, i) /\ l.got # {}
  BY DEF Reply, Rest
<1>2. /\ l \in LoadSet /\ l.of \in Things
      /\ DOMAIN loads = 1 .. Len(loads) /\ Len(loads) \in Nat /\ loads \in Seq(LoadSet)
  BY <1>0, Loads
<1>3. /\ DOMAIN loads' = 1 .. Len(loads) - 1 /\ loads' \in Seq(LoadSet)
      /\ \A k \in DOMAIN loads' : k < i => Marked(loads'[k], loads[k])
      /\ \A k \in DOMAIN loads' : k >= i => loads'[k] = loads[k + 1]
  BY <1>1, <1>2, Remaining
<1>4. PICK v \in l.got : IF v = Failed THEN Reject ELSE Apply(l, v)
  BY <1>1 DEF Reply
<1>5. l.got = {v} /\ (v = Failed \/ v \in 0 .. val[l.of]) /\ (l.masked => masked)
  BY <1>4 DEF PanelSound, Answers, Got
<1>. HIDE DEF l
<1>6. Answers'
  <2>1. \A t \in Things : val'[t] >= val[t]
    BY <1>0, <1>1 DEF PanelInv, PanelTypes
  <2>2. \A k \in DOMAIN loads' : \E m \in DOMAIN loads :
          /\ loads'[k].of = loads[m].of /\ loads'[k].got = loads[m].got
          /\ loads'[k].masked = loads[m].masked
    <3> SUFFICES ASSUME NEW k \in DOMAIN loads'
                 PROVE  \E m \in DOMAIN loads :
                          /\ loads'[k].of = loads[m].of /\ loads'[k].got = loads[m].got
                          /\ loads'[k].masked = loads[m].masked
      OBVIOUS
    <3>1. k \in DOMAIN loads /\ k + 1 \in DOMAIN loads /\ (k < i \/ k >= i)
      BY <1>2, <1>3
    <3>. QED
      BY <1>3, <3>1 DEF Marked
  <2>. QED
    BY <1>0, <1>1, <2>1, <2>2, AnswersKept DEF PanelSound
<1>7. Covered(loads', sel', acked')
  <2>1. Covered(loads, sel, acked)
    BY DEF PanelSound
  <2>2. Covered(loads', sel, acked)
    BY <1>1, <1>2, <2>1, CoveredRest
  <2>. QED
    BY <1>1, <2>2
<1>8. Versions' /\ UnderWay'
  <2>1. failed' \in BOOLEAN /\ strayed' \in BOOLEAN /\ denied' \in BOOLEAN
    <3>1. CASE Reject
      BY <3>1 DEF Reject, PanelSound, Versions
    <3>2. CASE Apply(l, v)
      <4>1. Overwrites(l) \in BOOLEAN /\ (denied /\ Overwrites(l)) \in BOOLEAN
        BY Zenon DEF Overwrites
      <4>. QED
        BY <3>2, <4>1, Zenon DEF Apply
    <3>. QED
      BY <1>4, <3>1, <3>2
  <2>. QED
    BY <1>1, <2>1 DEF PanelSound, Versions, Pending, Sents, UnderWay, Known
<1>9. shown' \in DataType
  <2>1. CASE Reject
    BY <2>1, PanelsAssumption DEF Reject, StandIn, Data, DataType, PanelSound, Version
  <2>2. CASE v # Failed /\ Apply(l, v)
    <3>1. v \in Version
      <4>1. val[l.of] \in Nat /\ val[l.of] + Pending(l.of) <= moves /\ moves \in 0 .. MaxMoves
        BY <1>0, <1>2 DEF PanelInv, PanelTypes, PanelSound, Versions
      <4>2. Pending(l.of) \in Nat
        BY Counted
      <4>. QED
        BY <1>5, <2>2, <4>1, <4>2, PanelsAssumption DEF Version
    <3>. QED
      BY <1>2, <2>2, <3>1 DEF Apply, Data, DataType
  <2>. QED
    BY <1>4, <2>1, <2>2
<1>10. Told'
  <2> SUFFICES ASSUME loads' = <<>>, ~failed', ~strayed' PROVE Confirmed'
    BY DEF Told
  <2>1. v # Failed /\ Apply(l, v)
    BY <1>4 DEF Reject
  <2>2. ~l.late /\ Promised(l.of) = {}
    BY <2>1 DEF Apply, Overwrites
  <2>3. Len(loads) = 1
    <3>1. DOMAIN loads' = {}
      OBVIOUS
    <3>2. 1 \notin 1 .. Len(loads) - 1
      BY <1>3, <3>1
    <3>. QED
      BY <1>2, <3>2
  <2>4. l.of = sel /\ v >= acked
    <3>1. i = 1 /\ \A j \in DOMAIN loads : ~(i < j)
      BY <1>2, <2>3
    <3>2. Sure(l, sel, acked)
      BY <2>2, <3>1 DEF PanelSound, Covered, l
    <3>. QED
      BY <1>4, <2>1, <3>2 DEF Sure
  <2>5. \A w \in Writers : ~Awaiting(calls[w])
    BY <2>2, <2>4, AwaitsOwn DEF Promised, Awaiting
  <2>. QED
    BY <1>1, <1>5, <2>1, <2>4, <2>5 DEF Apply, Data, Confirmed, Awaits, Awaiting
<1>11. Len(loads') <= MaxLoads
  BY <1>2, <1>3, LenProperties, PanelsAssumption DEF PanelSound
<1>. QED
  BY <1>6, <1>7, <1>8, <1>9, <1>10, <1>11 DEF PanelSound

(* The user selects another thing. *)
LEMMA SoundSelect ==
  ASSUME PanelSound, PanelInv', NEW t \in Things, Select(t)
  PROVE  PanelSound'
<1> DEFINE fresh  == Load(t, FALSE, FALSE)
           behind == Load(t, FALSE, masked)
<1>0. PanelInv /\ calls \in [Writers -> CallSet]
  BY DEF PanelSound, PanelInv, PanelTypes
<1>1. /\ sel' = t /\ page.own # "fixed" /\ UNCHANGED <<page, val, masked, faults>>
      /\ moves < MaxMoves /\ moves' = moves + 1
      /\ acked' = 0 /\ failed' = FALSE /\ strayed' = (page.own = "lazy") /\ denied' = FALSE
  BY DEF Select, Move
<1>2. /\ fresh \in LoadSet /\ fresh.of = t /\ fresh.got = {} /\ ~fresh.masked
      /\ behind \in LoadSet /\ behind.of = t /\ behind.got = {} /\ (behind.masked => masked)
  BY <1>0 DEF Load, LoadSet, PanelInv, PanelTypes
<1>3. \/ shown' = shown /\ loads' = Append(loads, behind) /\ Len(loads) < MaxLoads
      \/ shown' = shown /\ loads' = Overtaken(loads) /\ page.own = "lazy"
      \/ (shown' = shown \/ shown' = Nothing) /\ loads' = <<fresh>>
  BY DEF Select, ChangeOfThing, Issue, Room
<1>. HIDE DEF fresh, behind
<1>4. /\ \A k \in DOMAIN loads' :
           \/ k \in DOMAIN loads /\ (loads'[k] = loads[k] \/ Marked(loads'[k], loads[k]))
           \/ loads'[k].got = {} /\ (loads'[k].masked => masked)
      /\ loads' # <<>> \/ page.own = "lazy"
      /\ Len(loads') <= MaxLoads /\ Covered(loads', t, 0)
  <2>1. CASE loads' = Append(loads, behind) /\ Len(loads) < MaxLoads
    <3>1. /\ DOMAIN loads' = 1 .. Len(loads) + 1 /\ Len(loads') = Len(loads) + 1
          /\ \A k \in DOMAIN loads : loads'[k] = loads[k]
          /\ loads'[Len(loads) + 1] = behind /\ loads' # <<>>
      BY <1>0, <1>2, <2>1, Loads, Issued
    <3>2. \A k \in DOMAIN loads' : k \in DOMAIN loads \/ k = Len(loads) + 1
      BY <1>0, <3>1, Loads
    <3>3. Covered(loads', t, 0)
      BY <1>0, <1>2, <2>1, Loads, CoveredByNew
    <3>4. Len(loads') <= MaxLoads
      BY <1>0, <2>1, <3>1, Loads, PanelsAssumption
    <3>. QED
      BY <1>2, <3>1, <3>2, <3>3, <3>4
  <2>2. CASE loads' = <<fresh>>
    <3>1. /\ DOMAIN loads' = {1} /\ loads'[1] = fresh /\ Len(loads') = 1 /\ loads' # <<>>
      BY <2>2
    <3>2. Covered(loads', t, 0)
      BY <1>2, <3>1 DEF Covered, Sure
    <3>3. Len(loads') <= MaxLoads
      BY <3>1, PanelsAssumption
    <3>. QED
      BY <1>2, <3>1, <3>2, <3>3
  <2>3. CASE loads' = Overtaken(loads) /\ page.own = "lazy"
    <3>1. Covered(loads', t, 0)
      BY <1>0, <2>3, Loads, CoveredOvertaken
    <3>2. /\ DOMAIN loads' = DOMAIN loads /\ Len(loads') = Len(loads)
          /\ \A k \in DOMAIN loads : Marked(loads'[k], loads[k])
      BY <1>0, <2>3, Loads, OvertakenLoads
    <3>. QED
      BY <2>3, <3>1, <3>2 DEF PanelSound
  <2>. QED
    BY <1>3, <2>1, <2>2, <2>3
<1>5. Answers'
  <2>1. \A u \in Things : val'[u] >= val[u]
    BY <1>0, <1>1 DEF PanelInv, PanelTypes
  <2>2. \A k \in DOMAIN loads' :
          \/ \E m \in DOMAIN loads :
               /\ loads'[k].of = loads[m].of /\ loads'[k].got = loads[m].got
               /\ loads'[k].masked = loads[m].masked
          \/ loads'[k].got = {} /\ (loads'[k].masked => masked')
    BY <1>1, <1>4 DEF Marked
  <2>. QED
    BY <1>0, <1>1, <2>1, <2>2, AnswersKept DEF PanelSound
<1>6. /\ calls' \in [Writers -> CallSet]
      /\ \A w \in Writers :
           /\ calls'[w].kind = calls[w].kind /\ calls'[w].of = calls[w].of
           /\ calls'[w].stage = calls[w].stage /\ calls'[w].ver = calls[w].ver
           /\ calls[w] = NoWrite => calls'[w] = NoWrite
  BY <1>0, SelectedCalls
<1>7. Versions'
  <2>1. moves \in 0 .. MaxMoves /\ moves' \in 0 .. MaxMoves
    BY <1>1, PanelsAssumption DEF PanelSound, Versions
  <2>2. ASSUME NEW u \in Things PROVE val'[u] + Pending(u)' <= moves' /\ 0 \in 0 .. val[u]
    <3>1. val[u] \in Nat /\ val[u] + Pending(u) <= moves /\ Pending(u) \in Nat
      BY <1>0, Counted DEF PanelInv, PanelTypes, PanelSound, Versions
    <3>2. Sents(u)' = Sents(u)
      BY <1>6 DEF Sents
    <3>3. Pending(u)' = Pending(u)
      BY <3>2 DEF Pending
    <3>. QED
      BY <1>1, <2>1, <3>1, <3>3
  <2>3. strayed' \in BOOLEAN
    BY <1>1, Zenon
  <2>. QED
    BY <1>1, <2>1, <2>2, <2>3 DEF PanelSound, Versions
<1>8. UnderWay'
  <2> SUFFICES ASSUME NEW w \in Writers PROVE Known(calls[w])'
    BY DEF UnderWay
  <2>1. Known(calls[w]) /\ (calls[w].stage # "none" => calls[w].of \in Things)
    BY <1>0 DEF PanelSound, UnderWay, PanelInv, PanelTypes
  <2>2. calls[w].ver >= 0
    BY <2>1 DEF Known
  <2>. QED
    BY <1>1, <1>6, <2>1, <2>2 DEF Known
<1>9. shown' \in DataType
  BY <1>3, PanelsAssumption DEF PanelSound, DataType, Nothing, Data, Version
<1>. QED
  BY <1>1, <1>4, <1>5, <1>7, <1>8, <1>9 DEF PanelSound, Told

(* The user asks for a change; a page may show it at once. *)
LEMMA SoundClick ==
  ASSUME PanelSound, PanelInv', NEW w \in Writers, NEW kind \in page.writes, Click(w, kind)
  PROVE  PanelSound'
<1>0. PanelInv
  BY DEF PanelSound
<1>1. /\ UNCHANGED <<page, sel, val, masked, acked, failed, strayed, faults>>
      /\ moves < MaxMoves /\ moves' = moves + 1 /\ denied' = (denied \/ ~kind.call)
  BY DEF Click, Move
<1>2. IF "click" \in kind.patch
      THEN shown' = Patched(sel, Wished) /\ loads' = Overtaken(loads)
      ELSE UNCHANGED <<shown, loads>>
  BY DEF Click
<1>3. /\ loads \in Seq(LoadSet) /\ DOMAIN loads' = DOMAIN loads /\ Len(loads') = Len(loads)
      /\ \A k \in DOMAIN loads' : loads'[k] = loads[k] \/ Marked(loads'[k], loads[k])
      /\ Covered(loads', sel, acked) /\ (loads' = <<>> => loads = <<>>)
  <2>1. CASE loads' = Overtaken(loads)
    <3>1. /\ DOMAIN loads' = DOMAIN loads /\ Len(loads') = Len(loads)
          /\ \A k \in DOMAIN loads' : Marked(loads'[k], loads[k])
          /\ Covered(loads', sel, acked)
      BY <1>0, <2>1, Loads, OvertakenLoads, CoveredOvertaken
    <3>. QED
      BY <1>0, <3>1, Loads, EmptySeq
  <2>2. CASE loads' = loads
    BY <1>0, <2>2, Loads DEF PanelSound
  <2>. QED
    BY <1>2, <2>1, <2>2
<1>4. Answers'
  <2>1. \A u \in Things : val'[u] >= val[u]
    BY <1>0, <1>1 DEF PanelInv, PanelTypes
  <2>2. \A k \in DOMAIN loads' :
          /\ k \in DOMAIN loads /\ loads'[k].of = loads[k].of
          /\ loads'[k].got = loads[k].got /\ loads'[k].masked = loads[k].masked
    BY <1>3 DEF Marked
  <2>. QED
    BY <1>0, <1>1, <2>1, <2>2, AnswersKept DEF PanelSound
<1>5. /\ sel \in Things /\ calls' \in [Writers -> CallSet] /\ calls[w] = NoWrite
      /\ calls'[w] = IF kind.call THEN NewCall(kind) ELSE NoWrite
      /\ \A u \in Writers : u # w => calls'[u] = calls[u]
  BY <1>0, ClickedCalls DEF PanelInv, PanelTypes
<1>6. Versions'
  <2>1. moves \in 0 .. MaxMoves /\ moves' \in 0 .. MaxMoves
    BY <1>1, PanelsAssumption DEF PanelSound, Versions
  <2>2. ASSUME NEW u \in Things PROVE val'[u] + Pending(u)' <= moves'
    <3>1. val[u] \in Nat /\ val[u] + Pending(u) <= moves /\ Pending(u) \in Nat
      BY <1>0, Counted DEF PanelInv, PanelTypes, PanelSound, Versions
    <3>2. w \notin Sents(u)
      BY <1>5 DEF Sents, NoWrite
    <3>3. Sents(u)' = Sents(u) \/ Sents(u)' = Sents(u) \cup {w}
      <4>1. \A x \in Writers : x # w => (x \in Sents(u)' <=> x \in Sents(u))
        BY <1>5 DEF Sents
      <4>2. Sents(u)' \subseteq Writers /\ Sents(u) \subseteq Writers
        BY DEF Sents
      <4>. QED
        BY <3>2, <4>1, <4>2
    <3>4. Pending(u)' = Pending(u) \/ Pending(u)' = Pending(u) + 1
      BY <3>2, <3>3, Counted, FS_AddElement DEF Pending
    <3>. QED
      BY <1>1, <2>1, <3>1, <3>4
  <2>3. denied' \in BOOLEAN
    BY <1>1, Zenon
  <2>. QED
    BY <1>1, <2>1, <2>2, <2>3 DEF PanelSound, Versions
<1>7. UnderWay'
  <2>1. ASSUME NEW u \in Writers, u # w PROVE Known(calls[u])'
    BY <1>1, <1>5, <2>1 DEF PanelSound, UnderWay, Known
  <2>2. Known(calls[w])'
    BY <1>1, <1>5, PanelsAssumption DEF Known, NewCall, NoWrite
  <2>. QED
    BY <2>1, <2>2 DEF UnderWay
<1>8. shown' \in DataType
  BY <1>2, <1>5 DEF Patched, Data, DataType, PanelSound
<1>9. Told'
  <2> SUFFICES ASSUME loads' = <<>>, ~failed', ~strayed' PROVE Confirmed'
    BY DEF Told
  <2>1. Confirmed
    BY <1>1, <1>3 DEF PanelSound, Told
  <2>2. CASE "click" \in kind.patch
    <3>1. shown' = Data(sel, Wished)
      BY <1>2, <1>5, <2>1, <2>2 DEF Patched, Real, Confirmed
    <3>2. kind.call => Awaiting(calls'[w])
      BY <1>5, <2>2 DEF Awaiting, NewCall
    <3>3. denied' \/ Awaits'
      BY <1>1, <3>2 DEF Awaits, Awaiting
    <3>. QED
      BY <1>1, <3>1, <3>3 DEF Confirmed, Data
  <2>3. CASE "click" \notin kind.patch
    <3>1. ~Awaiting(calls'[w]) /\ ~Awaiting(calls[w])
      BY <1>5, <2>3 DEF Awaiting, NoWrite, NewCall
    <3>2. \A u \in Writers : Awaiting(calls'[u]) <=> Awaiting(calls[u])
      BY <1>5, <3>1
    <3>3. Awaits' <=> Awaits
      BY <3>2 DEF Awaits, Awaiting
    <3>4. denied => denied'
      BY <1>1
    <3>5. \A u \in Writers : Awaiting(calls'[u]) /\ ~calls'[u].crossed => shown.ver = Wished
      BY <1>5, <2>1, <3>1, <3>2 DEF Confirmed
    <3>. QED
      BY <1>1, <1>2, <2>1, <2>3, <3>3, <3>4, <3>5 DEF Confirmed, Awaiting
  <2>. QED
    BY <2>2, <2>3
<1>. QED
  BY <1>1, <1>3, <1>4, <1>6, <1>7, <1>8, <1>9 DEF PanelSound

(* The backend does what was asked, or not; the page may not hear it did.  *)
LEMMA SoundServeWrite ==
  ASSUME PanelSound, PanelInv', NEW w \in Writers, ServeWrite(w)
  PROVE  PanelSound'
<1>0. PanelInv
  BY DEF PanelSound
<1>. PICK t \in Things : t = calls[w].of
  BY <1>0, ServedCall
<1>1. UNCHANGED <<page, sel, shown, loads, masked, history, moves>>
  BY DEF ServeWrite
<1>2. /\ calls' \in [Writers -> CallSet] /\ t \in Things
      /\ calls[w].stage = "sent" /\ Same(calls'[w], calls[w])
      /\ \A u \in Writers : u # w => calls'[u] = calls[u]
      /\ \/ calls'[w].stage = "refused" /\ calls'[w].ver = calls[w].ver
         \/ /\ calls'[w].stage = "served" /\ calls'[w].ver = val'[t]
            /\ val'[t] = val[t] + 1
      /\ val' = val \/ val' = [val EXCEPT ![t] = @ + 1]
  BY <1>0, ServedCall
<1>3. \A u \in Things : /\ val[u] \in Nat /\ val'[u] \in Nat
                        /\ val'[u] >= val[u] /\ (u # t => val'[u] = val[u])
                        /\ val'[t] <= val[t] + 1
  BY <1>0, <1>2 DEF PanelInv, PanelTypes
<1>4. faults' \in 0 .. MaxFaults
  BY PanelsAssumption DEF ServeWrite, Served, Refused, Fault, PanelSound, Versions
<1>5. Answers'
  <2>1. \A k \in DOMAIN loads' : k \in DOMAIN loads /\ loads'[k] = loads[k]
    BY <1>1
  <2>. QED
    BY <1>0, <1>1, <1>3, <2>1, AnswersKept DEF PanelSound
<1>6. Versions' /\ val[t] + 1 <= moves
  <2>1. moves \in 0 .. MaxMoves
    BY DEF PanelSound, Versions
  <2>2. \A u \in Things : /\ val[u] + Pending(u) <= moves
                          /\ Pending(u) \in Nat /\ IsFiniteSet(Sents(u))
    BY Counted DEF PanelSound, Versions
  <2>3. \A u \in Writers : u # w => \A v : u \in Sents(v)' <=> u \in Sents(v)
    BY <1>2 DEF Sents
  <2>4. w \in Sents(t) /\ \A u : w \notin Sents(u)'
    BY <1>2 DEF Sents
  <2>5. Pending(t)' = Pending(t) - 1
    <3>1. Sents(t)' = Sents(t) \ {w}
      <4>1. Sents(t)' \subseteq Writers /\ Sents(t) \subseteq Writers
        BY DEF Sents
      <4>2. \A u \in Writers : u # w => (u \in Sents(t)' <=> u \in Sents(t))
        BY <2>3
      <4>3. w \notin Sents(t)'
        BY <2>4
      <4>. QED
        BY <4>1, <4>2, <4>3
    <3>. QED
      BY <1>2, <2>2, <2>4, <3>1, FS_RemoveElement DEF Pending
  <2>6. \A u \in Things : u # t => Pending(u)' = Pending(u)
    <3> SUFFICES ASSUME NEW u \in Things, u # t PROVE Pending(u)' = Pending(u)
      OBVIOUS
    <3>1. w \notin Sents(u)
      BY DEF Sents
    <3>2. Sents(u)' \subseteq Writers /\ Sents(u) \subseteq Writers
      BY DEF Sents
    <3>3. Sents(u)' = Sents(u)
      BY <2>3, <2>4, <3>1, <3>2
    <3>. QED
      BY <3>3 DEF Pending
  <2>7. Pending(t)' \in Nat
    BY CountedNext
  <2>8. val[t] + 1 <= moves
    BY <1>2, <1>3, <2>1, <2>2, <2>5, <2>7
  <2>9. ASSUME NEW u \in Things PROVE val'[u] + Pending(u)' <= moves'
    <3>1. CASE u = t
      <4>1. val'[t] <= val[t] + 1 /\ val'[t] \in Nat /\ val[t] \in Nat
        BY <1>2, <1>3
      <4>2. /\ Pending(t)' = Pending(t) - 1 /\ Pending(t) \in Nat
            /\ val[t] + Pending(t) <= moves /\ moves' = moves /\ moves \in Nat
        BY <1>1, <1>2, <2>1, <2>2, <2>5
      <4>3. val'[t] + Pending(t)' <= moves'
        BY <4>1, <4>2
      <4>. QED
        BY <3>1, <4>3
    <3>2. CASE u # t
      BY <1>1, <1>3, <2>2, <2>6, <3>2
    <3>. QED
      BY <3>1, <3>2
  <2>10. acked' \in 0 .. val'[sel']
    <3>1. sel \in Things /\ acked \in 0 .. val[sel]
      BY <1>0 DEF PanelInv, PanelTypes, PanelSound, Versions
    <3>. QED
      BY <1>1, <1>3, <3>1 DEF history
  <2>. QED
    BY <1>1, <1>4, <2>8, <2>9, <2>10 DEF PanelSound, Versions, history
<1>7. UnderWay'
  <2>1. ASSUME NEW u \in Writers, u # w PROVE Known(calls[u])'
    <3>1. /\ Known(calls[u]) /\ calls[u] \in CallSet
          /\ calls[u].stage # "none" => calls[u].of \in Things
      BY <1>0 DEF PanelSound, UnderWay, PanelInv, PanelTypes
    <3>2. calls[u].stage = "served" => calls[u].ver <= val'[calls[u].of]
      <4>1. calls[u].ver \in Int
        BY <3>1 DEF CallSet
      <4>. QED
        BY <1>3, <3>1, <4>1 DEF Known
    <3>. QED
      BY <1>1, <1>2, <2>1, <3>1, <3>2 DEF Known, history
  <2>2. Known(calls[w])'
    <3>1. Known(calls[w]) /\ acked \in 0 .. val[sel] /\ moves \in 0 .. MaxMoves
      BY DEF PanelSound, UnderWay, Versions
    <3>2. calls'[w].ver \in 0 .. MaxMoves
      BY <1>2, <1>3, <1>6, <3>1, PanelsAssumption DEF Known
    <3>3. calls'[w].stage = "served" =>
            calls'[w].ver <= val'[t] /\ (t = sel => calls'[w].ver >= acked)
      BY <1>2, <1>3, <3>1
    <3>4. /\ calls'[w].kind = calls[w].kind /\ calls'[w].of = t
          /\ calls'[w].live = calls[w].live /\ calls'[w].stage # "none"
      BY <1>2 DEF Same
    <3>. QED
      BY <1>1, <1>2, <3>1, <3>2, <3>3, <3>4 DEF Known, history
  <2>. QED
    BY <2>1, <2>2 DEF UnderWay
<1>8. Covered(loads', sel', acked') /\ Told'
  <2>1. \A u \in Writers : /\ Awaiting(calls'[u]) <=> Awaiting(calls[u])
                           /\ calls'[u].crossed = calls[u].crossed
    BY <1>2 DEF Awaiting, Same
  <2>2. Awaits' <=> Awaits
    BY <2>1 DEF Awaits, Awaiting
  <2>3. Confirmed => Confirmed'
    BY <1>1, <2>1, <2>2 DEF Confirmed, Awaiting, history
  <2>. QED
    BY <1>1, <2>3 DEF PanelSound, Covered, Sure, Told, history
<1>. QED
  BY <1>0, <1>1, <1>5, <1>6, <1>7, <1>8 DEF PanelSound

(* The handler goes on: it patches, or loads again, or leaves the page as  *)
(* it is, and who heard that the call was served has done one of these.    *)
LEMMA SoundEndWrite ==
  ASSUME PanelSound, PanelInv', NEW w \in Writers, EndWrite(w)
  PROVE  PanelSound'
<1> DEFINE c    == calls[w]
           l    == Load(c.of, c.of # sel, masked')
           mark == HasPatched(c)
           rest == IF mark THEN Overtaken(loads) ELSE loads
           told == Ends(c, {"served"}) /\ c.of = sel
<1>0. PanelInv
  BY DEF PanelSound
<1>1. /\ UNCHANGED <<page, sel, val, failed, moves, faults>>
      /\ masked' = (masked \/ (Ends(c, c.kind.patch) /\ c.kind.mask))
      /\ acked' = IF told /\ c.ver > acked THEN c.ver ELSE acked
      /\ strayed' = (strayed \/ (mark /\ (c.crossed \/ c.of # sel)))
      /\ denied' = (denied \/ (c.stage = "refused" /\ mark))
      /\ shown' = PatchedAtEnd(w, c)
  BY DEF EndWrite
<1>2. /\ calls' \in [Writers -> CallSet] /\ calls'[w] = NoWrite
      /\ \A u \in Writers : u # w =>
           /\ calls'[u].kind = calls[u].kind /\ calls'[u].of = calls[u].of
           /\ calls'[u].stage = calls[u].stage /\ calls'[u].ver = calls[u].ver
           /\ calls'[u].live = calls[u].live
           /\ calls'[u].crossed <=> (calls[u].crossed \/ calls[u].of = c.of)
           /\ calls[u] = NoWrite => calls'[u] = NoWrite
      /\ c \in CallSet /\ c.of \in Things /\ c.stage \in {"served", "refused"}
  BY <1>0, LeftCalls
<1>3. /\ Known(c) /\ c.kind \in page.writes /\ c.kind.call /\ Tells(c.kind)
      /\ c.ver \in 0 .. MaxMoves /\ acked \in 0 .. val[sel] /\ val[sel] \in Nat
      /\ sel \in Things
      /\ c.stage = "served" => c.ver <= val[c.of]
  <2>1. Known(c) /\ page \in Pages /\ acked \in 0 .. val[sel]
    BY DEF PanelSound, UnderWay, Versions
  <2>. QED
    BY <1>0, <1>2, <2>1, PoliciesTell DEF Known, Follows, PanelInv, PanelTypes
<1>4. "click" \in c.kind.patch => page.own = "fixed" /\ c.of = sel /\ c.live
  BY <1>2, AwaitsOwn DEF Awaiting
<1>5. l \in LoadSet /\ l.of = c.of /\ l.got = {} /\ (l.masked => masked') /\ (l.late \/ l.of = sel)
  BY <1>0, <1>1, <1>2 DEF Load, LoadSet, PanelInv, PanelTypes
<1>6. IF Ends(c, c.kind.reload)
      THEN Len(loads) < MaxLoads /\ loads' = Append(rest, l) ELSE loads' = rest
  BY DEF EndWrite, Reload, Room
<1>7. /\ loads \in Seq(LoadSet) /\ rest \in Seq(LoadSet)
      /\ DOMAIN rest = DOMAIN loads /\ Len(rest) = Len(loads)
      /\ \A k \in DOMAIN rest : rest[k] = loads[k] \/ Marked(rest[k], loads[k])
      /\ Covered(rest, sel, acked) /\ (mark => Covered(rest, sel, acked'))
  <2>1. CASE mark
    <3>1. rest = Overtaken(loads)
      BY <2>1
    <3>. HIDE DEF rest, mark
    <3>. QED
      BY <1>0, <3>1, Loads, OvertakenLoads, CoveredOvertaken
  <2>2. CASE ~mark
    <3>1. rest = loads
      BY <2>2
    <3>. HIDE DEF rest
    <3>. QED
      BY <1>0, <2>2, <3>1, Loads DEF PanelSound
  <2>. QED
    BY <2>1, <2>2
<1>. HIDE DEF rest, l, c
<1>8. /\ Covered(loads', sel, acked') /\ Len(loads') <= MaxLoads
      /\ \A k \in DOMAIN loads' :
           \/ k \in DOMAIN loads /\ (loads'[k] = loads[k] \/ Marked(loads'[k], loads[k]))
           \/ loads'[k].got = {} /\ (loads'[k].masked => masked')
      /\ loads' = <<>> => loads = <<>> /\ ~Ends(c, c.kind.reload)
  <2>1. CASE Ends(c, c.kind.reload)
    <3>1. loads' = Append(rest, l) /\ Len(loads) < MaxLoads
      BY <1>6, <2>1
    <3>2. /\ DOMAIN loads' = 1 .. Len(loads) + 1 /\ Len(loads') = Len(loads) + 1
          /\ \A k \in DOMAIN loads : loads'[k] = rest[k]
          /\ loads'[Len(loads) + 1] = l /\ loads' # <<>>
      BY <1>5, <1>7, <3>1, Issued
    <3>3. \A k \in DOMAIN loads' : k \in DOMAIN loads \/ k = Len(loads) + 1
      BY <1>0, <3>2, Loads
    <3>4. Len(loads') <= MaxLoads
      BY <1>0, <3>1, <3>2, Loads, PanelsAssumption
    <3>5. Covered(loads', sel, acked')
      <4>1. CASE l.of = sel
        BY <1>5, <1>7, <3>1, <4>1, CoveredByNew
      <4>2. CASE l.of # sel
        <5>1. acked' = acked /\ l.late
          BY <1>1, <1>5, <4>2
        <5>. QED
          BY <1>5, <1>7, <3>1, <5>1, CoveredBeforeLate
      <4>. QED
        BY <4>1, <4>2
    <3>. QED
      BY <1>5, <1>7, <3>2, <3>3, <3>4, <3>5
  <2>2. CASE ~Ends(c, c.kind.reload)
    <3>1. loads' = rest
      BY <1>6, <2>2
    <3>2. Covered(rest, sel, acked')
      <4>1. told => mark
        BY <1>3, <2>2 DEF Tells, Ends, HasPatched
      <4>. QED
        BY <1>1, <1>7, <4>1
    <3>3. Len(loads') <= MaxLoads
      BY <1>7, <3>1 DEF PanelSound
    <3>4. loads' = <<>> => loads = <<>>
      BY <1>7, <3>1, EmptySeq
    <3>. QED
      BY <1>7, <2>2, <3>1, <3>2, <3>3, <3>4
  <2>. QED
    BY <2>1, <2>2
<1>9. Answers'
  <2>1. \A u \in Things : val'[u] >= val[u]
    BY <1>0, <1>1 DEF PanelInv, PanelTypes
  <2>2. \A k \in DOMAIN loads' :
           \/ \E m \in DOMAIN loads :
                /\ loads'[k].of = loads[m].of /\ loads'[k].got = loads[m].got
                /\ loads'[k].masked = loads[m].masked
           \/ loads'[k].got = {} /\ (loads'[k].masked => masked')
    BY <1>8 DEF Marked
  <2>3. masked => masked'
    BY <1>1
  <2>. QED
    BY <1>0, <2>1, <2>2, <2>3, AnswersKept DEF PanelSound
<1>10. acked' \in 0 .. val[sel] /\ acked' >= acked
  <2>1. told => c.ver <= val[sel]
    BY <1>3 DEF Ends
  <2>2. c.ver \in Nat /\ acked \in Nat
    BY <1>3
  <2>. HIDE DEF told
  <2>. QED
    BY <1>1, <1>3, <2>1, <2>2
<1>11. Versions'
  <2>1. \A u \in Things : val'[u] + Pending(u)' <= moves'
    <3> SUFFICES ASSUME NEW u \in Things PROVE val'[u] + Pending(u)' <= moves'
      OBVIOUS
    <3>1. Sents(u)' = Sents(u)
      BY <1>2 DEF Sents, NoWrite, c
    <3>2. Pending(u)' = Pending(u)
      BY <3>1 DEF Pending
    <3>. QED
      BY <1>1, <3>2 DEF PanelSound, Versions
  <2>2. acked' \in 0 .. val'[sel']
    BY <1>1, <1>10
  <2>3. strayed' \in BOOLEAN /\ denied' \in BOOLEAN
    BY <1>1, Zenon
  <2>. QED
    BY <1>1, <2>1, <2>2, <2>3 DEF PanelSound, Versions
<1>12. UnderWay'
  <2>1. Known(calls[w])'
    BY <1>2, PanelsAssumption DEF Known, NoWrite
  <2>2. ASSUME NEW u \in Writers, u # w PROVE Known(calls[u])'
    <3>1. Known(calls[u]) /\ acked \in Int
      BY <1>3 DEF PanelSound, UnderWay
    <3>2. calls'[u].of = sel /\ ~calls'[u].crossed => acked' = acked /\ ~calls[u].crossed
      <4>1. calls[u].of = sel /\ ~calls'[u].crossed => c.of # sel
        BY <1>2, <2>2
      <4>. QED
        BY <1>1, <1>2, <2>2, <4>1
    <3>. QED
      BY <1>1, <1>2, <2>2, <3>1, <3>2 DEF Known
  <2>. QED
    BY <2>1, <2>2 DEF UnderWay
<1>13. shown' \in DataType
  BY <1>1, <1>2, <1>3 DEF PatchedAtEnd, Patched, Data, DataType, Version, PanelSound
<1>14. Told'
  <2> SUFFICES ASSUME loads' = <<>>, ~failed', ~strayed' PROVE Confirmed'
    BY DEF Told
  <2>1. Confirmed /\ ~Ends(c, c.kind.reload) /\ (mark => ~c.crossed /\ c.of = sel)
    BY <1>1, <1>8 DEF PanelSound, Told
  <2>2. shown.of = sel /\ shown.of \in Things /\ shown = Data(sel, shown.ver)
    <3>1. shown = [of |-> shown.of, ver |-> shown.ver]
      BY DEF PanelSound, DataType
    <3>. QED
      BY <1>3, <2>1, <3>1 DEF Confirmed, Data
  <2>3. \A u \in Writers : u # w => (Awaiting(calls'[u]) <=> Awaiting(calls[u]))
    BY <1>2 DEF Awaiting
  <2>4. ~Awaiting(calls'[w])
    BY <1>2 DEF Awaiting, NoWrite
  <2>5. mark => \A u \in Writers : Awaiting(calls'[u]) => calls'[u].crossed
    <3> SUFFICES ASSUME mark, NEW u \in Writers, Awaiting(calls'[u])
                 PROVE  calls'[u].crossed
      OBVIOUS
    <3>1. u # w /\ Awaiting(calls[u])
      BY <2>3, <2>4
    <3>. QED
      BY <1>2, <2>1, <3>1, AwaitsOwn
  <2>6. mark /\ c.stage = "served" => c.ver >= acked /\ (c.live => acked' = c.ver)
    <3>1. mark /\ c.stage = "served" => c.ver >= acked
      BY <1>3, <2>1 DEF Known
    <3>2. mark /\ c.stage = "served" /\ c.live => told
      BY <2>1 DEF Ends
    <3>3. c.ver \in Int /\ acked \in Int
      BY <1>3
    <3>. HIDE DEF mark, told
    <3>. QED
      BY <1>1, <3>1, <3>2, <3>3
  <2>7. mark => c.live
    BY <1>4 DEF HasPatched, Ends
  <2>8. mark /\ c.stage = "refused" => denied'
    BY <1>1
  <2>9. CASE Ends(c, c.kind.patch)
    <3>1. mark /\ c.of = sel
      BY <2>1, <2>9 DEF HasPatched
    <3>2. shown' = Data(sel, IF c.stage = "served" THEN c.ver ELSE Wished)
      BY <1>1, <2>2, <2>9, <3>1 DEF PatchedAtEnd, Patched, Real
    <3>3. CASE c.stage = "served"
      <4>1. shown'.of = sel /\ shown'.ver = c.ver /\ acked' = c.ver /\ c.ver \in Int
        BY <1>3, <2>6, <2>7, <3>1, <3>2, <3>3 DEF Data
      <4>2. shown'.ver >= acked'
        BY <4>1
      <4>. QED
        BY <1>1, <2>5, <3>1, <4>1, <4>2 DEF Confirmed, Awaiting
    <3>4. CASE c.stage = "refused"
      <4>1. shown'.of = sel /\ shown'.ver = Wished
        BY <3>2, <3>4 DEF Data
      <4>. QED
        BY <1>1, <2>8, <3>1, <3>4, <4>1 DEF Confirmed
    <3>. QED
      BY <1>2, <3>3, <3>4
  <2>10. CASE ~Ends(c, c.kind.patch) /\ "click" \in c.kind.patch
    <3>1. mark /\ c.of = sel /\ shown = Data(c.of, Wished)
      <4>1. Awaiting(c) /\ mark
        BY <1>2, <2>10 DEF Awaiting, HasPatched
      <4>2. shown.ver = Wished
        BY <2>1, <4>1 DEF Confirmed, c
      <4>. QED
        BY <2>1, <2>2, <4>1, <4>2
    <3>2. CASE c.stage = "served" /\ Promised(c.of) = {w}
      <4>1. shown' = Data(sel, c.ver)
        BY <1>1, <2>1, <2>10, <3>1, <3>2 DEF PatchedAtEnd
      <4>2. shown'.of = sel /\ shown'.ver = c.ver /\ acked' = c.ver /\ c.ver \in Int
        BY <1>3, <2>6, <2>7, <3>1, <3>2, <4>1 DEF Data
      <4>3. shown'.ver >= acked'
        BY <4>2
      <4>. QED
        BY <1>1, <2>5, <3>1, <4>2, <4>3 DEF Confirmed, Awaiting
    <3>3. CASE c.stage = "served" /\ Promised(c.of) # {w}
      <4>1. shown' = shown
        BY <1>1, <2>10, <3>3 DEF PatchedAtEnd
      <4>2. PICK u \in Writers : u # w /\ u \in Promised(c.of)
        <5>1. w \in Promised(c.of) /\ Promised(c.of) \subseteq Writers
          BY <2>10 DEF Promised, c
        <5>. QED
          BY <3>3, <5>1
      <4>3. calls[u].of \in Things /\ "click" \in calls[u].kind.patch
        BY <1>2, <4>2 DEF Promised
      <4>4. calls[u].stage # "none"
        <5>1. Known(calls[u]) /\ NoWrite.of \notin Things
          BY PanelsAssumption DEF PanelSound, UnderWay, NoWrite
        <5>. QED
          BY <4>3, <5>1 DEF Known
      <4>5. Awaits'
        BY <2>3, <4>2, <4>3, <4>4 DEF Awaits, Awaiting
      <4>. QED
        BY <1>1, <2>2, <3>1, <4>1, <4>5 DEF Confirmed, Data
    <3>4. CASE c.stage = "refused"
      <4>1. shown' = shown
        BY <1>1, <2>10, <3>4 DEF PatchedAtEnd
      <4>. QED
        BY <1>1, <2>2, <2>8, <3>1, <3>4, <4>1 DEF Confirmed, Data
    <3>. QED
      BY <1>2, <3>2, <3>3, <3>4
  <2>11. CASE ~Ends(c, c.kind.patch) /\ "click" \notin c.kind.patch
    <3>1. shown' = shown /\ ~mark /\ ~Awaiting(c)
      BY <1>1, <2>11 DEF PatchedAtEnd, HasPatched, Awaiting
    <3>2. ~told
      BY <1>3, <2>1, <2>11 DEF Tells, Ends
    <3>3. acked' = acked /\ (denied => denied') /\ (masked => masked')
      BY <1>1, <3>2
    <3>4. Awaits => Awaits'
      BY <2>3, <3>1 DEF Awaits, Awaiting, c
    <3>5. \A u \in Writers : Awaiting(calls'[u]) /\ ~calls'[u].crossed =>
            Awaiting(calls[u]) /\ ~calls[u].crossed
      BY <1>2, <2>3, <2>4
    <3>. QED
      BY <1>1, <2>1, <3>1, <3>3, <3>4, <3>5 DEF Confirmed, Awaiting
  <2>. QED
    BY <2>9, <2>10, <2>11
<1>. QED
  BY <1>1, <1>8, <1>9, <1>11, <1>12, <1>13, <1>14 DEF PanelSound

(* At the start the page was told of nothing and its first load is coming. *)
LEMMA SoundStart == PanelInit => PanelSound
<1> SUFFICES ASSUME PanelInit PROVE PanelSound
  OBVIOUS
<1> DEFINE l == Load(sel, FALSE, FALSE)
<1>0. PanelInv
  BY PanelStart
<1>1. l.of = sel /\ l.got = {} /\ ~l.masked /\ loads = <<l>>
  BY DEF PanelInit, Load
<1>. HIDE DEF l
<1>2. DOMAIN loads = {1} /\ loads[1] = l /\ Len(loads) = 1 /\ loads # <<>>
  BY <1>1
<1>3. Answers /\ Covered(loads, sel, acked)
  BY <1>1, <1>2 DEF Answers, Got, Covered, Sure
<1>4. Versions
  <2>1. sel \in Things
    BY <1>0 DEF PanelInv, PanelTypes
  <2>2. \A t \in Things : val[t] + Pending(t) <= moves
    <3>1. \A t \in Things : val[t] = 0 /\ Sents(t) = {}
      BY DEF PanelInit, NoWrite, Sents
    <3>. QED
      BY <3>1, FS_EmptySet DEF PanelInit, Pending
  <2>3. acked \in 0 .. val[sel]
    BY <2>1 DEF PanelInit
  <2>4. /\ page \in Pages /\ moves = 0 /\ faults = 0
        /\ failed = FALSE /\ strayed = FALSE /\ denied = FALSE
    BY DEF PanelInit
  <2>5. 0 \in 0 .. MaxMoves /\ 0 \in 0 .. MaxFaults
    BY PanelsAssumption
  <2>. QED
    BY <2>2, <2>3, <2>4, <2>5 DEF Versions
<1>5. UnderWay /\ shown \in DataType /\ Len(loads) <= MaxLoads
  BY <1>2, PanelsAssumption
  DEF PanelInit, NoWrite, Nothing, Data, DataType, Version, UnderWay, Known
<1>. QED
  BY <1>0, <1>2, <1>3, <1>4, <1>5 DEF PanelSound, Told

(* Every step keeps the invariant. *)
LEMMA SoundStep == PanelSound /\ [PanelStep]_panelVars => PanelSound'
<1> SUFFICES ASSUME PanelSound, [PanelStep]_panelVars PROVE PanelSound'
  OBVIOUS
<1>0. PanelInv /\ PanelInv'
  BY OwnStep DEF PanelSound
<1>1. ASSUME NEW i \in DOMAIN loads, Serve(i) \/ Reply(i) PROVE PanelSound'
  BY <1>0, <1>1, SoundServe, SoundReply
<1>2. ASSUME NEW t \in Things, Select(t) \/ ChangedElsewhere(t) PROVE PanelSound'
  BY <1>0, <1>2, SoundSelect, SoundElsewhere
<1>3. ASSUME NEW w \in Writers, NEW kind \in page.writes, Click(w, kind) PROVE PanelSound'
  BY <1>0, <1>3, SoundClick
<1>4. CASE Poll \/ Refresh
  BY <1>0, <1>4, SoundIssue
<1>5. ASSUME NEW w \in Writers, ServeWrite(w) \/ EndWrite(w) PROVE PanelSound'
  BY <1>0, <1>5, SoundServeWrite, SoundEndWrite
<1>6. CASE UNCHANGED panelVars
  BY <1>0, <1>6
  DEF panelVars, history, PanelSound, Versions, Pending, Sents, Answers, Got, UnderWay,
      Known, Covered, Sure, Told, Confirmed, Awaits, Awaiting
<1>. QED
  BY <1>1, <1>2, <1>3, <1>4, <1>5, <1>6 DEF PanelStep

(* The types that the model states. *)
LEMMA SoundTypes == PanelSound => PanelTypeOK
<1> SUFFICES ASSUME PanelSound PROVE PanelTypeOK
  OBVIOUS
<1>0. PanelInv
  BY DEF PanelSound
<1>1. \A t \in Things : val[t] \in Version
  <2> SUFFICES ASSUME NEW t \in Things PROVE val[t] \in Version
    OBVIOUS
  <2>1. val[t] \in Nat /\ Pending(t) \in Nat /\ val[t] + Pending(t) <= moves
    BY <1>0, Counted DEF PanelInv, PanelTypes, PanelSound, Versions
  <2>2. moves \in 0 .. MaxMoves
    BY DEF PanelSound, Versions
  <2>. QED
    BY <2>1, <2>2, PanelsAssumption DEF Version
<1>2. sel \in Things /\ val \in [Things -> Version]
  BY <1>0, <1>1 DEF PanelInv, PanelTypes
<1>3. \A i \in DOMAIN loads : loads[i] \in LoadType
  <2> SUFFICES ASSUME NEW i \in DOMAIN loads PROVE loads[i] \in LoadType
    OBVIOUS
  <2>1. loads[i] \in LoadSet /\ loads[i].of \in Things /\ Got(loads[i], val[loads[i].of])
    BY <1>0, Loads DEF PanelSound, Answers
  <2>2. \A v \in 0 .. val[loads[i].of] : v \in Version
    BY <1>1, <2>1, PanelsAssumption DEF Version
  <2>3. loads[i].got \in {{}} \cup {{v} : v \in Version \cup {Failed}}
    BY <2>1, <2>2 DEF Got
  <2>. QED
    BY <2>1, <2>3 DEF LoadSet, LoadType
<1>4. calls \in [Writers -> WriteType]
  <2>1. calls \in [Writers -> CallSet] /\ \A w \in Writers : calls[w].ver \in 0 .. MaxMoves
    BY <1>0 DEF PanelInv, PanelTypes, PanelSound, UnderWay, Known
  <2>2. \A w \in Writers : calls[w] \in WriteType
    BY <2>1 DEF CallSet, WriteType, Version
  <2>. QED
    BY <2>1, <2>2
<1>5. acked \in Version /\ masked \in BOOLEAN
  BY <1>0, <1>1, <1>2, PanelsAssumption
  DEF PanelSound, Versions, PanelInv, PanelTypes, Version
<1>. QED
  BY <1>2, <1>3, <1>4, <1>5 DEF PanelTypeOK, PanelSound, Versions

(* When all is answered, a page shows the thing selected, not older than   *)
(* what it was told was done.                                              *)
LEMMA SoundSees == PanelSound => SeesWrites
<1> SUFFICES ASSUME PanelSound, Idle = Writers PROVE SeesWrites
  BY DEF SeesWrites
<1>1. ~Awaits
  BY DEF Idle, Awaits, Awaiting, NoWrite
<1>. QED
  BY <1>1 DEF PanelSound, Told, Confirmed, SeesWrites

-----------------------------------------------------------------------------
(* The invariant: what the page is to show, the loads and the calls under  *)
(* way, however many handlers wait for an answer, the versions and what    *)
(* the page was told of.                                                   *)
THEOREM PanelInvariance == PanelSpec => []PanelSound
  BY SoundStart, SoundStep, PTL DEF PanelSpec

(* The state of a page stays within its type: with every version among the *)
(* moves made, and one more for each call under way.                       *)
THEOREM PanelTypeCorrect == PanelSpec => []PanelTypeOK
  BY PanelInvariance, SoundTypes, PTL

(* A page mounted anew for each machine never shows another machine's      *)
(* data; a page with an active flag, only after a handler that awaited its *)
(* call patched what was there by then; a page that loads on selection,    *)
(* only while loads are under way, after one that failed, or after an      *)
(* overtaken answer; the log tab, whose search loads nothing, until a load *)
(* issued for another reason is shown.  For any number of things, loads    *)
(* and handlers under way, selections and failures.                        *)
THEOREM PanelsShowTheirOwn == PanelSpec => []OwnDataOnly
<1>1. PanelSound => OwnDataOnly
  BY DEF PanelSound, PanelInv
<1>. QED
  BY <1>1, PanelInvariance, PTL

(* When all is answered and no answer failed or was overtaken, any of the  *)
(* pages shows the thing selected, not older than what it was told was     *)
(* done, or what the user asked for in vain.  For any number of things,    *)
(* of loads and handlers under way, also of the same thing, of moves and   *)
(* failures; patches of calls that crossed each other are in doubt until   *)
(* the next load.                                                          *)
THEOREM PanelsSeeWrites == PanelSpec => []SeesWrites
  BY PanelInvariance, SoundSees, PTL

=============================================================================
