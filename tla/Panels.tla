------------------------------- MODULE Panels -------------------------------
(***************************************************************************)
(* A page of the web application that shows one thing of the backend at a  *)
(* time (a machine, a query, the fleet) and lets the user change it.       *)
(*                                                                         *)
(* Each page is written by hand, with an effect that loads, a timer or a   *)
(* button that loads again and handlers that call the backend and then     *)
(* load again, or patch what is shown themselves.  They differ in a few    *)
(* choices: PagePolicies has those of every page, and the behaviour that   *)
(* follows from them is here.                                              *)
(*                                                                         *)
(* The content of a thing is a version number.  Replies come in any order: *)
(* no page cancels a request or looks at the order of the answers.         *)
(***************************************************************************)
EXTENDS PagePolicies, Integers, SequencesExt

CONSTANTS
  Things,     \* what a page may show
  Writers,    \* bound: handlers of a page that are under way at a time
  MaxLoads,   \* bound: loads of a page under way at a time
  MaxMoves,   \* bound: selections, writes, changes by others
  MaxFaults   \* bound: calls that fail

ASSUME PanelsAssumption ==
  /\ Things # {} /\ Things \cap {"nothing", "standin"} = {}
  /\ IsFiniteSet(Writers)
  /\ MaxLoads \in Nat \ {0} /\ MaxMoves \in Nat /\ MaxFaults \in Nat

VARIABLES
  page,      \* the policy of the page
  sel,       \* what it is to show
  val,       \* the backend: version of a thing
  shown,     \* what it shows
  loads,     \* its loads under way, in the order they were issued
  calls,     \* its handlers: the calls under way that change a thing
  masked,    \* it hides what it believes deleted
  acked,     \* history: the last version of sel the page was told of
  failed,    \* history: the last load that was answered failed
  strayed,   \* history: what it shows was overtaken
  denied,    \* history: the page patched what the backend did not do
  moves, faults

history   == <<acked, failed, strayed, denied>>
panelVars == <<page, sel, val, shown, loads, calls, masked, history, moves, faults>>

Version == 0 .. MaxMoves
Wished  == -1    \* what the user asked for and no answer has confirmed
Failed  == -2

Data(t, v) == [of |-> t, ver |-> v]
Nothing    == Data("nothing", 0)
StandIn    == Data("standin", 0)    \* an empty list, defaults, sample data
Real       == shown.of \in Things

NoWrite ==
  [kind |-> NoCall, of |-> "nothing", stage |-> "none", ver |-> 0,
   live |-> FALSE, crossed |-> FALSE]

NewCall(kind) ==
  [kind |-> kind, of |-> sel, stage |-> "sent", ver |-> 0,
   live |-> TRUE, crossed |-> FALSE]

Load(t, late, hide) == [of |-> t, got |-> {}, late |-> late, masked |-> hide]
Room == Len(loads) < MaxLoads

Overtaken(ls) == [i \in DOMAIN ls |-> [ls[i] EXCEPT !.late = TRUE]]

Fault == faults < MaxFaults /\ faults' = faults + 1
Move  == moves < MaxMoves /\ moves' = moves + 1

PanelInit ==
  /\ page \in Pages
  /\ sel \in (IF page.own = "fixed" THEN {CHOOSE t \in Things : TRUE} ELSE Things)
  /\ val = [t \in Things |-> 0]
  /\ shown = Nothing
  /\ loads = <<Load(sel, FALSE, FALSE)>>
  /\ calls = [w \in Writers |-> NoWrite]
  /\ masked = FALSE
  /\ acked = 0 /\ failed = FALSE /\ strayed = FALSE /\ denied = FALSE
  /\ moves = 0 /\ faults = 0

-----------------------------------------------------------------------------
(* Loads *)

\* Seeded fault: a load is issued whatever is under way.
IssueUnbounded(l) == loads' = Append(loads, l)

Issue(l) == Room /\ loads' = Append(loads, l)

\* Seeded fault: the timer is cleared when something is shown.
PollOnce ==
  /\ page.timer = "poll" /\ shown = Nothing
  /\ Issue(Load(sel, FALSE, masked))
  /\ UNCHANGED <<page, sel, val, shown, calls, masked, history, moves, faults>>

(* The interval *)
Poll ==
  /\ page.timer = "poll"
  /\ Issue(Load(sel, FALSE, masked))
  /\ UNCHANGED <<page, sel, val, shown, calls, masked, history, moves, faults>>

(* The user's refresh button *)
Refresh ==
  /\ page.timer = "button"
  /\ Issue(Load(sel, FALSE, masked))
  /\ UNCHANGED <<page, sel, val, shown, calls, masked, history, moves, faults>>

Serve(i) ==
  /\ loads[i].got = {}
  /\ \/ loads' = [loads EXCEPT ![i].got = {val[loads[i].of]}] /\ UNCHANGED faults
     \/ loads' = [loads EXCEPT ![i].got = {Failed}] /\ Fault
  /\ UNCHANGED <<page, sel, val, shown, calls, masked, history, moves>>

(* The user has been shown what the call is for, before its answer.        *)
Promised(t) == {w \in Writers : calls[w].of = t /\ "click" \in calls[w].kind.patch}

(* A patch made at the click is overwritten by a load that comes between.  *)
Overwrites(l) == l.late \/ Promised(l.of) # {}

Apply(l, v) ==
  /\ shown' = Data(l.of, IF l.masked THEN Wished ELSE v)
  /\ failed' = FALSE
  /\ strayed' = Overwrites(l)
  /\ denied' = (denied /\ Overwrites(l))

Reject ==
  /\ failed' = TRUE
  /\ \/ "keep" \in page.onError /\ UNCHANGED shown
     \/ "replace" \in page.onError /\ shown' = StandIn
  /\ UNCHANGED <<strayed, denied>>

(* Loads issued earlier and still under way are overtaken.                 *)
Reply(i) ==
  /\ loads[i].got # {}
  /\ \A v \in loads[i].got : IF v = Failed THEN Reject ELSE Apply(loads[i], v)
  /\ loads' = Overtaken(SubSeq(loads, 1, i - 1)) \o SubSeq(loads, i + 1, Len(loads))
  /\ UNCHANGED <<page, sel, val, calls, masked, acked, moves, faults>>

-----------------------------------------------------------------------------
(* Selection *)

\* Seeded fault: the clean-up of the effect does not cancel.
ChangeOfThingUncancelled(t) ==
  /\ shown' = IF page.own \in {"free", "kept"} THEN shown ELSE Nothing
  /\ Issue(Load(t, FALSE, FALSE))
  /\ UNCHANGED calls

(* A page of its own for each thing, or one whose effect has an active     *)
(* flag, forgets the loads of the last thing, and hides its data or keeps  *)
(* it; only the first of these forgets its calls.  A lazy page does not    *)
(* load, and what it shows and loads is of the last thing.                 *)
ChangeOfThing(t) ==
  CASE page.own = "free" -> Issue(Load(t, FALSE, masked)) /\ UNCHANGED <<shown, calls>>
    [] page.own = "lazy" -> loads' = Overtaken(loads) /\ UNCHANGED <<shown, calls>>
    [] OTHER ->
         /\ shown' = IF page.own = "kept" THEN shown ELSE Nothing
         /\ loads' = <<Load(t, FALSE, FALSE)>>
         /\ calls' = IF page.own = "remounted"
                     THEN [w \in Writers |-> [calls[w] EXCEPT !.live = FALSE]] ELSE calls

Select(t) ==
  /\ page.own # "fixed" /\ t # sel
  /\ Move
  /\ sel' = t
  /\ ChangeOfThing(t)
  /\ acked' = 0 /\ failed' = FALSE /\ strayed' = (page.own = "lazy") /\ denied' = FALSE
  /\ UNCHANGED <<page, val, masked, faults>>

(* Another user, an agent *)
ChangedElsewhere(t) ==
  /\ Move
  /\ val' = [val EXCEPT ![t] = @ + 1]
  /\ UNCHANGED <<page, sel, shown, loads, calls, masked, history, faults>>

-----------------------------------------------------------------------------
(* Writes *)

Patched(t, v) == IF Real THEN Data(t, v) ELSE shown

Idle == {w \in Writers : calls[w] = NoWrite}

(* A page that patches at the click does so before it calls; one page has  *)
(* a button that calls nobody.  A handler may start while others wait:     *)
(* what some pages do to prevent that, by a disabled button, is left out.  *)
Click(w, kind) ==
  /\ w \in Idle /\ w = (CHOOSE v \in Idle : TRUE) /\ kind \in page.writes
  /\ Move
  /\ calls' = IF kind.call THEN [calls EXCEPT ![w] = NewCall(kind)] ELSE calls
  /\ IF "click" \in kind.patch
     THEN shown' = Patched(sel, Wished) /\ loads' = Overtaken(loads)
     ELSE UNCHANGED <<shown, loads>>
  /\ denied' = (denied \/ ~kind.call)
  /\ UNCHANGED <<page, sel, val, masked, acked, failed, strayed, faults>>

Refused(w) == Fault /\ calls' = [calls EXCEPT ![w].stage = "refused"]

Served(w) ==
  /\ calls' = [calls EXCEPT ![w] = [@ EXCEPT !.stage = "served", !.ver = val[calls[w].of] + 1]]
  /\ UNCHANGED faults

(* The backend does it or not, in any order, and the page may not hear     *)
(* that it did.                                                            *)
ServeWrite(w) ==
  /\ calls[w].stage = "sent"
  /\ \/ val' = [val EXCEPT ![calls[w].of] = @ + 1] /\ (Served(w) \/ Refused(w))
     \/ UNCHANGED val /\ Refused(w)
  /\ UNCHANGED <<page, sel, shown, loads, masked, history, moves>>

Ends(c, moments) == c.live /\ c.stage \in moments

HasPatched(c) == "click" \in c.kind.patch \/ Ends(c, c.kind.patch)

\* Seeded fault: a handler that calls and does not load again.
ReloadNever(c) ==
  loads' = IF Ends(c, c.kind.patch) THEN Overtaken(loads) ELSE loads

(* The load a handler issues is for the thing its closure knows.           *)
Reload(c) ==
  LET rest == IF HasPatched(c) THEN Overtaken(loads) ELSE loads
  IN IF Ends(c, c.kind.reload)
     THEN Room /\ loads' = Append(rest, Load(c.of, c.of # sel, masked'))
     ELSE loads' = rest

(* What was shown at the click is there, when no other click followed.     *)
PatchedAtEnd(w, c) ==
  CASE Ends(c, c.kind.patch) ->
         Patched(c.of, IF c.stage = "served" THEN c.ver ELSE Wished)
    [] /\ c.stage = "served" /\ "click" \in c.kind.patch /\ ~c.crossed
       /\ shown = Data(c.of, Wished) /\ Promised(c.of) = {w} -> Data(c.of, c.ver)
    [] OTHER -> shown

(* The calls for the same thing that still wait have been crossed.         *)
Crossed(w) ==
  [v \in Writers |->
     IF v = w THEN NoWrite
     ELSE [calls[v] EXCEPT !.crossed = @ \/ calls[v].of = calls[w].of]]

(* Patches of calls that crossed each other are in doubt: each is made     *)
(* from what its handler knows, in the order of the answers.               *)
EndWrite(w) ==
  LET c == calls[w] IN
  /\ c.stage \in {"served", "refused"}
  /\ shown' = PatchedAtEnd(w, c)
  /\ masked' = (masked \/ (Ends(c, c.kind.patch) /\ c.kind.mask))
  /\ Reload(c)
  /\ acked' = IF Ends(c, {"served"}) /\ c.of = sel /\ c.ver > acked THEN c.ver ELSE acked
  /\ strayed' = (strayed \/ (HasPatched(c) /\ (c.crossed \/ c.of # sel)))
  /\ denied' = (denied \/ (c.stage = "refused" /\ HasPatched(c)))
  /\ calls' = Crossed(w)
  /\ UNCHANGED <<page, sel, val, failed, moves, faults>>

-----------------------------------------------------------------------------
PanelStep ==
  \/ Poll \/ Refresh
  \/ \E i \in DOMAIN loads : Serve(i) \/ Reply(i)
  \/ \E t \in Things : Select(t) \/ ChangedElsewhere(t)
  \/ \E w \in Writers : \E kind \in page.writes : Click(w, kind)
  \/ \E w \in Writers : ServeWrite(w) \/ EndWrite(w)

PanelSpec == PanelInit /\ [][PanelStep]_panelVars

-----------------------------------------------------------------------------
DataType == [of : Things \cup {"nothing", "standin"}, ver : {Wished} \cup Version]

LoadType ==
  [of : Things, got : {{}} \cup {{v} : v \in Version \cup {Failed}},
   late : BOOLEAN, masked : BOOLEAN]

WriteType ==
  [kind : page.writes \cup {NoCall}, of : Things \cup {"nothing"},
   stage : {"none", "sent", "served", "refused"}, ver : Version,
   live : BOOLEAN, crossed : BOOLEAN]

PanelTypeOK ==
  /\ page \in Pages /\ sel \in Things
  /\ val \in [Things -> Version]
  /\ shown \in DataType
  /\ Len(loads) <= MaxLoads /\ \A i \in DOMAIN loads : loads[i] \in LoadType
  /\ calls \in [Writers -> WriteType]
  /\ masked \in BOOLEAN /\ acked \in Version
  /\ failed \in BOOLEAN /\ strayed \in BOOLEAN /\ denied \in BOOLEAN
  /\ moves \in 0 .. MaxMoves /\ faults \in 0 .. MaxFaults

(* A page that is mounted anew, for each machine, shows no other machine's *)
(* data, however late the answers come.  One with an active flag does only *)
(* after a handler that awaited its call patched what is there now; one    *)
(* that keeps its data over a selection does while it loads, when the load *)
(* failed, or when an answer was overtaken; a lazy one from the selection  *)
(* to the next load, issued for another reason, that is not overtaken.     *)
OwnDataOnly ==
  Real /\ shown.of # sel =>
    /\ page.own # "remounted"
    /\ strayed \/ (page.own \in {"free", "kept"} /\ (loads # <<>> \/ failed))

(* When all is answered, a page shows the thing selected, not older than   *)
(* what the page was told was done, by however many handlers at a time: a  *)
(* page that is mounted anew is not told of the calls it was left with,    *)
(* and patches are in doubt when their calls crossed.  It shows what was   *)
(* not done only after a call that failed, or was never made, and that it  *)
(* patched for.                                                            *)
SeesWrites ==
  (loads = <<>> /\ Idle = Writers /\ ~failed /\ ~strayed) =>
    /\ shown.of = sel
    /\ shown.ver >= acked \/ (shown.ver = Wished /\ (denied \/ masked))

(* A page with a timer comes to show what is there, after all selections,  *)
(* failures, patches and late answers, unless it hides it; the log tab     *)
(* while its live streaming is on.                                         *)
PollSettles ==
  page.timer = "poll" => <>[](shown = Data(sel, val[sel]) \/ masked)

=============================================================================
