----------------------------- MODULE ServerList -----------------------------
(***************************************************************************)
(* The list of machines that every page shares                             *)
(* (frontend/src/store/serverStore.jsx), next to the table of the backend. *)
(*                                                                         *)
(* The list is fetched whole at a timer, on a message that a machine       *)
(* changed its status and after a purge; a metric message marks its        *)
(* machine online, and adds one that is not in the list.  After each       *)
(* change of list or selection an effect selects a machine when the one    *)
(* selected is not in the list.                                            *)
(*                                                                         *)
(* Left out: the figures and their history, and with them the time stamps  *)
(* by which an older sample is passed over, as any sample marks online.    *)
(***************************************************************************)
EXTENDS Naturals, SequencesExt

CONSTANTS
  Machines, NoMachine,
  MaxFetches,     \* bound: list requests under way
  MaxListMoves,   \* bound: what happens to machines
  MaxListFaults   \* bound: requests and messages that are lost

ASSUME ServerListAssumption ==
  /\ NoMachine \notin Machines
  /\ MaxFetches \in Nat \ {0} /\ MaxListMoves \in Nat /\ MaxListFaults \in Nat

VARIABLES
  machine,     \* the backend: status of a machine, or absent
  servers,     \* the list: the same
  picked,      \* selectedServerId
  fetches,     \* list requests under way
  samples,     \* machines with a metric message under way
  purging,     \* the call that purges offline machines
  listMoves, listFaults

listVars ==
  <<machine, servers, picked, fetches, samples, purging, listMoves, listFaults>>

Status   == {"absent", "ONLINE", "OFFLINE"}
Present(list) == {m \in Machines : list[m] # "absent"}
Online(list)  == {m \in Machines : list[m] = "ONLINE"}

Request == [step |-> "sent", list |-> [m \in Machines |-> "absent"]]

ListMove  == listMoves < MaxListMoves /\ listMoves' = listMoves + 1
ListFault == listFaults < MaxListFaults /\ listFaults' = listFaults + 1

\* Seeded fault: only an empty selection is replaced.
ReselectEmpty(id) ==
  picked' \in IF id = NoMachine /\ Present(servers') # {} THEN Present(servers') ELSE {id}

(* The effect that selects, for a selection of id; it runs in the same     *)
(* turn.  Which machine is first in the list is left open.                 *)
Reselect(id) ==
  picked' \in
    CASE Present(servers') = {} \/ id \in Present(servers') -> {id}
      [] Online(servers') # {} -> Online(servers')
      [] OTHER -> Present(servers')

ListInit ==
  /\ machine \in [Machines -> Status]
  /\ servers = [m \in Machines |-> "absent"]
  /\ picked = NoMachine
  /\ fetches = <<Request>>
  /\ samples = {}
  /\ purging = "no"
  /\ listMoves = 0 /\ listFaults = 0

-----------------------------------------------------------------------------
(* The backend *)

FetchRoom == Len(fetches) < MaxFetches

(* A message that a machine changed its status makes the browser fetch.    *)
Announced ==
  \/ FetchRoom /\ fetches' = Append(fetches, Request) /\ UNCHANGED listFaults
  \/ ListFault /\ UNCHANGED fetches

(* A sample also provisions a machine that is not in the table.            *)
Sample(m) ==
  /\ ListMove
  /\ machine' = [machine EXCEPT ![m] = "ONLINE"]
  /\ \/ samples' = samples \cup {m} /\ UNCHANGED listFaults
     \/ ListFault /\ UNCHANGED samples
  /\ UNCHANGED <<servers, picked, fetches, purging>>

GoesOffline(m) ==
  /\ machine[m] = "ONLINE" /\ ListMove
  /\ machine' = [machine EXCEPT ![m] = "OFFLINE"]
  /\ Announced
  /\ UNCHANGED <<servers, picked, samples, purging>>

Deleted(m) ==
  /\ machine[m] # "absent" /\ ListMove
  /\ machine' = [machine EXCEPT ![m] = "absent"]
  /\ UNCHANGED <<servers, picked, fetches, samples, purging, listFaults>>

ServeServers(i) ==
  /\ fetches[i].step = "sent"
  /\ \/ fetches' = [fetches EXCEPT ![i] = [step |-> "answered", list |-> machine]]
        /\ UNCHANGED listFaults
     \/ fetches' = [fetches EXCEPT ![i].step = "failed"] /\ ListFault
  /\ UNCHANGED <<machine, servers, picked, samples, purging, listMoves>>

ServePurge ==
  /\ purging = "sent"
  /\ \/ /\ machine' = [m \in Machines |->
                         IF machine[m] = "OFFLINE" THEN "absent" ELSE machine[m]]
        /\ purging' = "answered" /\ UNCHANGED listFaults
     \/ purging' = "failed" /\ ListFault /\ UNCHANGED machine
  /\ UNCHANGED <<servers, picked, fetches, samples, listMoves>>

-----------------------------------------------------------------------------
(* The store *)

FetchServers ==
  /\ FetchRoom
  /\ fetches' = Append(fetches, Request)
  /\ UNCHANGED <<machine, servers, picked, samples, purging, listMoves, listFaults>>

(* An answer replaces the list, also by an older one; a failure keeps it.  *)
TakeServers(i) ==
  /\ fetches[i].step # "sent"
  /\ fetches' = RemoveAt(fetches, i)
  /\ servers' = IF fetches[i].step = "answered" THEN fetches[i].list ELSE servers
  /\ Reselect(picked)
  /\ UNCHANGED <<machine, samples, purging, listMoves, listFaults>>

(* updateServerMetrics *)
UpdateServerMetrics(m) ==
  /\ m \in samples
  /\ samples' = samples \ {m}
  /\ servers' = [servers EXCEPT ![m] = "ONLINE"]
  /\ Reselect(picked)
  /\ UNCHANGED <<machine, fetches, purging, listMoves, listFaults>>

(* The drop-down offers the machines, and all of them as one choice, which *)
(* the effect does not know.                                               *)
SelectServer(id) ==
  /\ id \in Present(servers) \cup {"ALL"}
  /\ ListMove
  /\ UNCHANGED servers
  /\ Reselect(id)
  /\ UNCHANGED <<machine, fetches, samples, purging, listFaults>>

PurgeOffline ==
  /\ purging = "no" /\ ListMove
  /\ purging' = "sent"
  /\ UNCHANGED <<machine, servers, picked, fetches, samples, listFaults>>

EndPurge ==
  /\ purging \in {"answered", "failed"}
  /\ purging' = "no"
  /\ IF purging = "answered"
     THEN FetchRoom /\ fetches' = Append(fetches, Request)
     ELSE UNCHANGED fetches
  /\ UNCHANGED <<machine, servers, picked, samples, listMoves, listFaults>>

-----------------------------------------------------------------------------
ListStep ==
  \/ \E m \in Machines :
       Sample(m) \/ GoesOffline(m) \/ Deleted(m) \/ UpdateServerMetrics(m)
  \/ \E id \in Machines \cup {"ALL"} : SelectServer(id)
  \/ \E i \in DOMAIN fetches : ServeServers(i) \/ TakeServers(i)
  \/ FetchServers \/ PurgeOffline \/ ServePurge \/ EndPurge

ListSpec == ListInit /\ [][ListStep]_listVars

-----------------------------------------------------------------------------
RequestType == [step : {"sent", "answered", "failed"}, list : [Machines -> Status]]

ListTypeOK ==
  /\ machine \in [Machines -> Status] /\ servers \in [Machines -> Status]
  /\ picked \in Machines \cup {NoMachine, "ALL"}
  /\ Len(fetches) <= MaxFetches /\ \A i \in DOMAIN fetches : fetches[i] \in RequestType
  /\ samples \subseteq Machines
  /\ purging \in {"no", "sent", "answered", "failed"}
  /\ listMoves \in 0 .. MaxListMoves /\ listFaults \in 0 .. MaxListFaults

(* Once machines change no more, the list comes to be the table and stays  *)
(* so, after lost messages, a late sample of a machine that is offline or  *)
(* deleted by then and lists that overtake each other; and the machine     *)
(* selected is one of the list.                                            *)
ListSettles ==
  <>[](servers = machine /\ (Present(servers) = {} \/ picked \in Present(servers)))

=============================================================================
