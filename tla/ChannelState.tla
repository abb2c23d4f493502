----------------------------- MODULE ChannelState -----------------------------
(***************************************************************************)
(* An InMemoryChannel as the API server stores it, and the two kinds of    *)
(* patch that are made to its lists of subscribers without a resource      *)
(* version: a merge patch, which replaces spec.subscribers as a whole      *)
(* (pkg/reconciler/subscription), and a JSON patch, which changes          *)
(* status.subscribers position by position                                 *)
(* (pkg/reconciler/inmemorychannel/dispatcher).                            *)
(*                                                                         *)
(* A subscriber, in spec and in status, is its UID and a generation of the *)
(* subscription; the rest of its fields follow from these.                 *)
(***************************************************************************)
EXTENDS Integers, Sequences, FiniteSetsExt

CONSTANTS
  Subs,        \* UIDs of subscriptions
  Updated,     \* the subscriptions whose spec users change
  Deleted,     \* the subscriptions that users delete
  MaxGen,      \* bound on generations of a subscription
  Faults,      \* the kinds of fault of a configuration
  MaxFaults,   \* bound on faults
  None         \* no value

ASSUME ChannelAssumption ==
  MaxGen \in Nat \ {0} /\ MaxFaults \in Nat /\ Updated \subseteq Subs /\ Deleted \subseteq Subs

VARIABLES
  channel,     \* the channel: spec.subscribers, status.subscribers, readiness
  news,        \* the informers that have not told of the last version of it
  faults       \* faults so far

Gens == 1..MaxGen
Subscriber == [uid : Subs, gen : Gens]
Channel == [spec : Seq(Subscriber), status : Seq(Subscriber), ready : BOOLEAN]

\* A write that changes the channel is a new version of it, and news to everyone.
Informers == {"reconciler", "dispatcher"}
channelVars == <<channel, news>>
WriteChannel(c) ==
  /\ channel' = c
  /\ news' = IF c = channel THEN news ELSE Informers

\* An informer tells of the channel as it is; versions in between are left out.
Hear(informer) == informer \in news /\ news' = news \ {informer}

Fault(kind) == kind \in Faults /\ faults < MaxFaults /\ faults' = faults + 1

Has(list, s) == \E i \in DOMAIN list : list[i].uid = s

-----------------------------------------------------------------------------
(***************************************************************************)
(* The JSON patch that takes old to new.                                   *)
(***************************************************************************)

\* jsonpatch, for lists in both: what is beyond the other's length is removed
\* or added, what both have is replaced field by field.
PatchList(old, new, list) ==
  LET n == Min({Len(old), Len(new)})
      m == Min({n, Len(list)})
      grown == SubSeq(list, 1, m) \o SubSeq(new, n + 1, Len(new))
                 \o SubSeq(list, Len(old) + 1, Len(list))
      replaced(i) == [uid |-> IF old[i].uid = new[i].uid THEN grown[i].uid ELSE new[i].uid,
                      gen |-> IF old[i].gen = new[i].gen THEN grown[i].gen ELSE new[i].gen]
  IN [i \in DOMAIN grown |-> IF i <= n THEN replaced(i) ELSE grown[i]]

\* Every position the patch names is there.
PatchFits(old, new, list) ==
  LET n == Min({Len(old), Len(new)})
      changed == {i \in 1..n : old[i] # new[i]}
  IN /\ Len(old) > n => Len(list) >= Len(old)
     /\ Len(new) > n => Len(list) >= n
     /\ \A i \in changed : i <= Len(list)

\* An empty list is left out of the object, so it is added or removed whole.
JSONPatch(old, new, list) ==
  IF old = <<>> \/ new = <<>> THEN new ELSE PatchList(old, new, list)

JSONPatchApplies(old, new, list) ==
  \/ old = <<>>
  \/ new = <<>> /\ list # <<>>
  \/ new # <<>> /\ PatchFits(old, new, list)

=============================================================================
