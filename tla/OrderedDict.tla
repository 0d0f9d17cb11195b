------------------------------ MODULE OrderedDict ------------------------------
(***************************************************************************)
(* A Python dict, with the order of its keys, and the bound that the code  *)
(* puts on several: the executor's _session_ids (_remember_session), and   *)
(* the plans, calls, tasks and ids of the Claude backend (_plan_for,       *)
(* _bound).                                                                *)
(***************************************************************************)
EXTENDS Naturals, Sequences

Item(key, value) == [key |-> key, value |-> value]

Keys(dict) == {dict[i].key : i \in 1..Len(dict)}

At(dict, key) == CHOOSE i \in 1..Len(dict) : dict[i].key = key

\* dict.get
Get(dict, key, default) ==
  IF key \in Keys(dict) THEN dict[At(dict, key)].value ELSE default

\* dict.pop(key, None), and del
Popped(dict, key) ==
  IF key \in Keys(dict)
    THEN SubSeq(dict, 1, At(dict, key) - 1)
         \o SubSeq(dict, At(dict, key) + 1, Len(dict))
    ELSE dict

\* dict[key] = value: a key that is there keeps its place.
Assigned(dict, key, value) ==
  IF key \in Keys(dict) THEN [dict EXCEPT ![At(dict, key)].value = value]
  ELSE Append(dict, Item(key, value))

\* while len(dict) > cap: del dict[next(iter(dict))]
Bounded(dict, cap) ==
  IF Len(dict) > cap THEN SubSeq(dict, Len(dict) - cap + 1, Len(dict)) ELSE dict

\* slip: a plain assignment, which leaves a used key at the eviction front
BugTouched(dict, key, value, cap) == Bounded(Assigned(dict, key, value), cap)

\* Popped before it is set, so that the key moves to the young end.
Touched(dict, key, value, cap) ==
  Bounded(Append(Popped(dict, key), Item(key, value)), cap)
=============================================================================
