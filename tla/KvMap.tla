------------------------------- MODULE KvMap -------------------------------
(***************************************************************************)
(* What the key-value namespace promises: a dictionary.  dict[k] is what a *)
(* retrieve of k returns, Missing if there is none: the value last stored. *)
(* A delete removes its key and may remove others with it, since the code  *)
(* keeps colliding keys on chains and cuts the chain.  A store in a batch  *)
(* does not change the length a key has, so the end of the old value may   *)
(* show behind a shorter one.  A value is the sequence of its units.       *)
(***************************************************************************)
EXTENDS Integers, Sequences

CONSTANTS Keys, Values

Missing == <<>>

VARIABLE dict

MapInit == dict = [k \in Keys |-> Missing]

\* What may become of a dictionary in a step that changes it.
OthersKept(k, old, new) == \A j \in Keys \ {k} : new[j] = old[j]

StoreValue(k, old, new) ==
  /\ OthersKept(k, old, new)
  /\ new[k] \in Values

\* A value that ends as the old one did.
StoreOver(k, old, new) ==
  /\ old[k] # Missing
  /\ OthersKept(k, old, new)
  /\ Len(new[k]) = Len(old[k])
  /\ \E value \in Values :
       /\ Len(value) < Len(old[k])
       /\ new[k] = value \o SubSeq(old[k], Len(value) + 1, Len(old[k]))

DeleteKey(k, old, new) ==
  /\ old[k] # Missing
  /\ new[k] = Missing
  /\ \A j \in Keys : new[j] \in {old[j], Missing}

MapNext ==
  \E old \in {dict}, new \in {dict'} :
    /\ old # new
    /\ \E k \in Keys : \/ DeleteKey(k, old, new)
                      \/ StoreValue(k, old, new)
                      \/ StoreOver(k, old, new)

MapSpec == MapInit /\ [][MapNext]_dict
=============================================================================
