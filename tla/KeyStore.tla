------------------------------ MODULE KeyStore ------------------------------
(***************************************************************************)
(* What one host promises of a database of keyed records: what it has      *)
(* acknowledged is what it reads, from that step on and until the next     *)
(* acknowledgement for the key.  Dumps and merges are nowhere to be seen.  *)
(***************************************************************************)
CONSTANTS Key, Data, NoRec

VARIABLES
  acked,   \* key -> the record last acknowledged, NoRec when it was deleted
  kv       \* key -> the record a read gives

Init == acked = [k \in Key |-> NoRec] /\ kv = acked

Put(k, d) == acked' = [acked EXCEPT ![k] = d] /\ kv' = [kv EXCEPT ![k] = d]
Delete(k) == Put(k, NoRec)

Next == \E k \in Key : Delete(k) \/ \E d \in Data : Put(k, d)

Spec == Init /\ [][Next]_<<acked, kv>>
=============================================================================
