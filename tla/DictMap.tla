------------------------------- MODULE DictMap -------------------------------
(***************************************************************************)
(* What a dictionary promises: a finite map from keys to values, changed   *)
(* by insertion in one of three modes, removal by key or by bound, and by  *)
(* a batch of changes.  `last` is the outcome of the last operation.       *)
(***************************************************************************)
EXTENDS Integers, Sequences

CONSTANTS Keys,    \* the keys, sequences of bits of one length
          Vals,    \* the values
          NoVal,   \* not a value
          Batches  \* batches: functions from some keys to Vals or NoVal (remove)

VARIABLES m, last

Init == m = [k \in {} |-> NoVal] /\ last = [op |-> "new"]

Lookup(k) == IF k \in DOMAIN m THEN m[k] ELSE NoVal
Put(k, v) == [x \in DOMAIN m \union {k} |-> IF x = k THEN v ELSE m[x]]
Without(S) == [x \in DOMAIN m \ S |-> m[x]]

\* Keys compare as big-endian numbers, signed ones in two's complement.
Less(j, k, signed) ==
  LET i == CHOOSE i \in 1..Len(j) : j[i] # k[i] /\ \A h \in 1..(i - 1) : j[h] = k[h]
  IN j # k /\ (IF signed /\ i = 1 THEN j[i] > k[i] ELSE j[i] < k[i])

\* The least or the greatest of a non-empty set of keys.
BoundOf(S, bound, signed) ==
  CHOOSE k \in S : \A j \in S \ {k} :
    IF bound = "Min" THEN Less(k, j, signed) ELSE Less(j, k, signed)

Insert(k, v, mode) ==
  LET present == k \in DOMAIN m
      changed == IF present THEN mode # "Add" ELSE mode # "Replace"
  IN /\ last' = [op |-> "insert", key |-> k, mode |-> mode, changed |-> changed,
                 prev |-> Lookup(k)]
     /\ m' = IF changed THEN Put(k, v) ELSE m

Remove(k) ==
  /\ last' = [op |-> "remove", key |-> k, prev |-> Lookup(k)]
  /\ m' = Without({k})

RemoveBound(bound, signed) ==
  IF m = [k \in {} |-> NoVal]
    THEN last' = [op |-> "remove_bound", key |-> <<>>, prev |-> NoVal] /\ m' = m
    ELSE LET k == BoundOf(DOMAIN m, bound, signed)
         IN /\ last' = [op |-> "remove_bound", key |-> k, prev |-> m[k]]
            /\ m' = Without({k})

\* A batch sets or removes several keys at once.
Modify(batch) ==
  LET kept == (DOMAIN m \ DOMAIN batch) \union {k \in DOMAIN batch : batch[k] # NoVal}
  IN /\ last' = [op |-> "modify", batch |-> batch,
                 modified |-> batch # <<>> /\ (kept # {} \/ DOMAIN m # {})]
     /\ m' = [k \in kept |-> IF k \in DOMAIN batch THEN batch[k] ELSE m[k]]

Next ==
  \/ \E k \in Keys, v \in Vals, mode \in {"Set", "Replace", "Add"} : Insert(k, v, mode)
  \/ \E k \in Keys : Remove(k)
  \/ \E bound \in {"Min", "Max"}, signed \in BOOLEAN : RemoveBound(bound, signed)
  \/ \E batch \in Batches : Modify(batch)

Spec == Init /\ [][Next]_<<m, last>>
=============================================================================
