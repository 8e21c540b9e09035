----------------------------- MODULE Dictionary -----------------------------
(***************************************************************************)
(* What the hash map promises (map.h): every map holds at most one value   *)
(* for a key, the first one that was put there stays, and maps that are    *)
(* copied or moved have nothing in common afterwards.                      *)
(***************************************************************************)
CONSTANTS Key, Value, Slot   \* Slot: the maps of the program
VARIABLE content             \* the function every map stands for

Nothing == [k \in {} |-> k]

DInit == content = [s \in Slot |-> Nothing]

DInsert(s, k, v) ==
  /\ k \notin DOMAIN content[s]
  /\ content' = [content EXCEPT ![s] = [j \in DOMAIN content[s] \cup {k} |->
                                          IF j = k THEN v ELSE content[s][j]]]

DErase(s, K) ==
  content' = [content EXCEPT ![s] = [j \in DOMAIN content[s] \ K |->
                                       content[s][j]]]

DCopy(t, s) == content' = [content EXCEPT ![t] = content[s]]

DMove(t, s) == content' = [content EXCEPT ![t] = content[s], ![s] = Nothing]

DNext == \/ \E s \in Slot, k \in Key, v \in Value : DInsert(s, k, v)
         \/ \E s \in Slot, K \in SUBSET Key : DErase(s, K)
         \/ \E s, t \in Slot : s # t /\ (DCopy(t, s) \/ DMove(t, s))

DSpec == DInit /\ [][DNext]_content
=============================================================================
