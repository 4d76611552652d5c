------------------------------ MODULE KeyLife ------------------------------
(***************************************************************************)
(* What the key administration API promises of one virtual key: it is      *)
(* issued once, whole, with or without an AWS credential; a PATCH alters   *)
(* the field it names and nothing else; a DELETE ends it, credential       *)
(* included, and nothing brings it back.  Module KeyCache implements it.   *)
(***************************************************************************)
CONSTANTS Keys,
          Unborn,     \* the life of a key no POST has issued
          Revoked     \* the life of a key a DELETE has ended

VARIABLE life

Lives == [enabled : BOOLEAN, capped : BOOLEAN, aws : BOOLEAN]

Init == life = [k \in Keys |-> Unborn]

-----------------------------------------------------------------------------
Issue(k) == /\ life[k] = Unborn
            /\ \E l \in Lives : /\ l.enabled
                                /\ life' = [life EXCEPT ![k] = l]

Enable(k) == /\ life[k] \in Lives
             /\ \E b \in BOOLEAN : life' = [life EXCEPT ![k].enabled = b]

Limit(k) == /\ life[k] \in Lives
            /\ \E b \in BOOLEAN : life' = [life EXCEPT ![k].capped = b]

Revoke(k) == /\ life[k] \in Lives
             /\ life' = [life EXCEPT ![k] = Revoked]

Next == \E k \in Keys : Issue(k) \/ Enable(k) \/ Limit(k) \/ Revoke(k)

Spec == Init /\ [][Next]_life
=============================================================================
