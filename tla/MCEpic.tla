------------------------------- MODULE MCEpic -------------------------------
(***************************************************************************)
(* Two URLs whose payloads take two and three units, a complete store and  *)
(* stores in which something is missing or is no string.                   *)
(***************************************************************************)
EXTENDS EpicPID, TLC

CONSTANTS u, v

MCPayloadSize == (u :> 2) @@ (v :> 3)

Full == [key \in Keys |-> "string"]

MCStores ==
    {[loaded |-> TRUE, kind |-> Full],
     [loaded |-> FALSE, kind |-> [key \in Keys |-> "absent"]],
     [loaded |-> TRUE, kind |-> [Full EXCEPT !["epic_url"] = "absent"]],
     [loaded |-> TRUE, kind |-> [Full EXCEPT !["epic_url"] = "other"]],
     [loaded |-> TRUE, kind |-> [Full EXCEPT !["epic_handle_prefix"] = "absent"]]}
=============================================================================
