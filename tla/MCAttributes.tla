---------------------------- MODULE MCAttributes ----------------------------
(***************************************************************************)
(* Every array of up to four different AVUs of two names and two values,   *)
(* on items with any AVUs of three names.                                  *)
(***************************************************************************)
EXTENDS Attributes

MCAvuName == {"color", "size", "owner"}
MCRest == {1, 2}
MCListed == [name : {"color", "size"}, rest : MCRest]
MCLists == UNION {{l \in [1..n -> MCListed] : \A j, k \in 1..n : l[j] = l[k] => j = k} : n \in 0..4}
=============================================================================
