-------------------------- MODULE MCMasternodeList --------------------------
(* The masternode, a node next to it and one behind that. *)
EXTENDS MasternodeList

CONSTANTS mnode, near, behindIt

MCLink == {{mnode, near}, {near, behindIt}}
=============================================================================
