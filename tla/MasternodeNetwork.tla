-------------------------- MODULE MasternodeNetwork --------------------------
(* The network that MasternodePayments and MasternodeList are both about.  *)
CONSTANTS
    Node,  \* the nodes that relay votes, broadcasts and pings to each other
    None   \* no entry, no file, no copy
=============================================================================
