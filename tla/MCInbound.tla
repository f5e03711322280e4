------------------------------ MODULE MCInbound ------------------------------
(***************************************************************************)
(* Inbound for TLC: one approval request, and updates that are text,       *)
(* skipped, or a reply to it.                                              *)
(***************************************************************************)
EXTENDS Inbound

MCHandler == {1, 2}
MCPending == {"r"}
MCKind == {[t |-> "text"], [t |-> "other"]}
            \cup {[t |-> "reply", p |-> "r", d |-> d] : d \in Decision}
==============================================================================
