---------------------------- MODULE MCClientsPage ----------------------------
(* Two clients, one of them without inbounds, and room for a third; an inbound *)
(* with ad tags, and one with flows that is a Shadowsocks 2022 one too: two     *)
(* kinds of inbound in one, since no property relates flows to keys.            *)
EXTENDS ClientsPage

CONSTANTS tagged, plain, e1, e2, e3

MCEmails == {e1, e2, e3}
MCInbounds == {tagged, plain}
MCMtproto == {tagged}
MCPlain == {plain}

MCFirst == [i \in Ids |->
    CASE i = 1 -> [email |-> e1, sub |-> 1, data |-> "odd", enable |-> TRUE, key |-> "long",
                   flow |-> "flow", adTag |-> "tag", links |-> "links", inbounds |-> {tagged, plain}]
      [] i = 2 -> [email |-> e2, sub |-> 2, data |-> "odd", enable |-> TRUE, key |-> "short",
                   flow |-> "none", adTag |-> "none", links |-> "none", inbounds |-> {}]
      [] OTHER -> NoClient]

\* For forms changed in several fields: a key too short for one of its inbounds,
\* and a client that may come to have a flow.
MCOther == [i \in Ids |->
    CASE i = 1 -> [MCFirst[1] EXCEPT !.key = "short"]
      [] i = 2 -> [MCFirst[1] EXCEPT !.email = e2, !.sub = 2, !.inbounds = {tagged}, !.flow = "none"]
      [] OTHER -> NoClient]

MCTables == {MCFirst, MCOther}
=============================================================================
