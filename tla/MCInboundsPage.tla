---------------------------- MODULE MCInboundsPage ----------------------------
(* A VLESS inbound with fallbacks, a Shadowsocks-2022 one, room for a third. *)
EXTENDS InboundsPage

CONSTANTS bridge, page1, a, d

MCHears == [c \in Conns |-> IF c = bridge THEN {"inbounds", "invalidate"} ELSE {"client_stats"}]

MCFirst ==
    [i \in Rows |->
        CASE i = 1 -> [conf |-> "old", enable |-> TRUE, cl |-> [m \in Mails |-> "full"]]
          [] i = 2 -> [conf |-> "old", enable |-> TRUE, cl |-> [m \in Mails |-> "full"]]
          [] OTHER -> Gone]

\* Much done on the page and little around it, or the other way round.
MCBudgets ==
    {[clicks |-> 2, others |-> 1, faults |-> 0, drops |-> 0],
     [clicks |-> 2, others |-> 0, faults |-> 1, drops |-> 0],
     [clicks |-> 1, others |-> 1, faults |-> 1, drops |-> 0],
     [clicks |-> 1, others |-> 1, faults |-> 0, drops |-> 1],
     [clicks |-> 0, others |-> 2, faults |-> 0, drops |-> 2]}
=============================================================================
